-------------------------- MODULE RegistrarProofs --------------------------
(***************************************************************************)
(* Proofs about the AK registrar. DataInv says what a session, an answer   *)
(* and a record stand for; StageInv says what each process at work has     *)
(* already put on disk; ShapeInv where files are, and that a record on     *)
(* disk is one that was written.                                           *)
(***************************************************************************)
EXTENDS Registrar, TLAPS

-----------------------------------------------------------------------------
(***************************************************************************)
(* Types.                                                                  *)
(***************************************************************************)
Sessions ==
  [ek : EkCerts, int : IntCerts, root : RootCerts, ekCrl : CrlSet, intCrl : CrlSet,
   ak : Aks, checked : Nat, secret : Nat, blob : BlobSet]

Recs == {RecordOf(s) : s \in Sessions}

Mems == [dir : Dirs \union {None}, file : FileNames \union {None},
         n : Nat \union {None}, rec : Recs \union {None}]

AllFiles == {Absent, Torn} \union {Holding(x) : x \in Nat \union Recs \union {None}}

Typed ==
  /\ now \in Times
  /\ revoked \in [Serials -> Times \union {None}]
  /\ lost \in [Aks -> Times \union {None}]
  /\ sess \in Seq(Sessions)
  /\ pc \in [Operators -> {"idle", "mkdir", "create", "fill", "remove"}]
  /\ mem \in [Operators -> Mems]
  /\ made \subseteq Dirs
  /\ files \in [Dirs -> [FileNames -> AllFiles]]
  /\ written \subseteq Recs

-----------------------------------------------------------------------------
(***************************************************************************)
(* What the data stand for.                                                *)
(***************************************************************************)
Drawn == 1..Len(sess)

\* A session was checked as its record will say, and its secret is its own.
Checked(i, s, t) ==
  /\ s.secret = i
  /\ s.blob = MakeCredential(s.ek.key, Name(s.ak), i)
  /\ s.checked <= t
  /\ s.root = Pinned => s.ek.key \in TpmKeys
  /\ RecordHolds(RecordOf(s), s.root)

\* A certificate was not revoked before its CRL, which is not old.
Fresher(c, crl, checked, rev) ==
  c.serial \in Serials /\ rev[c.serial] # None =>
    rev[c.serial] >= crl.this /\ rev[c.serial] + CrlLife >= checked

Unrevoked(s, rev) ==
  /\ Fresher(s.ek, s.ekCrl, s.checked, rev)
  /\ Fresher(s.int, s.intCrl, s.checked, rev)

\* The AK of a session was in the TPM of its EK at the check or after.
Lived(s, gone) ==
  \E ak \in Aks : /\ Name(ak) = Name(s.ak)
                  /\ Home[ak] = s.ek.key
                  /\ gone[ak] = None \/ gone[ak] >= s.checked

\* A record comes of a session whose secret was released.
MadeOf(rec, answers, ss) == \E i \in answers : rec = RecordOf(ss[i])

SessionsHold == \A i \in Drawn : Checked(i, sess[i], now) /\ Unrevoked(sess[i], revoked)
AnswersHold ==
  \A i \in released : i \in Drawn /\ (sess[i].root = Pinned => Lived(sess[i], lost))
FilesHold ==
  \A d \in Dirs :
    /\ Whole(files[d].pending) => files[d].pending.of \in Drawn
    /\ Whole(files[d].blob) => files[d].blob.of \in Drawn
ProcessHolds(l, m, drawn, answers, ss) ==
  l # "idle" =>
    /\ m.dir \in Dirs
    /\ l = "mkdir" => m.n \in drawn
    /\ l \in {"create", "fill"} =>
         /\ m.file \in FileNames
         /\ m.file = "record" => m.rec \in Recs /\ MadeOf(m.rec, answers, ss)
         /\ m.file # "record" => m.n \in drawn
ProcessesHold ==
  \A p \in Operators : ProcessHolds(pc[p], mem[p], Drawn, released, sess)
RecordsHold == \A rec \in written : MadeOf(rec, released, sess)

DataInv == /\ Typed /\ SessionsHold /\ AnswersHold /\ FilesHold
           /\ ProcessesHold /\ RecordsHold

-----------------------------------------------------------------------------
(***************************************************************************)
(* A session that `begin` draws.                                           *)
(***************************************************************************)
\* Whole seconds: a time within whole seconds stays there when cut.
LEMMA CutSecond ==
  ASSUME NEW a \in Nat, NEW t \in Nat
  PROVE  /\ Sec(t) \in Nat /\ Sec(t) <= t
         /\ Sec(a) = a /\ a <= t => a <= Sec(t)
  BY DEF Sec

\* A chain or a CRL that is good at a time is good at its second.
LEMMA CutChain ==
  ASSUME NEW ek \in EkCerts, NEW int \in IntCerts, NEW root \in RootCerts,
         NEW t \in Nat, ChainValid(ek, int, root, t)
  PROVE  ChainValid(ek, int, root, Sec(t))
<1>1. ASSUME NEW c \in EkCerts \union Cas, InForce(c, t)
      PROVE  InForce(c, Sec(t))
  <2>1. c.from \in Nat /\ c.until \in Nat /\ Sec(c.from) = c.from
    BY DatesAssumption
  <2>2. Sec(t) \in Nat /\ Sec(t) <= t /\ c.from <= Sec(t)
    BY <1>1, <2>1, CutSecond DEF InForce
  <2> QED BY <1>1, <2>1, <2>2 DEF InForce
<1>2. {ek, int, root} \subseteq EkCerts \union Cas
  BY DEF Cas
<1> QED BY <1>1, <1>2 DEF ChainValid

\* A CRL that is current and clean at a time is so at its second (crl::check).
LEMMA CutCrl ==
  ASSUME NEW crl \in CrlSet, NEW c, NEW ca, NEW t \in Nat,
         Sec(crl.this) = crl.this,
         NotRevoked(crl, c, ca, t)
  PROVE  NotRevoked(crl, c, ca, Sec(t))
<1>1. crl.this \in Nat /\ crl.next \in Nat
  BY DEF CrlSet
<1>2. Sec(t) \in Nat /\ Sec(t) <= t /\ crl.this <= Sec(t)
  BY <1>1, CutSecond DEF NotRevoked
<1> QED BY <1>1, <1>2 DEF NotRevoked

\* What is fetched is a CRL, with whole seconds and an honest list.
LEMMA FetchedCrl ==
  ASSUME NEW t \in Nat, NEW crl \in Crls(t)
  PROVE  /\ crl \in CrlSet /\ crl.this = t /\ crl.next = t + CrlLife
         /\ \A s \in Serials :
              s \notin crl.listed /\ revoked[s] # None => ~(revoked[s] < t)
<1>1. PICK ca \in Cas : crl = Crl(ca, t)
  BY DEF Crls
<1>2. t + CrlLife \in Nat
  BY BoundsAssumption
<1> QED BY <1>1, <1>2 DEF Crl, CrlSet

\* The session `begin` makes of what it has checked.
LEMMA SessionDrawn ==
  ASSUME Typed,
         NEW ek \in EkCerts, NEW int \in IntCerts, NEW root \in RootCerts,
         NEW t \in 0..now, Sec(t) = t, NEW ekCrl \in Crls(t), NEW intCrl \in Crls(t),
         NEW ak \in Aks, AkQualifies(ak),
         ChainValid(ek, int, root, now),
         ChainNotRevoked(ek, int, root, ekCrl, intCrl, now),
         NEW s, s = Session(ek, int, root, ekCrl, intCrl, ak)
  PROVE  s \in Sessions /\ Checked(Len(sess) + 1, s, now) /\ Unrevoked(s, revoked)
<1> now \in Nat /\ t \in Nat /\ Len(sess) + 1 \in Nat /\ now \in Times
  BY BoundsAssumption DEF Typed, Times
<1>1. Sec(now) \in Nat /\ Sec(now) <= now /\ t <= Sec(now)
  BY CutSecond
<1>2. /\ ekCrl \in CrlSet /\ ekCrl.this = t /\ ekCrl.next = t + CrlLife
      /\ intCrl \in CrlSet /\ intCrl.this = t /\ intCrl.next = t + CrlLife
  BY FetchedCrl
<1>3. /\ s.ek = ek /\ s.int = int /\ s.root = root /\ s.ekCrl = ekCrl
      /\ s.intCrl = intCrl /\ s.ak = ak /\ s.checked = Sec(now)
      /\ s.secret = Len(sess) + 1
      /\ s.blob = MakeCredential(ek.key, Name(ak), Len(sess) + 1)
  BY DEF Session, Fresh
<1>4. s \in Sessions
  <2>1. s.blob \in BlobSet
    BY <1>3 DEF MakeCredential, BlobSet
  <2> QED BY <1>1, <1>2, <1>3, <2>1 DEF Session, Fresh, Sessions
<1>5. RecordHolds(RecordOf(s), s.root)
  <2>1. ChainValid(ek, int, root, Sec(now))
    BY CutChain
  <2>2. ChainNotRevoked(ek, int, root, ekCrl, intCrl, Sec(now))
    BY <1>2, CutCrl DEF ChainNotRevoked
  <2>3. ekCrl # None /\ intCrl # None /\ s.blob # None
    BY <1>2, <1>4, NoneAssumption DEF Sessions
  <2> QED BY <1>3, <2>1, <2>2, <2>3
          DEF RecordHolds, FormatHolds, RevocationHolds, RecordOf
<1>6. s.root = Pinned => s.ek.key \in TpmKeys
  BY <1>3, PinnedAssumption
<1>7. ASSUME NEW c, NEW ca, NEW crl \in Crls(t), NotRevoked(crl, c, ca, now)
      PROVE  Fresher(c, crl, Sec(now), revoked)
  <2>1. /\ crl.this = t /\ now <= crl.next /\ crl.next = t + CrlLife
        /\ c.serial \notin crl.listed
    BY <1>7, FetchedCrl DEF NotRevoked
  <2>2. ASSUME c.serial \in Serials, revoked[c.serial] # None
        PROVE  revoked[c.serial] \in Nat /\ revoked[c.serial] >= t
    <3>1. revoked[c.serial] \in Nat
      BY <2>2, BoundsAssumption DEF Typed, Times
    <3> QED BY <2>1, <2>2, <3>1, FetchedCrl
  <2> QED BY <1>1, <2>1, <2>2, BoundsAssumption DEF Fresher
<1>8. Unrevoked(s, revoked)
  BY <1>3, <1>7 DEF Unrevoked, ChainNotRevoked
<1> QED BY <1>1, <1>3, <1>4, <1>5, <1>6, <1>8 DEF Checked

-----------------------------------------------------------------------------
(***************************************************************************)
(* DataInv is inductive.                                                   *)
(***************************************************************************)
\* Every drawn session has the shape `begin` gives it.
LEMMA SessionTyped ==
  ASSUME Typed, NEW i \in Drawn
  PROVE  sess[i] \in Sessions /\ sess[i].checked \in Nat
<1>1. sess \in Seq(Sessions)
  BY DEF Typed
<1>2. sess[i] \in Sessions
  BY <1>1 DEF Drawn
<1> QED BY <1>2 DEF Sessions

\* Nothing is drawn, held or written at first.
LEMMA DataInit == Init => DataInv
<1> SUFFICES ASSUME Init PROVE DataInv
  OBVIOUS
<1>1. Typed
  <2>1. << >> \in Seq(Sessions) /\ 0 \in Times
    BY BoundsAssumption DEF Times
  <2> QED BY <2>1 DEF Init, Typed, Mems, NoMem, AllFiles
<1>2. SessionsHold /\ AnswersHold /\ ProcessesHold /\ RecordsHold
  BY DEF Init, SessionsHold, AnswersHold, ProcessesHold, ProcessHolds, RecordsHold, Drawn
<1>3. FilesHold
  BY DEF Init, FilesHold, Whole, Absent, FileNames
<1> QED BY <1>1, <1>2, <1>3 DEF DataInv

\* Time, revocations and lost AKs.
LEMMA DataWorld ==
  ASSUME DataInv,
         \/ Tick
         \/ \E s \in Serials : Revoke(s)
         \/ \E ak \in Aks : LoseAk(ak)
  PROVE  DataInv'
<1> USE DEF DataInv
<1>1. UNCHANGED <<sess, released, pc, mem, made, files, written>>
  BY DEF Tick, Revoke, LoseAk
<1>2. now \in Nat /\ now' \in Times /\ now <= now'
  <2>1. now \in Nat /\ now \in 0..MaxTime
    BY BoundsAssumption DEF Typed, Times
  <2>2. CASE Tick
    BY <2>1, <2>2, BoundsAssumption DEF Tick, Times
  <2>3. CASE now' = now
    BY <2>1, <2>3, BoundsAssumption DEF Times
  <2> QED BY <2>2, <2>3 DEF Revoke, LoseAk
<1>3. revoked' \in [Serials -> Times \union {None}]
      /\ lost' \in [Aks -> Times \union {None}]
  BY DEF Typed, Tick, Revoke, LoseAk
<1>4. Typed'
  BY <1>1, <1>2, <1>3 DEF Typed
<1>5. FilesHold' /\ ProcessesHold' /\ RecordsHold'
  BY <1>1 DEF FilesHold, ProcessesHold, RecordsHold, Drawn
<1>6. \A i \in Drawn : sess[i] \in Sessions /\ sess[i].checked \in Nat
  BY SessionTyped
<1>7. SessionsHold'
  <2> SUFFICES ASSUME NEW i \in Drawn
               PROVE  Checked(i, sess[i], now') /\ Unrevoked(sess[i], revoked')
    BY <1>1 DEF SessionsHold, Drawn
  <2> DEFINE s == sess[i]
  <2>1. Checked(i, s, now) /\ Unrevoked(s, revoked) /\ s \in Sessions /\ s.checked \in Nat
    BY <1>6 DEF SessionsHold
  <2>2. Checked(i, s, now')
    BY <1>1, <1>2, <2>1, BoundsAssumption DEF Checked, Times
  <2>3. s.ekCrl.this \in Nat /\ s.intCrl.this \in Nat
        /\ s.ekCrl.this <= s.checked /\ s.checked <= s.ekCrl.next
        /\ s.intCrl.this <= s.checked /\ s.checked <= s.intCrl.next
    BY <2>1 DEF Sessions, CrlSet, Checked, RecordHolds, RecordOf, FormatHolds,
                RevocationHolds, ChainNotRevoked, NotRevoked
  <2>4. ASSUME NEW c, NEW crl, Fresher(c, crl, s.checked, revoked),
               crl.this \in Nat, crl.this <= s.checked
        PROVE  Fresher(c, crl, s.checked, revoked')
    <3> SUFFICES ASSUME c.serial \in Serials, revoked'[c.serial] # None
                 PROVE  /\ revoked'[c.serial] >= crl.this
                        /\ revoked'[c.serial] + CrlLife >= s.checked
      BY DEF Fresher
    <3>1. revoked'[c.serial] = revoked[c.serial] \/ revoked'[c.serial] = now
      BY DEF Typed, Tick, Revoke, LoseAk
    <3>2. s.checked <= now
      BY <2>1 DEF Checked
    <3> QED BY <2>1, <2>4, <3>1, <3>2, <1>2, BoundsAssumption DEF Fresher
  <2> QED BY <2>1, <2>2, <2>3, <2>4, <1>1 DEF Unrevoked
<1>8. AnswersHold'
  <2> SUFFICES ASSUME NEW i \in released
               PROVE  i \in Drawn /\ (sess[i].root = Pinned => Lived(sess[i], lost'))
    BY <1>1 DEF AnswersHold, Drawn
  <2>1. i \in Drawn /\ (sess[i].root = Pinned => Lived(sess[i], lost))
    BY DEF AnswersHold
  <2>2. sess[i].checked \in Nat /\ sess[i].checked <= now
    BY <1>6, <2>1 DEF SessionsHold, Checked
  <2>3. \A ak \in Aks : lost'[ak] = lost[ak] \/ lost'[ak] = now
    BY DEF Typed, Tick, Revoke, LoseAk
  <2>4. ASSUME Lived(sess[i], lost) PROVE Lived(sess[i], lost')
    <3>1. PICK ak \in Aks : /\ Name(ak) = Name(sess[i].ak)
                            /\ Home[ak] = sess[i].ek.key
                            /\ lost[ak] = None \/ lost[ak] >= sess[i].checked
      BY <2>4 DEF Lived
    <3>2. lost'[ak] = None \/ lost'[ak] >= sess[i].checked
      BY <3>1, <2>2, <2>3, <1>2
    <3> QED BY <1>1, <3>1, <3>2 DEF Lived
  <2> QED BY <2>1, <2>4
<1> QED BY <1>4, <1>5, <1>7, <1>8

\* The TPM's answer: the AK of the blob is there now.
LEMMA DataActivate ==
  ASSUME DataInv, NEW d \in Dirs, Activate(d)
  PROVE  DataInv'
<1> USE DEF DataInv
<1> DEFINE i == files[d].blob.of
           s == sess[i]
<1>1. UNCHANGED <<now, revoked, lost, sess, pc, mem, made, files, written>>
  BY DEF Activate, world
<1>2. i \in Drawn /\ s \in Sessions /\ s.blob = MakeCredential(s.ek.key, Name(s.ak), i)
  <2>1. i \in Drawn
    BY DEF Activate, FilesHold
  <2> QED BY <2>1, SessionTyped DEF SessionsHold, Checked
<1>3. s.blob.to = s.ek.key /\ s.blob.name = Name(s.ak) /\ s.blob.secret = i
  BY <1>2 DEF MakeCredential
<1>4. released' = released \union {i}
  BY <1>3 DEF Activate
<1>5. s.root = Pinned => Lived(s, lost)
  <2> SUFFICES ASSUME s.root = Pinned PROVE Lived(s, lost)
    OBVIOUS
  <2>1. s.ek.key \in TpmKeys
    BY <1>2 DEF SessionsHold, Checked
  <2>2. PICK ak \in Aks : Name(ak) = Name(s.ak) /\ Home[ak] = s.ek.key /\ lost[ak] = None
    BY <1>3, <2>1 DEF Activate
  <2> QED BY <2>2 DEF Lived
<1>6. Typed' /\ SessionsHold' /\ FilesHold'
  BY <1>1 DEF Typed, SessionsHold, FilesHold, Drawn
<1>7. AnswersHold'
  BY <1>1, <1>2, <1>4, <1>5 DEF AnswersHold, Drawn
<1>8. ProcessesHold' /\ RecordsHold'
  BY <1>1, <1>4 DEF ProcessesHold, ProcessHolds, RecordsHold, MadeOf, Drawn
<1> QED BY <1>6, <1>7, <1>8

\* A command that returns leaves nothing to answer for.
LEMMA Returned ==
  ASSUME DataInv, NEW p \in Operators, Return(p),
         UNCHANGED <<sess, released>>
  PROVE  /\ ProcessesHold'
         /\ pc' \in [Operators -> {"idle", "mkdir", "create", "fill", "remove"}]
         /\ mem' \in [Operators -> Mems]
<1> USE DEF DataInv
<1>1. pc' \in [Operators -> {"idle", "mkdir", "create", "fill", "remove"}] /\ pc'[p] = "idle"
  BY DEF Typed, Return, Goto
<1>2. mem' \in [Operators -> Mems]
  BY DEF Typed, Return, NoMem, Mems
<1>3. \A q \in Operators : q # p => pc'[q] = pc[q] /\ mem'[q] = mem[q]
  BY DEF Typed, Return, Goto
<1>4. ProcessesHold'
  BY <1>1, <1>3 DEF ProcessesHold, ProcessHolds, Drawn
<1> QED BY <1>1, <1>2, <1>4

\* What `begin` draws was checked (cmd_begin, chain::verify, crl::check_chain).
LEMMA DataBegin ==
  ASSUME DataInv, NEW p \in Operators, NEW d \in Dirs, BeginChecks(p, d)
  PROVE  DataInv'
<1> USE DEF DataInv
<1>1. UNCHANGED <<now, revoked, lost, released, made, files, written>>
  BY DEF BeginChecks, world
<1>2. PICK s : /\ sess' = Append(sess, s)
               /\ s \in Sessions /\ Checked(Len(sess) + 1, s, now) /\ Unrevoked(s, revoked)
  <2>1. PICK ek \in EkCerts, int \in IntCerts, root \in RootCerts :
          /\ ChainValid(ek, int, root, now)
          /\ \E t \in {u \in 0..now : Sec(u) = u} :
             \E ekCrl \in Crls(t), intCrl \in Crls(t) :
               /\ ChainNotRevoked(ek, int, root, ekCrl, intCrl, now)
               /\ \E ak \in Aks :
                    /\ AkQualifies(ak)
                    /\ sess' = Append(sess, Session(ek, int, root, ekCrl, intCrl, ak))
    BY DEF BeginChecks
  <2>2. PICK t \in 0..now : Sec(t) = t /\
             \E ekCrl \in Crls(t), intCrl \in Crls(t) :
               /\ ChainNotRevoked(ek, int, root, ekCrl, intCrl, now)
               /\ \E ak \in Aks :
                    /\ AkQualifies(ak)
                    /\ sess' = Append(sess, Session(ek, int, root, ekCrl, intCrl, ak))
    BY <2>1
  <2>3. PICK ekCrl \in Crls(t), intCrl \in Crls(t), ak \in Aks :
               /\ ChainNotRevoked(ek, int, root, ekCrl, intCrl, now)
               /\ AkQualifies(ak)
               /\ sess' = Append(sess, Session(ek, int, root, ekCrl, intCrl, ak))
    BY <2>2
  <2> QED BY <2>1, <2>2, <2>3, SessionDrawn
<1>3. sess \in Seq(Sessions)
  BY DEF Typed
<1>4. /\ sess' \in Seq(Sessions) /\ Len(sess') = Len(sess) + 1 /\ Len(sess) \in Nat
      /\ \A i \in Drawn : sess'[i] = sess[i]
      /\ sess'[Len(sess) + 1] = s
      /\ Drawn' = Drawn \union {Len(sess) + 1} /\ Len(sess') \in Drawn'
  <2>1. Len(sess) \in Nat
    BY <1>3
  <2>2. /\ sess' \in Seq(Sessions) /\ Len(sess') = Len(sess) + 1
        /\ \A i \in 1..Len(sess) : sess'[i] = sess[i]
        /\ sess'[Len(sess) + 1] = s
    BY <1>2, <1>3
  <2>3. 1..Len(sess') = 1..Len(sess) \union {Len(sess) + 1}
    BY <2>1, <2>2
  <2> QED BY <2>1, <2>2, <2>3 DEF Drawn
<1>5. /\ pc' = [pc EXCEPT ![p] = "mkdir"]
      /\ mem' = [mem EXCEPT ![p] = [dir |-> d, file |-> None, n |-> Len(sess'), rec |-> None]]
  BY DEF BeginChecks, Goto
<1>6. Typed'
  <2>1. mem' \in [Operators -> Mems]
    BY <1>4, <1>5 DEF Typed, Mems
  <2>2. pc' \in [Operators -> {"idle", "mkdir", "create", "fill", "remove"}]
    BY <1>5 DEF Typed
  <2> QED BY <1>1, <1>4, <2>1, <2>2 DEF Typed
<1>7. SessionsHold'
  <2> SUFFICES ASSUME NEW i \in Drawn'
               PROVE  Checked(i, sess'[i], now) /\ Unrevoked(sess'[i], revoked)
    BY <1>1 DEF SessionsHold
  <2>1. CASE i \in Drawn
    BY <1>4, <2>1 DEF SessionsHold
  <2>2. CASE i = Len(sess) + 1
    BY <1>2, <1>4, <2>2
  <2> QED BY <1>4, <2>1, <2>2
<1>8. \A i \in released : i \in Drawn /\ sess'[i] = sess[i]
  BY <1>4 DEF AnswersHold
<1>9. AnswersHold'
  BY <1>1, <1>4, <1>8 DEF AnswersHold
<1>10. FilesHold'
  BY <1>1, <1>4 DEF FilesHold
<1>11. \A rec : MadeOf(rec, released, sess) => MadeOf(rec, released, sess')
  BY <1>8 DEF MadeOf
<1>12. RecordsHold'
  BY <1>1, <1>11 DEF RecordsHold
<1>13. ProcessesHold'
  <2>1. \A q \in Operators : q # p => pc'[q] = pc[q] /\ mem'[q] = mem[q]
    BY <1>5 DEF Typed
  <2>2. /\ pc'[p] = "mkdir" /\ mem'[p].dir = d /\ mem'[p].n = Len(sess')
    BY <1>5 DEF Typed
  <2>3. \A l, m : ProcessHolds(l, m, Drawn, released, sess)
                   => ProcessHolds(l, m, Drawn', released, sess')
    BY <1>4, <1>11 DEF ProcessHolds
  <2>4. ProcessHolds(pc'[p], mem'[p], Drawn', released, sess')
    BY <2>2, <1>4 DEF ProcessHolds
  <2> QED BY <1>1, <2>1, <2>3, <2>4 DEF ProcessesHold
<1> QED BY <1>6, <1>7, <1>9, <1>10, <1>12, <1>13

\* A step of a command keeps the data if it keeps the types, the process's own
\* part, and what its file stands for.
LEMMA DataStep ==
  ASSUME DataInv, NEW p \in Operators,
         UNCHANGED <<now, revoked, lost, sess, released>>,
         \A q \in Operators : q # p => pc'[q] = pc[q] /\ mem'[q] = mem[q],
         ProcessHolds(pc'[p], mem'[p], Drawn, released, sess),
         Typed', FilesHold', RecordsHold'
  PROVE  DataInv'
<1>1. SessionsHold' /\ AnswersHold'
  BY DEF DataInv, SessionsHold, AnswersHold, Drawn
<1>2. ProcessesHold'
  BY DEF DataInv, ProcessesHold, Drawn
<1> QED BY <1>1, <1>2 DEF DataInv

\* What is known of a process in the middle of a command.
LEMMA AtWork ==
  ASSUME DataInv, NEW p \in Operators, pc[p] # "idle"
  PROVE  /\ mem[p] \in Mems /\ mem[p].dir \in Dirs
         /\ pc[p] = "mkdir" => mem[p].n \in Drawn
         /\ pc[p] \in {"create", "fill"} =>
              /\ mem[p].file \in FileNames
              /\ mem[p].file = "record" =>
                   mem[p].rec \in Recs /\ MadeOf(mem[p].rec, released, sess)
              /\ mem[p].file # "record" => mem[p].n \in Drawn
  BY DEF DataInv, Typed, ProcessesHold, ProcessHolds

\* A file that is set, among the others.
LEMMA FileSet ==
  ASSUME Typed, NEW d \in Dirs, NEW n \in FileNames, NEW f \in AllFiles,
         files' = [files EXCEPT ![d][n] = f]
  PROVE  /\ files' \in [Dirs -> [FileNames -> AllFiles]]
         /\ files'[d][n] = f
         /\ \A e \in Dirs, m \in FileNames :
              <<e, m>> # <<d, n>> => files'[e][m] = files[e][m]
  BY DEF Typed

LEMMA ProcessFileSet ==
  ASSUME Typed, NEW p \in Operators, NEW f \in AllFiles, SetFile(p, f),
         mem[p].dir \in Dirs, mem[p].file \in FileNames
  PROVE  /\ files' \in [Dirs -> [FileNames -> AllFiles]]
         /\ files'[mem[p].dir][mem[p].file] = f
         /\ \A e \in Dirs, m \in FileNames :
              <<e, m>> # <<mem[p].dir, mem[p].file>> => files'[e][m] = files[e][m]
<1> DEFINE d == mem[p].dir
           n == mem[p].file
<1>1. d \in Dirs /\ n \in FileNames /\ files' = [files EXCEPT ![d][n] = f]
  BY DEF SetFile
<1> HIDE DEF d, n
<1>2. /\ files' \in [Dirs -> [FileNames -> AllFiles]]
      /\ files'[d][n] = f
      /\ \A e \in Dirs, m \in FileNames : <<e, m>> # <<d, n>> => files'[e][m] = files[e][m]
  BY <1>1 DEF Typed
<1> QED
  BY <1>2 DEF d, n

\* A command that ends takes only its own memory along (main).
LEMMA DataReturn ==
  ASSUME DataInv, NEW p \in Operators, Return(p), made' \subseteq Dirs,
         UNCHANGED <<now, revoked, lost, sess, released, files, written>>
  PROVE  DataInv'
<1>1. ProcessesHold' /\ pc' \in [Operators -> {"idle", "mkdir", "create", "fill", "remove"}]
      /\ mem' \in [Operators -> Mems]
  BY Returned
<1>2. Typed'
  BY <1>1 DEF DataInv, Typed
<1>3. SessionsHold' /\ AnswersHold' /\ FilesHold' /\ RecordsHold'
  BY DEF DataInv, SessionsHold, AnswersHold, FilesHold, RecordsHold, Drawn
<1> QED BY <1>1, <1>2, <1>3 DEF DataInv

\* A directory that is made holds nothing yet (cmd_begin).
LEMMA DataMakeDir ==
  ASSUME DataInv, NEW p \in Operators, MakeDir(p)
  PROVE  DataInv'
<1>1. UNCHANGED <<now, revoked, lost, sess, released, files, written>> /\ pc[p] = "mkdir"
  BY DEF MakeDir, world
<1>2. mem[p] \in Mems /\ mem[p].dir \in Dirs /\ mem[p].n \in Drawn
  BY <1>1, AtWork
<1>3. CASE Return(p) /\ UNCHANGED made
  BY <1>1, <1>3, DataReturn DEF DataInv, Typed
<1>4. CASE /\ made' = made \union {mem[p].dir}
           /\ Goto(p, "create")
           /\ mem' = [mem EXCEPT ![p].file = "pending"]
  <2>1. /\ pc' \in [Operators -> {"idle", "mkdir", "create", "fill", "remove"}]
        /\ pc'[p] = "create"
    BY <1>4 DEF DataInv, Typed, Goto
  <2>2. /\ mem'[p] \in Mems /\ mem'[p].dir = mem[p].dir /\ mem'[p].n = mem[p].n
        /\ mem'[p].file = "pending"
    BY <1>2, <1>4 DEF DataInv, Typed, Mems, FileNames
  <2>3. mem' \in [Operators -> Mems]
    BY <1>4, <2>2 DEF DataInv, Typed
  <2>4. \A q \in Operators : q # p => pc'[q] = pc[q] /\ mem'[q] = mem[q]
    BY <1>4 DEF DataInv, Typed, Goto
  <2>5. ProcessHolds(pc'[p], mem'[p], Drawn, released, sess)
    BY <1>2, <2>1, <2>2 DEF ProcessHolds, FileNames
  <2>6. Typed'
    BY <1>1, <1>2, <1>4, <2>1, <2>3 DEF DataInv, Typed
  <2>7. FilesHold' /\ RecordsHold'
    BY <1>1 DEF DataInv, FilesHold, RecordsHold, Drawn
  <2> QED BY <1>1, <2>4, <2>5, <2>6, <2>7, DataStep
<1> QED BY <1>3, <1>4 DEF MakeDir

\* A file that is created stands for nothing yet (write_new).
LEMMA DataCreate ==
  ASSUME DataInv, NEW p \in Operators, Create(p)
  PROVE  DataInv'
<1>1. UNCHANGED <<now, revoked, lost, sess, released, made, written>> /\ pc[p] = "create"
  BY DEF Create, world
<1>2. mem[p] \in Mems /\ mem[p].dir \in Dirs /\ mem[p].file \in FileNames
  BY <1>1, AtWork
<1>3. CASE Return(p) /\ UNCHANGED files
  BY <1>1, <1>3, DataReturn DEF DataInv, Typed
<1>4. CASE SetFile(p, Torn) /\ Goto(p, "fill") /\ UNCHANGED mem
  <2>1. /\ files' \in [Dirs -> [FileNames -> AllFiles]]
        /\ files'[mem[p].dir][mem[p].file] = Torn
        /\ \A e \in Dirs, m \in FileNames :
             <<e, m>> # <<mem[p].dir, mem[p].file>> => files'[e][m] = files[e][m]
    <3>1. Torn \in AllFiles
      BY DEF AllFiles
    <3> QED BY <1>2, <1>4, <3>1, ProcessFileSet DEF DataInv
  <2>2. FilesHold'
    <3>1. ~Whole(Torn)
      BY DEF Torn, Whole
    <3>2. \A e \in Dirs, m \in FileNames : Whole(files'[e][m]) => files'[e][m] = files[e][m]
      BY <2>1, <3>1
    <3> QED BY <1>1, <3>2 DEF DataInv, FilesHold, FileNames, Drawn
  <2>3. /\ pc' \in [Operators -> {"idle", "mkdir", "create", "fill", "remove"}]
        /\ pc'[p] = "fill"
        /\ \A q \in Operators : q # p => pc'[q] = pc[q] /\ mem'[q] = mem[q]
    BY <1>4 DEF DataInv, Typed, Goto
  <2>4. ProcessHolds(pc'[p], mem'[p], Drawn, released, sess)
    BY <1>1, <1>4, <2>3 DEF DataInv, ProcessesHold, ProcessHolds
  <2>5. Typed' /\ RecordsHold'
    BY <1>1, <1>4, <2>1, <2>3 DEF DataInv, Typed, RecordsHold
  <2> QED BY <1>1, <2>2, <2>3, <2>4, <2>5, DataStep
<1> QED BY <1>3, <1>4 DEF Create

\* A file is filled with what its process was given (write_new).
LEMMA DataFill ==
  ASSUME DataInv, NEW p \in Operators, Fill(p)
  PROVE  DataInv'
<1> DEFINE d == mem[p].dir
           n == mem[p].file
<1>1. UNCHANGED <<now, revoked, lost, sess, released, made>> /\ pc[p] = "fill"
  BY DEF Fill, world
<1>2. /\ mem[p] \in Mems /\ d \in Dirs /\ n \in FileNames
      /\ n = "record" => mem[p].rec \in Recs /\ MadeOf(mem[p].rec, released, sess)
      /\ n # "record" => mem[p].n \in Drawn
  BY <1>1, AtWork
<1>3. \A f \in AllFiles : SetFile(p, f) =>
        /\ files' \in [Dirs -> [FileNames -> AllFiles]]
        /\ files'[d][n] = f
        /\ \A e \in Dirs, m \in FileNames : <<e, m>> # <<d, n>> => files'[e][m] = files[e][m]
  BY <1>2, ProcessFileSet DEF DataInv
<1>4. \A i \in Drawn : Holding(i) \in AllFiles /\ Holding(i).of = i
  <2>1. Drawn \subseteq Nat
    BY DEF Drawn
  <2> QED BY <2>1 DEF AllFiles, Holding
<1>5. CASE /\ n = "pending" /\ SetFile(p, Holding(mem[p].n)) /\ Goto(p, "create")
           /\ mem' = [mem EXCEPT ![p].file = "blob"] /\ UNCHANGED written
  <2>1. mem[p].n \in Drawn
    BY <1>2, <1>5
  <2>2. FilesHold' /\ files' \in [Dirs -> [FileNames -> AllFiles]]
    BY <1>1, <1>2, <1>3, <1>4, <1>5, <2>1 DEF DataInv, FilesHold, FileNames, Drawn
  <2>3. /\ pc' \in [Operators -> {"idle", "mkdir", "create", "fill", "remove"}]
        /\ pc'[p] = "create"
        /\ \A q \in Operators : q # p => pc'[q] = pc[q] /\ mem'[q] = mem[q]
    BY <1>5 DEF DataInv, Typed, Goto
  <2>4. /\ mem'[p] \in Mems /\ mem'[p].dir = d /\ mem'[p].n = mem[p].n
        /\ mem'[p].file = "blob"
    BY <1>2, <1>5 DEF DataInv, Typed, Mems, FileNames
  <2>5. mem' \in [Operators -> Mems]
    BY <1>5, <2>4 DEF DataInv, Typed
  <2>6. ProcessHolds(pc'[p], mem'[p], Drawn, released, sess)
    BY <1>2, <2>1, <2>3, <2>4 DEF ProcessHolds, FileNames
  <2>7. Typed' /\ RecordsHold'
    BY <1>1, <1>5, <2>2, <2>3, <2>5 DEF DataInv, Typed, RecordsHold
  <2> QED BY <1>1, <2>2, <2>3, <2>6, <2>7, DataStep
<1>6. CASE /\ n = "blob" /\ SetFile(p, Holding(mem[p].n)) /\ Return(p)
           /\ UNCHANGED written
  <2>1. mem[p].n \in Drawn
    BY <1>2, <1>6
  <2>2. FilesHold' /\ files' \in [Dirs -> [FileNames -> AllFiles]]
    BY <1>1, <1>2, <1>3, <1>4, <1>6, <2>1 DEF DataInv, FilesHold, FileNames, Drawn
  <2>3. /\ ProcessesHold' /\ mem' \in [Operators -> Mems]
        /\ pc' \in [Operators -> {"idle", "mkdir", "create", "fill", "remove"}]
    BY <1>1, <1>6, Returned
  <2>4. Typed' /\ RecordsHold' /\ SessionsHold' /\ AnswersHold'
    BY <1>1, <1>6, <2>2, <2>3
       DEF DataInv, Typed, RecordsHold, SessionsHold, AnswersHold, Drawn
  <2> QED BY <2>2, <2>3, <2>4 DEF DataInv
<1>7. CASE /\ n = "record" /\ SetFile(p, Holding(mem[p].rec))
           /\ written' = written \union {mem[p].rec}
           /\ Goto(p, "remove") /\ UNCHANGED mem
  <2>1. mem[p].rec \in Recs /\ MadeOf(mem[p].rec, released, sess)
    BY <1>2, <1>7
  <2>2. Holding(mem[p].rec) \in AllFiles
    BY <2>1 DEF AllFiles
  <2>3. FilesHold' /\ files' \in [Dirs -> [FileNames -> AllFiles]]
    BY <1>1, <1>2, <1>3, <1>7, <2>2 DEF DataInv, FilesHold, FileNames, Drawn
  <2>4. /\ pc' \in [Operators -> {"idle", "mkdir", "create", "fill", "remove"}]
        /\ pc'[p] = "remove"
        /\ \A q \in Operators : q # p => pc'[q] = pc[q] /\ mem'[q] = mem[q]
    BY <1>7 DEF DataInv, Typed, Goto
  <2>5. ProcessHolds(pc'[p], mem'[p], Drawn, released, sess)
    BY <1>2, <1>7, <2>4 DEF ProcessHolds
  <2>6. Typed' /\ RecordsHold'
    BY <1>1, <1>7, <2>1, <2>3, <2>4 DEF DataInv, Typed, RecordsHold
  <2> QED BY <1>1, <2>3, <2>4, <2>5, <2>6, DataStep
<1> QED BY <1>5, <1>6, <1>7 DEF Fill

\* The record `complete` will write is the one of an answered session
\* (cmd_complete).
LEMMA DataComplete ==
  ASSUME DataInv, NEW p \in Operators, NEW d \in Dirs, CompleteAnswer(p, d)
  PROVE  DataInv'
<1> DEFINE i == files[d].pending.of
           m == [dir |-> d, file |-> "record", n |-> None, rec |-> RecordOf(sess[i])]
<1>1. /\ UNCHANGED <<now, revoked, lost, sess, released, made, files, written>>
      /\ Goto(p, "create") /\ mem' = [mem EXCEPT ![p] = m]
  BY DEF CompleteAnswer, world
<1>2. i \in Drawn /\ sess[i] \in Sessions
  <2>1. i \in Drawn
    BY DEF CompleteAnswer, DataInv, FilesHold
  <2> QED BY <2>1, SessionTyped DEF DataInv
<1>3. i \in released
  <2>1. sess[i].secret \in released
    BY DEF CompleteAnswer
  <2>2. sess[i].secret = i
    BY <1>2 DEF DataInv, SessionsHold, Checked
  <2> QED BY <2>1, <2>2
<1>4. RecordOf(sess[i]) \in Recs /\ MadeOf(RecordOf(sess[i]), released, sess)
  BY <1>2, <1>3 DEF Recs, MadeOf
<1>5. m \in Mems
  BY <1>4 DEF Mems, FileNames
<1>6. /\ pc' \in [Operators -> {"idle", "mkdir", "create", "fill", "remove"}]
      /\ pc'[p] = "create" /\ mem'[p] = m
      /\ \A q \in Operators : q # p => pc'[q] = pc[q] /\ mem'[q] = mem[q]
  BY <1>1 DEF DataInv, Typed, Goto
<1>7. mem' \in [Operators -> Mems]
  BY <1>1, <1>5 DEF DataInv, Typed
<1>8. ProcessHolds(pc'[p], mem'[p], Drawn, released, sess)
  BY <1>4, <1>6 DEF ProcessHolds, FileNames
<1>9. Typed' /\ FilesHold' /\ RecordsHold'
  BY <1>1, <1>6, <1>7 DEF DataInv, Typed, FilesHold, RecordsHold, Drawn
<1> QED BY <1>1, <1>6, <1>8, <1>9, DataStep

\* Removing pending.json takes no record along (cmd_complete).
LEMMA DataRemove ==
  ASSUME DataInv, NEW p \in Operators, RemovePending(p)
  PROVE  DataInv'
<1>1. UNCHANGED <<now, revoked, lost, sess, released, made, written>> /\ pc[p] = "remove"
  BY DEF RemovePending, world
<1>2. mem[p].dir \in Dirs
  BY <1>1, AtWork
<1>3. /\ files' \in [Dirs -> [FileNames -> AllFiles]]
      /\ files'[mem[p].dir].pending = Absent
      /\ \A e \in Dirs, m \in FileNames :
           <<e, m>> # <<mem[p].dir, "pending">> => files'[e][m] = files[e][m]
  BY <1>2 DEF RemovePending, DataInv, Typed, AllFiles, FileNames
<1>4. FilesHold'
  <2>1. ~Whole(Absent)
    BY DEF Absent, Whole
  <2>2. \A e \in Dirs, m \in FileNames : Whole(files'[e][m]) => files'[e][m] = files[e][m]
    BY <1>3, <2>1
  <2> QED BY <1>1, <2>2 DEF DataInv, FilesHold, FileNames, Drawn
<1>5. /\ ProcessesHold' /\ mem' \in [Operators -> Mems]
      /\ pc' \in [Operators -> {"idle", "mkdir", "create", "fill", "remove"}]
  BY <1>1, Returned DEF RemovePending
<1>6. Typed' /\ RecordsHold' /\ SessionsHold' /\ AnswersHold'
  BY <1>1, <1>3, <1>5
     DEF DataInv, Typed, RecordsHold, SessionsHold, AnswersHold, Drawn
<1> QED BY <1>4, <1>5, <1>6 DEF DataInv

\* A killed command leaves the files as they are.
LEMMA DataKill ==
  ASSUME DataInv, NEW p \in Operators, Kill(p)
  PROVE  DataInv'
<1>1. UNCHANGED <<now, revoked, lost, sess, released, made, files, written>> /\ Return(p)
  BY DEF Kill, world
<1> QED BY <1>1, DataReturn DEF DataInv, Typed

\* Every step keeps the data invariant.
LEMMA DataNext == DataInv /\ [Next]_vars => DataInv'
<1> SUFFICES ASSUME DataInv, [Next]_vars PROVE DataInv'
  OBVIOUS
<1>1. CASE \/ Tick
           \/ \E s \in Serials : Revoke(s)
           \/ \E ak \in Aks : LoseAk(ak)
  BY <1>1, DataWorld
<1>2. ASSUME NEW d \in Dirs, Activate(d) PROVE DataInv'
  BY <1>2, DataActivate
<1>3. ASSUME NEW p \in Operators, NEW d \in Dirs, BeginChecks(p, d) PROVE DataInv'
  BY <1>3, DataBegin
<1>4. ASSUME NEW p \in Operators, NEW d \in Dirs, CompleteAnswer(p, d) PROVE DataInv'
  BY <1>4, DataComplete
<1>5. ASSUME NEW p \in Operators,
             MakeDir(p) \/ Create(p) \/ Fill(p) \/ RemovePending(p) \/ Kill(p)
      PROVE  DataInv'
  BY <1>5, DataMakeDir, DataCreate, DataFill, DataRemove, DataKill
<1>6. CASE UNCHANGED vars
  BY <1>6 DEF vars, DataInv, Typed, SessionsHold, AnswersHold, FilesHold,
              ProcessesHold, RecordsHold, Drawn
<1> QED BY <1>1, <1>2, <1>3, <1>4, <1>5, <1>6 DEF Next

\* The data invariant holds throughout: everything a session, a process, a
\* file or a record holds was checked by `begin` (cmd_begin, cmd_complete).
THEOREM DataAlways == Spec => []DataInv
<1> QED BY DataInit, DataNext, PTL DEF Spec

-----------------------------------------------------------------------------
(***************************************************************************)
(* What follows of the records.                                            *)
(***************************************************************************)
\* A written record is the one of a session whose secret was released.
LEMMA RecordMade ==
  ASSUME DataInv, NEW rec \in written
  PROVE  \E i \in Drawn : /\ i \in released /\ rec = RecordOf(sess[i])
                          /\ sess[i] \in Sessions
                          /\ Checked(i, sess[i], now) /\ Unrevoked(sess[i], revoked)
<1>1. PICK i \in released : rec = RecordOf(sess[i])
  BY DEF DataInv, RecordsHold, MadeOf
<1>2. i \in Drawn
  BY DEF DataInv, AnswersHold
<1> QED BY <1>1, <1>2, SessionTyped DEF DataInv, SessionsHold

\* The data invariant gives a record's AK its TPM (cmd_complete).
LEMMA RecordLived == DataInv => RecordMeansResident
<1> SUFFICES ASSUME DataInv, NEW rec \in written, rec.rootHash = Pinned
             PROVE  Resident(rec)
  BY DEF RecordMeansResident
<1>1. PICK i \in released : rec = RecordOf(sess[i])
  BY RecordMade
<1>2. /\ rec.rootHash = sess[i].root /\ rec.akName = Name(sess[i].ak)
      /\ rec.ek = sess[i].ek /\ rec.checked = sess[i].checked
  BY <1>1 DEF RecordOf
<1>3. Lived(sess[i], lost)
  BY <1>2 DEF DataInv, AnswersHold
<1> QED BY <1>2, <1>3 DEF Lived, Resident

\* A record under the pinned root is of an AK that was in the TPM of the EK
\* certificate once its chain had been checked (cmd_complete).
THEOREM RegistrationMeansResidency == Spec => []RecordMeansResident
<1> QED BY DataAlways, RecordLived, PTL

\* The data invariant gives `verify` what it checks (cmd_verify).
LEMMA RecordVerifies == DataInv => VerifyAgrees
<1> SUFFICES ASSUME DataInv, NEW rec \in written PROVE RecordHolds(rec, rec.rootHash)
  BY DEF VerifyAgrees
<1>1. PICK i \in released : rec = RecordOf(sess[i]) /\ Checked(i, sess[i], now)
  BY RecordMade
<1>2. rec.rootHash = sess[i].root
  BY <1>1 DEF RecordOf
<1> QED BY <1>1, <1>2 DEF Checked

\* What `complete` wrote, `verify` accepts whenever it is asked (cmd_verify).
THEOREM WrittenRecordsVerify == Spec => []VerifyAgrees
<1> QED BY DataAlways, RecordVerifies, PTL

\* The data invariant bounds what a record's CRLs can miss (crl::check).
LEMMA RecordBounded == DataInv => RevocationBounded
<1> SUFFICES ASSUME DataInv, NEW rec \in written,
                    NEW x \in {<<rec.ek, rec.ekWindow>>, <<rec.int, rec.intWindow>>},
                    x[1].serial \in Serials, revoked[x[1].serial] # None
             PROVE  /\ revoked[x[1].serial] >= x[2].this
                    /\ revoked[x[1].serial] + CrlLife >= rec.checked
  BY DEF RevocationBounded
<1>1. PICK i \in released : rec = RecordOf(sess[i]) /\ Unrevoked(sess[i], revoked)
  BY RecordMade
<1>2. /\ rec.ek = sess[i].ek /\ rec.int = sess[i].int /\ rec.checked = sess[i].checked
      /\ rec.ekWindow.this = sess[i].ekCrl.this /\ rec.intWindow.this = sess[i].intCrl.this
  BY <1>1 DEF RecordOf, Window
<1>3. CASE x = <<rec.ek, rec.ekWindow>>
  BY <1>1, <1>2, <1>3 DEF Unrevoked, Fresher
<1>4. CASE x = <<rec.int, rec.intWindow>>
  BY <1>1, <1>2, <1>4 DEF Unrevoked, Fresher
<1> QED BY <1>3, <1>4

\* The registrar misses a revocation for the life of a CRL and no longer
\* (crl::check_chain).
THEOREM RevocationIsBounded == Spec => []RevocationBounded
<1> QED BY DataAlways, RecordBounded, PTL

\* Under the data invariant a signature that holds is over a written record
\* (signature::verify).
LEMMA RecordSigned == DataInv => SignedMeansRegistered
<1> SUFFICES ASSUME DataInv, NEW rec \in written \union Forgeries, Verified(rec, Pinned)
             PROVE  rec \in written /\ Resident(rec)
  BY DEF SignedMeansRegistered
<1>1. RecordHolds(rec, Pinned) /\ Signed(rec)
  BY DEF Verified
<1>2. PICK certs \in CertLists, sid \in Signers, signature \in Signatures :
        SignatureHolds(rec, Container(certs, sid, signature), ReleaseRoot, now)
  BY <1>1 DEF Signed
<1> DEFINE p7s == Container(certs, sid, signature)
<1>3. p7s.certs = certs /\ p7s.signature = signature
  BY DEF Container
<1>4. PICK i \in DOMAIN certs, k \in DOMAIN certs :
        /\ Follows(certs[k], ReleaseRoot) /\ Follows(certs[i], certs[k])
        /\ IsRegistrationSigner(certs[i])
        /\ signature.by = certs[i].key /\ signature.over = rec
  BY <1>2, <1>3 DEF SignatureHolds
<1>5. signature.by \in RegistrationKeys
  BY <1>4, PkiAssumption DEF IsRegistrationSigner
<1>6. signature.over \in written
  BY <1>5, PkiAssumption DEF Signatures
<1>7. rec \in written
  BY <1>4, <1>6
<1>8. rec.rootHash = Pinned
  BY <1>1 DEF RecordHolds
<1> QED BY <1>7, <1>8, RecordLived DEF RecordMeansResident

\* What verifies with a signature under the pinned root was registered, and
\* its AK was in the TPM (cmd_verify with --sig, signature::verify).
THEOREM SignedRecordsAreRegistered == Spec => []SignedMeansRegistered
<1> QED BY DataAlways, RecordSigned, PTL

-----------------------------------------------------------------------------
(***************************************************************************)
(* What a process at work has already put on disk.                         *)
(***************************************************************************)
At(p, l, n) == pc[p] = l /\ mem[p].file = n

\* Whoever fills a record made the file, alone.
FillerAlone ==
  /\ \A p \in Operators :
       At(p, "fill", "record") => files[mem[p].dir].record = Torn
  /\ \A p, q \in Operators :
       At(p, "fill", "record") /\ At(q, "fill", "record")
         /\ mem[p].dir = mem[q].dir => p = q

\* pending.json goes only once the record is whole.
RemoverDone ==
  \A p \in Operators : pc[p] = "remove" => Whole(files[mem[p].dir].record)

StageInv == FillerAlone /\ RemoverDone

\* Nobody is at work at first.
LEMMA StageInit == Init => StageInv
  BY DEF Init, StageInv, FillerAlone, RemoverDone, At

\* A step that leaves the files alone, and sends a process nowhere that needs
\* one.
LEMMA StageQuiet ==
  ASSUME StageInv, NEW p \in Operators, UNCHANGED files,
         \A q \in Operators : q # p => pc'[q] = pc[q] /\ mem'[q] = mem[q],
         pc'[p] \notin {"fill", "remove"}
  PROVE  StageInv'
<1>1. FillerAlone'
  BY DEF StageInv, FillerAlone, At
<1>2. RemoverDone'
  BY DEF StageInv, RemoverDone
<1> QED BY <1>1, <1>2 DEF StageInv

\* A step of one process leaves the others where they are.
LEMMA Others ==
  ASSUME Typed, NEW p \in Operators, NEW l, Goto(p, l)
  PROVE  pc'[p] = l /\ \A q \in Operators : q # p => pc'[q] = pc[q]
  BY DEF Typed, Goto

\* A command that returns is at none of the stages.
LEMMA Returning ==
  ASSUME Typed, NEW p \in Operators, Return(p)
  PROVE  pc'[p] = "idle" /\ \A q \in Operators : q # p => pc'[q] = pc[q] /\ mem'[q] = mem[q]
  BY DEF Typed, Return, Goto

\* Who creates a file is the one to fill it (write_new).
LEMMA StageCreate ==
  ASSUME DataInv, StageInv, NEW p \in Operators, Create(p)
  PROVE  StageInv'
<1> DEFINE d == mem[p].dir
           n == mem[p].file
<1>1. mem[p] \in Mems /\ d \in Dirs /\ n \in FileNames /\ pc[p] = "create"
  BY AtWork DEF Create
<1>2. Typed
  BY DEF DataInv
<1>3. CASE Return(p) /\ UNCHANGED files
  BY <1>2, <1>3, Returning, StageQuiet
<1>4. CASE TheFile(p) = Absent /\ SetFile(p, Torn) /\ Goto(p, "fill") /\ UNCHANGED mem
  <2>1. /\ files'[d][n] = Torn /\ files[d][n] = Absent
        /\ \A e \in Dirs, m \in FileNames : <<e, m>> # <<d, n>> => files'[e][m] = files[e][m]
    <3>1. Torn \in AllFiles
      BY DEF AllFiles
    <3>2. files[d][n] = Absent
      BY <1>4 DEF TheFile
    <3> QED BY <1>1, <1>2, <1>4, <3>1, <3>2, ProcessFileSet
  <2>2. pc'[p] = "fill" /\ \A q \in Operators : q # p => pc'[q] = pc[q]
    BY <1>2, <1>4, Others
  <2>3. ~Whole(Torn) /\ ~Whole(Absent) /\ Torn # Absent
    BY DEF Whole, Torn, Absent
  <2>4. \A e \in Dirs, m \in FileNames : Whole(files[e][m]) => files'[e][m] = files[e][m]
    BY <2>1, <2>3
  <2>6. \A q \in Operators : pc[q] # "idle" => mem[q].dir \in Dirs
    BY AtWork
  <2>7. FillerAlone'
    <3>1. ASSUME NEW q \in Operators, At(q, "fill", "record")'
          PROVE  /\ files'[mem'[q].dir].record = Torn
                 /\ q # p => At(q, "fill", "record") /\ files[mem[q].dir].record = Torn
      <4>1. CASE q = p
        BY <1>4, <2>1, <3>1, <4>1 DEF At
      <4>2. CASE q # p
        <5>1. At(q, "fill", "record") /\ files[mem[q].dir].record = Torn /\ mem[q].dir \in Dirs
          BY <1>4, <2>2, <2>6, <3>1, <4>2 DEF At, StageInv, FillerAlone
        <5> QED BY <1>4, <2>1, <2>3, <5>1 DEF FileNames
      <4> QED BY <4>1, <4>2
    <3>2. ASSUME NEW q \in Operators, q # p, At(q, "fill", "record")', n = "record"
          PROVE  mem[q].dir # d
      BY <2>1, <2>3, <3>1, <3>2
    <3>3. ASSUME NEW q \in Operators, NEW r \in Operators,
                 At(q, "fill", "record")', At(r, "fill", "record")', mem'[q].dir = mem'[r].dir
          PROVE  q = r
      <4>1. CASE q # p /\ r # p
        BY <1>4, <3>1, <3>3, <4>1 DEF StageInv, FillerAlone
      <4>2. CASE q = p /\ r # p
        BY <1>4, <3>2, <3>3, <4>2 DEF At
      <4>3. CASE q # p /\ r = p
        BY <1>4, <3>2, <3>3, <4>3 DEF At
      <4> QED BY <4>1, <4>2, <4>3
    <3> QED BY <3>1, <3>3 DEF FillerAlone
  <2>8. RemoverDone'
    BY <1>4, <2>2, <2>4, <2>6 DEF StageInv, RemoverDone, FileNames
  <2> QED BY <2>7, <2>8 DEF StageInv
<1> QED BY <1>3, <1>4 DEF Create

\* A process that makes pending.json or cred.blob whole, or a record it alone
\* is filling.
LEMMA StageFill ==
  ASSUME DataInv, StageInv, NEW p \in Operators, Fill(p)
  PROVE  StageInv'
<1> DEFINE d == mem[p].dir
           n == mem[p].file
           x == IF n = "record" THEN mem[p].rec ELSE mem[p].n
<1>1. mem[p] \in Mems /\ d \in Dirs /\ n \in FileNames /\ pc[p] = "fill"
  BY AtWork DEF Fill
<1>2. Typed
  BY DEF DataInv
<1>3. Holding(x) \in AllFiles /\ Whole(Holding(x))
  <2>1. n = "record" => mem[p].rec \in Recs
    BY <1>1, AtWork
  <2>2. n # "record" => mem[p].n \in Nat
    BY <1>1, AtWork DEF Drawn
  <2> QED BY <2>1, <2>2 DEF AllFiles, Holding, Whole
<1>4. SetFile(p, Holding(x))
  <2>1. CASE n = "record" /\ SetFile(p, Holding(mem[p].rec))
    BY <2>1
  <2>2. CASE n \in {"pending", "blob"} /\ SetFile(p, Holding(mem[p].n))
    BY <2>2
  <2> QED BY <2>1, <2>2 DEF Fill
<1>5. /\ files'[d][n] = Holding(x)
      /\ \A e \in Dirs, m \in FileNames : <<e, m>> # <<d, n>> => files'[e][m] = files[e][m]
  <2>1. \A f \in AllFiles : SetFile(p, f) =>
          /\ files'[d][n] = f
          /\ \A e \in Dirs, m \in FileNames : <<e, m>> # <<d, n>> => files'[e][m] = files[e][m]
    BY <1>1, <1>2, ProcessFileSet
  <2> HIDE DEF x
  <2> QED BY <1>3, <1>4, <2>1
<1>6. \A e \in Dirs, m \in FileNames : Whole(files[e][m]) => Whole(files'[e][m])
  BY <1>3, <1>5
<1>7. \A q \in Operators : pc[q] # "idle" => mem[q].dir \in Dirs
  BY AtWork
<1>8. \A q \in Operators : q # p => pc'[q] = pc[q] /\ mem'[q] = mem[q]
  BY <1>2 DEF Fill, Goto, Return, Typed
<1>9. \/ n = "pending" /\ pc'[p] = "create" /\ mem'[p].dir = d /\ mem'[p].file = "blob"
      \/ n = "blob" /\ pc'[p] = "idle"
      \/ n = "record" /\ pc'[p] = "remove" /\ mem'[p].dir = d
  <2>1. CASE n = "pending" /\ Goto(p, "create") /\ mem' = [mem EXCEPT ![p].file = "blob"]
    BY <1>1, <1>2, <2>1, Others DEF Typed, Mems
  <2>2. CASE n = "blob" /\ Return(p)
    BY <1>2, <2>2, Returning
  <2>3. CASE n = "record" /\ Goto(p, "remove") /\ UNCHANGED mem
    BY <1>2, <2>3, Others
  <2> QED BY <2>1, <2>2, <2>3 DEF Fill
<1>10. FillerAlone'
  <2>1. ASSUME NEW q \in Operators, At(q, "fill", "record")'
        PROVE  /\ q # p /\ mem'[q] = mem[q] /\ At(q, "fill", "record")
               /\ files'[mem[q].dir].record = Torn
    <3>1. q # p
      BY <1>9, <2>1 DEF At
    <3>2. At(q, "fill", "record") /\ mem'[q] = mem[q] /\ mem[q].dir \in Dirs
      BY <1>7, <1>8, <2>1, <3>1 DEF At
    <3>3. files[mem[q].dir].record = Torn
      BY <3>2 DEF StageInv, FillerAlone
    <3>4. <<mem[q].dir, "record">> # <<d, n>>
      BY <1>1, <3>1, <3>2 DEF StageInv, FillerAlone, At
    <3> QED BY <1>5, <3>1, <3>2, <3>3, <3>4 DEF FileNames
  <2> QED BY <2>1 DEF FillerAlone, StageInv
<1>11. RemoverDone'
  <2> SUFFICES ASSUME NEW q \in Operators, pc'[q] = "remove"
               PROVE  Whole(files'[mem'[q].dir].record)
    BY DEF RemoverDone
  <2>1. CASE q = p
    BY <1>3, <1>5, <1>9, <2>1
  <2>2. CASE q # p
    BY <1>6, <1>7, <1>8, <2>2 DEF StageInv, RemoverDone, FileNames
  <2> QED BY <2>1, <2>2
<1> QED BY <1>10, <1>11 DEF StageInv

\* pending.json goes, and the record is there.
LEMMA StageRemove ==
  ASSUME DataInv, StageInv, NEW p \in Operators, RemovePending(p)
  PROVE  StageInv'
<1> DEFINE d == mem[p].dir
<1>1. Typed /\ pc[p] = "remove" /\ d \in Dirs
  BY AtWork DEF RemovePending, DataInv
<1>2. \A e \in Dirs, m \in FileNames :
        <<e, m>> # <<d, "pending">> => files'[e][m] = files[e][m]
  BY <1>1 DEF RemovePending, Typed, FileNames
<1>3. pc'[p] = "idle" /\ \A q \in Operators : q # p => pc'[q] = pc[q] /\ mem'[q] = mem[q]
  BY <1>1, Returning DEF RemovePending
<1>4. \A q \in Operators : pc[q] # "idle" => mem[q].dir \in Dirs
  BY AtWork
<1>5. \A e \in Dirs : files'[e].record = files[e].record
  BY <1>2 DEF FileNames
<1>6. \A q \in Operators : pc'[q] # "idle" =>
        pc'[q] = pc[q] /\ mem'[q] = mem[q] /\ mem[q].dir \in Dirs
  BY <1>3, <1>4
<1>7. FillerAlone'
  <2>1. \A q \in Operators : At(q, "fill", "record")' =>
          At(q, "fill", "record") /\ mem'[q] = mem[q] /\ mem[q].dir \in Dirs
    BY <1>6 DEF At
  <2> QED BY <1>5, <2>1 DEF StageInv, FillerAlone
<1>8. RemoverDone'
  BY <1>5, <1>6 DEF StageInv, RemoverDone
<1> QED BY <1>7, <1>8 DEF StageInv

\* Every step keeps the stage invariant.
LEMMA StageNext == DataInv /\ StageInv /\ [Next]_vars => StageInv'
<1> SUFFICES ASSUME DataInv, StageInv, [Next]_vars PROVE StageInv'
  OBVIOUS
<1>1. Typed
  BY DEF DataInv
<1>2. CASE UNCHANGED <<pc, mem, files>>
  BY <1>2 DEF StageInv, FillerAlone, RemoverDone, At
<1>3. ASSUME NEW p \in Operators, NEW d \in Dirs, BeginChecks(p, d) PROVE StageInv'
  <2>1. /\ UNCHANGED files /\ pc'[p] = "mkdir"
        /\ \A q \in Operators : q # p => pc'[q] = pc[q] /\ mem'[q] = mem[q]
    BY <1>1, <1>3 DEF BeginChecks, Goto, Typed
  <2> QED BY <2>1, StageQuiet
<1>4. ASSUME NEW p \in Operators, NEW d \in Dirs, CompleteAnswer(p, d) PROVE StageInv'
  <2>1. /\ UNCHANGED files /\ pc'[p] = "create"
        /\ \A q \in Operators : q # p => pc'[q] = pc[q] /\ mem'[q] = mem[q]
    BY <1>1, <1>4 DEF CompleteAnswer, Goto, Typed
  <2> QED BY <2>1, StageQuiet
<1>5. ASSUME NEW p \in Operators, MakeDir(p) PROVE StageInv'
  <2>1. CASE Return(p)
    BY <1>1, <1>5, <2>1, Returning, StageQuiet DEF MakeDir
  <2>2. CASE Goto(p, "create") /\ mem' = [mem EXCEPT ![p].file = "pending"]
    <3>1. /\ pc'[p] = "create"
          /\ \A q \in Operators : q # p => pc'[q] = pc[q] /\ mem'[q] = mem[q]
      BY <1>1, <2>2, Others DEF Typed, Mems
    <3> QED BY <1>5, <3>1, StageQuiet DEF MakeDir
  <2> QED BY <1>5, <2>1, <2>2 DEF MakeDir
<1>6. ASSUME NEW p \in Operators, Kill(p) PROVE StageInv'
  BY <1>1, <1>6, Returning, StageQuiet DEF Kill
<1>7. ASSUME NEW p \in Operators, Create(p) \/ Fill(p) \/ RemovePending(p) PROVE StageInv'
  BY <1>7, StageCreate, StageFill, StageRemove
<1>8. Tick \/ (\E s \in Serials : Revoke(s)) \/ (\E ak \in Aks : LoseAk(ak))
        \/ (\E d \in Dirs : Activate(d)) \/ UNCHANGED vars => UNCHANGED <<pc, mem, files>>
  BY DEF Tick, Revoke, LoseAk, Activate, vars, world
<1> QED BY <1>2, <1>3, <1>4, <1>5, <1>6, <1>7, <1>8 DEF Next

\* The two invariants hold together: a process that fills a record is alone
\* at it, and pending.json goes only after the record is whole (write_new,
\* cmd_complete).
THEOREM StageAlways == Spec => [](DataInv /\ StageInv)
<1> QED BY DataInit, StageInit, DataNext, StageNext, PTL DEF Spec

\* No step changes a whole record (write_new).
LEMMA RecordStep ==
  ASSUME DataInv, StageInv, Next, NEW d \in Dirs, Whole(files[d].record)
  PROVE  files'[d].record = files[d].record
<1>1. Typed
  BY DEF DataInv
<1>2. ~Whole(Torn) /\ ~Whole(Absent)
  BY DEF Whole, Torn, Absent
<1>3. ASSUME NEW p \in Operators, NEW f, pc[p] \in {"create", "fill"}, f \in AllFiles,
             SetFile(p, f), ~Whole(TheFile(p)) \/ mem[p].file # "record"
      PROVE  files'[d].record = files[d].record
  <2>1. mem[p].dir \in Dirs /\ mem[p].file \in FileNames
    BY <1>3, AtWork
  <2>2. <<d, "record">> # <<mem[p].dir, mem[p].file>>
    BY <1>3 DEF TheFile
  <2> QED BY <1>1, <1>3, <2>1, <2>2, FileSet DEF SetFile, FileNames
<1>4. ASSUME NEW p \in Operators, Create(p) PROVE files'[d].record = files[d].record
  <2>1. Torn \in AllFiles
    BY DEF AllFiles
  <2> QED BY <1>2, <1>3, <1>4, <2>1 DEF Create
<1>5. ASSUME NEW p \in Operators, Fill(p) PROVE files'[d].record = files[d].record
  <2>1. pc[p] = "fill"
    BY <1>5 DEF Fill
  <2>2. mem[p].file = "record" => ~Whole(TheFile(p)) /\ Holding(mem[p].rec) \in AllFiles
    BY <1>2, <2>1, AtWork DEF StageInv, FillerAlone, At, TheFile, AllFiles
  <2>3. mem[p].file # "record" => Holding(mem[p].n) \in AllFiles
    BY <2>1, AtWork DEF AllFiles, Drawn
  <2> QED BY <1>3, <1>5, <2>1, <2>2, <2>3 DEF Fill
<1>6. ASSUME NEW p \in Operators, RemovePending(p) PROVE files'[d].record = files[d].record
  BY <1>1, <1>6 DEF RemovePending, Typed, FileNames
<1>7. CASE UNCHANGED files
  BY <1>7
<1>8. /\ Tick \/ (\E s \in Serials : Revoke(s)) \/ (\E ak \in Aks : LoseAk(ak))
           \/ (\E e \in Dirs : Activate(e)) => UNCHANGED files
      /\ \A p \in Operators : MakeDir(p) \/ Kill(p) => UNCHANGED files
      /\ \A p \in Operators, e \in Dirs :
           BeginChecks(p, e) \/ CompleteAnswer(p, e) => UNCHANGED files
  <2>1. \A p \in Operators, e \in Dirs : BeginChecks(p, e) => UNCHANGED files
    BY DEF BeginChecks
  <2>2. \A p \in Operators, e \in Dirs : CompleteAnswer(p, e) => UNCHANGED files
    BY DEF CompleteAnswer
  <2> QED BY <2>1, <2>2 DEF Tick, Revoke, LoseAk, Activate, MakeDir, Kill
<1> QED BY <1>4, <1>5, <1>6, <1>7, <1>8 DEF Next

\* Neither a second `complete` nor another `begin` touches a whole record
\* (write_new creates, and never truncates).
THEOREM RecordsStand == Spec => RecordStands
<1>1. DataInv /\ StageInv /\ [Next]_vars =>
        [\A d \in Dirs : Whole(files[d].record) => files'[d].record = files[d].record]_vars
  BY RecordStep
<1> QED BY <1>1, StageAlways, PTL DEF Spec, RecordStands
-----------------------------------------------------------------------------
(***************************************************************************)
(* The shape of the state.                                                 *)
(***************************************************************************)
\* No more challenges are drawn than the bound allows.
WithinBound == Len(sess) <= MaxSessions

\* Files are only in directories that were made, and who creates or fills one
\* is in such a directory.
InMadeDirs ==
  /\ \A d \in Dirs, n \in FileNames : files[d][n] # Absent => d \in made
  /\ \A p \in Operators : pc[p] \in {"create", "fill"} => mem[p].dir \in made

\* A record that is whole in its directory has been written out.
RecordsOnDisk ==
  \A d \in Dirs : Whole(files[d].record) => files[d].record.of \in written

ShapeInv == WithinBound /\ InMadeDirs /\ RecordsOnDisk

\* Nothing is drawn or made at first.
LEMMA ShapeInit == Init => ShapeInv
  BY BoundsAssumption
     DEF Init, ShapeInv, WithinBound, InMadeDirs, RecordsOnDisk, Whole, Absent, FileNames

\* A step that changes no file and no directory, and puts nobody to work on a
\* file outside those that were made.
LEMMA ShapeQuiet ==
  ASSUME ShapeInv, UNCHANGED <<files, made, written>>, Len(sess') <= MaxSessions,
         \A q \in Operators : pc'[q] \in {"create", "fill"} => mem'[q].dir \in made
  PROVE  ShapeInv'
  BY DEF ShapeInv, WithinBound, InMadeDirs, RecordsOnDisk

\* A challenge is drawn only while there is room for it.
LEMMA ShapeBegin ==
  ASSUME DataInv, ShapeInv, NEW p \in Operators, NEW d \in Dirs, BeginChecks(p, d)
  PROVE  ShapeInv'
<1>1. /\ UNCHANGED <<files, made, written>> /\ pc'[p] = "mkdir"
      /\ \A q \in Operators : q # p => pc'[q] = pc[q] /\ mem'[q] = mem[q]
  BY DEF BeginChecks, Goto, DataInv, Typed
<1>2. Len(sess') <= MaxSessions
  <2>1. PICK s : sess' = Append(sess, s)
    BY DEF BeginChecks
  <2>2. sess \in Seq(Sessions) /\ Len(sess) \in Nat /\ Len(sess) < MaxSessions
    BY DEF BeginChecks, DataInv, Typed
  <2>3. Len(sess') = Len(sess) + 1
    BY <2>1, <2>2
  <2> QED BY <2>2, <2>3, BoundsAssumption
<1> QED BY <1>1, <1>2, ShapeQuiet DEF ShapeInv, InMadeDirs

\* `complete` works where it found the pending file.
LEMMA ShapeComplete ==
  ASSUME DataInv, ShapeInv, NEW p \in Operators, NEW d \in Dirs, CompleteAnswer(p, d)
  PROVE  ShapeInv'
<1>1. /\ UNCHANGED <<sess, files, made, written>> /\ mem'[p].dir = d
      /\ \A q \in Operators : q # p => pc'[q] = pc[q] /\ mem'[q] = mem[q]
  BY DEF CompleteAnswer, Goto, DataInv, Typed
<1>2. d \in made
  <2>1. files[d].pending # Absent
    BY DEF CompleteAnswer, Whole, Absent
  <2> QED BY <2>1 DEF ShapeInv, InMadeDirs, FileNames
<1> QED BY <1>1, <1>2, ShapeQuiet DEF ShapeInv, WithinBound, InMadeDirs

\* The directory `begin` makes is the one it will work in.
LEMMA ShapeMakeDir ==
  ASSUME DataInv, ShapeInv, NEW p \in Operators, MakeDir(p)
  PROVE  ShapeInv'
<1>1. UNCHANGED <<sess, files, written>> /\ pc[p] = "mkdir" /\ Typed
  BY DEF MakeDir, DataInv
<1>2. CASE Return(p) /\ UNCHANGED made
  BY <1>1, <1>2, Returning, ShapeQuiet DEF ShapeInv, WithinBound, InMadeDirs
<1>3. CASE /\ made' = made \union {mem[p].dir}
           /\ Goto(p, "create")
           /\ mem' = [mem EXCEPT ![p].file = "pending"]
  <2>1. mem'[p].dir = mem[p].dir
        /\ \A q \in Operators : q # p => pc'[q] = pc[q] /\ mem'[q] = mem[q]
    BY <1>1, <1>3, Others DEF Typed, Mems
  <2> QED BY <1>1, <1>3, <2>1 DEF ShapeInv, WithinBound, InMadeDirs, RecordsOnDisk
<1> QED BY <1>2, <1>3 DEF MakeDir

\* A file is created where its directory was made (write_new).
LEMMA ShapeCreate ==
  ASSUME DataInv, ShapeInv, NEW p \in Operators, Create(p)
  PROVE  ShapeInv'
<1>1. /\ UNCHANGED <<sess, made, written>> /\ pc[p] = "create" /\ Typed
      /\ mem[p].dir \in Dirs /\ mem[p].file \in FileNames /\ mem[p].dir \in made
  BY AtWork DEF Create, DataInv, ShapeInv, InMadeDirs
<1>2. CASE Return(p) /\ UNCHANGED files
  BY <1>1, <1>2, Returning, ShapeQuiet DEF ShapeInv, WithinBound, InMadeDirs
<1>3. CASE SetFile(p, Torn) /\ Goto(p, "fill") /\ UNCHANGED mem
  <2>1. /\ files'[mem[p].dir][mem[p].file] = Torn
        /\ \A e \in Dirs, m \in FileNames :
             <<e, m>> # <<mem[p].dir, mem[p].file>> => files'[e][m] = files[e][m]
    <3>1. Torn \in AllFiles
      BY DEF AllFiles
    <3> QED BY <1>1, <1>3, <3>1, ProcessFileSet
  <2>2. \A q \in Operators : q # p => pc'[q] = pc[q]
    BY <1>1, <1>3, Others
  <2>3. InMadeDirs'
    BY <1>1, <1>3, <2>1, <2>2 DEF ShapeInv, InMadeDirs
  <2>4. RecordsOnDisk'
    <3>1. ~Whole(Torn)
      BY DEF Whole, Torn
    <3> QED BY <1>1, <2>1, <3>1 DEF ShapeInv, RecordsOnDisk, FileNames
  <2> QED BY <1>1, <2>3, <2>4 DEF ShapeInv, WithinBound
<1> QED BY <1>2, <1>3 DEF Create

\* A record is written out as its file becomes whole.
LEMMA ShapeFill ==
  ASSUME DataInv, ShapeInv, NEW p \in Operators, Fill(p)
  PROVE  ShapeInv'
<1> DEFINE d == mem[p].dir
           n == mem[p].file
           x == IF n = "record" THEN mem[p].rec ELSE mem[p].n
<1>1. /\ UNCHANGED <<sess, made>> /\ pc[p] = "fill" /\ Typed
      /\ d \in Dirs /\ n \in FileNames /\ d \in made
      /\ n = "record" => mem[p].rec \in Recs
      /\ n # "record" => mem[p].n \in Drawn
  BY AtWork DEF Fill, DataInv, ShapeInv, InMadeDirs
<1>2. SetFile(p, Holding(x)) /\ Holding(x) \in AllFiles /\ Holding(x).of = x
  <2>1. Holding(x) \in AllFiles
    BY <1>1 DEF AllFiles, Drawn
  <2>2. n = "record" => SetFile(p, Holding(mem[p].rec))
    BY DEF Fill
  <2>3. n # "record" => SetFile(p, Holding(mem[p].n))
    BY DEF Fill
  <2> QED BY <2>1, <2>2, <2>3 DEF Holding
<1>3. /\ files'[d][n] = Holding(x)
      /\ \A e \in Dirs, m \in FileNames : <<e, m>> # <<d, n>> => files'[e][m] = files[e][m]
  <2>1. \A f \in AllFiles : SetFile(p, f) =>
          /\ files'[d][n] = f
          /\ \A e \in Dirs, m \in FileNames : <<e, m>> # <<d, n>> => files'[e][m] = files[e][m]
    BY <1>1, ProcessFileSet
  <2> HIDE DEF x
  <2> QED BY <1>2, <2>1
<1>4. /\ written \subseteq written'
      /\ n = "record" => x \in written'
  BY DEF Fill
<1>5. /\ mem'[p].dir = d \/ pc'[p] = "idle"
      /\ \A q \in Operators : q # p => pc'[q] = pc[q] /\ mem'[q] = mem[q]
  <2>1. CASE Goto(p, "create") /\ mem' = [mem EXCEPT ![p].file = "blob"]
    BY <1>1, <2>1, Others DEF Typed, Mems
  <2>2. CASE Return(p)
    BY <1>1, <2>2, Returning
  <2>3. CASE Goto(p, "remove") /\ UNCHANGED mem
    BY <1>1, <2>3, Others
  <2> QED BY <2>1, <2>2, <2>3 DEF Fill
<1> HIDE DEF x
<1>6. InMadeDirs'
  BY <1>1, <1>3, <1>5 DEF ShapeInv, InMadeDirs
<1>7. RecordsOnDisk'
  BY <1>2, <1>3, <1>4 DEF ShapeInv, RecordsOnDisk, FileNames
<1> QED BY <1>1, <1>6, <1>7 DEF ShapeInv, WithinBound

\* Removing the pending file leaves the others (cmd_complete).
LEMMA ShapeRemove ==
  ASSUME DataInv, ShapeInv, NEW p \in Operators, RemovePending(p)
  PROVE  ShapeInv'
<1>1. /\ UNCHANGED <<sess, made, written>> /\ Typed /\ mem[p].dir \in Dirs
  BY AtWork DEF RemovePending, DataInv
<1>2. \A e \in Dirs, m \in FileNames :
        files'[e][m] = files[e][m] \/ (m = "pending" /\ files'[e][m] = Absent)
  BY <1>1 DEF RemovePending, Typed, FileNames
<1>3. pc'[p] = "idle" /\ \A q \in Operators : q # p => pc'[q] = pc[q] /\ mem'[q] = mem[q]
  BY <1>1, Returning DEF RemovePending
<1>4. InMadeDirs'
  BY <1>1, <1>2, <1>3 DEF ShapeInv, InMadeDirs
<1>5. RecordsOnDisk'
  BY <1>1, <1>2 DEF ShapeInv, RecordsOnDisk, FileNames
<1> QED BY <1>1, <1>4, <1>5 DEF ShapeInv, WithinBound

\* Every step keeps the shape.
LEMMA ShapeNext == DataInv /\ ShapeInv /\ [Next]_vars => ShapeInv'
<1> SUFFICES ASSUME DataInv, ShapeInv, [Next]_vars PROVE ShapeInv'
  OBVIOUS
<1>1. ASSUME NEW p \in Operators, NEW d \in Dirs, BeginChecks(p, d) \/ CompleteAnswer(p, d)
      PROVE  ShapeInv'
  BY <1>1, ShapeBegin, ShapeComplete
<1>2. ASSUME NEW p \in Operators, MakeDir(p) \/ Create(p) \/ Fill(p) \/ RemovePending(p)
      PROVE  ShapeInv'
  BY <1>2, ShapeMakeDir, ShapeCreate, ShapeFill, ShapeRemove
<1>3. ASSUME NEW p \in Operators, Kill(p) PROVE ShapeInv'
  BY <1>3, Returning, ShapeQuiet
     DEF Kill, world, DataInv, ShapeInv, WithinBound, InMadeDirs
<1>4. CASE UNCHANGED <<sess, pc, mem, made, files, written>>
  BY <1>4 DEF ShapeInv, WithinBound, InMadeDirs, RecordsOnDisk
<1>5. Tick \/ (\E s \in Serials : Revoke(s)) \/ (\E ak \in Aks : LoseAk(ak))
        \/ (\E d \in Dirs : Activate(d)) \/ UNCHANGED vars
        => UNCHANGED <<sess, pc, mem, made, files, written>>
  BY DEF Tick, Revoke, LoseAk, Activate, vars
<1> QED BY <1>1, <1>2, <1>3, <1>4, <1>5 DEF Next

\* What a file holds: a session that was drawn, or a record that was written.
LEMMA WholeFile ==
  ASSUME NEW S, NEW f \in AllFiles, Whole(f) => f.of \in S
  PROVE  f \in Files(S)
  BY DEF AllFiles, Files, Whole, Absent, Torn, Holding

LEMMA ShapeGivesTypes == DataInv /\ ShapeInv => TypeOK
<1> SUFFICES ASSUME DataInv, ShapeInv PROVE TypeOK
  OBVIOUS
<1>1. Typed /\ WithinBound /\ Len(sess) \in Nat /\ DOMAIN sess = Drawn
  BY DEF DataInv, ShapeInv, Typed, Drawn
<1>2. \A i \in DOMAIN sess : sess[i].checked <= now /\ sess[i].ak \in Aks
  BY <1>1, SessionTyped DEF DataInv, SessionsHold, Checked, Sessions
<1>3. released \subseteq 1..MaxSessions
  <2>1. Drawn \subseteq 1..MaxSessions
    BY <1>1, BoundsAssumption DEF WithinBound, Drawn
  <2> QED BY <2>1 DEF DataInv, AnswersHold
<1>4. \A p \in Operators : pc[p] # "idle" => mem[p].dir \in Dirs
  BY AtWork
<1>5. ASSUME NEW d \in Dirs
      PROVE  /\ DOMAIN files[d] = FileNames
             /\ files[d].pending \in Files(DOMAIN sess)
             /\ files[d].blob \in Files(DOMAIN sess)
             /\ files[d].record \in Files(written)
             /\ \A n \in FileNames : files[d][n] # Absent => d \in made
  <2>1. files[d] \in [FileNames -> AllFiles]
    BY <1>1 DEF Typed
  <2>2. \A n \in FileNames : files[d][n] \in AllFiles
    BY <2>1
  <2>3. files[d].pending \in Files(Drawn) /\ files[d].blob \in Files(Drawn)
    BY <2>2, WholeFile DEF DataInv, FilesHold, FileNames
  <2>4. files[d].record \in Files(written)
    BY <2>2, WholeFile DEF ShapeInv, RecordsOnDisk, FileNames
  <2> QED BY <1>1, <2>1, <2>3, <2>4 DEF ShapeInv, InMadeDirs
<1> QED BY <1>1, <1>2, <1>3, <1>4, <1>5 DEF TypeOK, Typed, WithinBound

\* The types of the registrar: pending.json and cred.blob hold a challenge that
\* was drawn, record.json a record `complete` wrote, and every file is in a
\* directory `begin` made (cmd_begin, cmd_complete, write_new).
THEOREM TypeCorrect == Spec => []TypeOK
<1>1. Spec => [](DataInv /\ ShapeInv)
  BY DataInit, ShapeInit, DataNext, ShapeNext, PTL DEF Spec
<1> QED BY <1>1, ShapeGivesTypes, PTL
-----------------------------------------------------------------------------
(***************************************************************************)
(* A challenge can be completed.                                           *)
(***************************************************************************)
Working(p) == pc[p] \in {"create", "fill"}

\* A `begin` that writes pending.json is alone in its directory, and there is
\* no record in it.
BeginAlone ==
  \A p \in Operators : Working(p) /\ mem[p].file = "pending" =>
    /\ files[mem[p].dir].record = Absent
    /\ ~Whole(files[mem[p].dir].pending)
    /\ \A q \in Operators : Working(q) /\ mem[q].dir = mem[p].dir => q = p

\* A step that leaves the files alone and sends nobody to work.
LEMMA AloneQuiet ==
  ASSUME BeginAlone, NEW p \in Operators, UNCHANGED files, ~Working(p)',
         \A q \in Operators : q # p => pc'[q] = pc[q] /\ mem'[q] = mem[q]
  PROVE  BeginAlone'
  BY DEF BeginAlone, Working

\* The directory `begin` made was not there, so nothing is in it and nobody
\* works there (cmd_begin).
LEMMA AloneMakeDir ==
  ASSUME DataInv, ShapeInv, BeginAlone, NEW p \in Operators, MakeDir(p)
  PROVE  BeginAlone'
<1>1. UNCHANGED files /\ Typed /\ pc[p] = "mkdir" /\ mem[p].dir \in Dirs
  BY AtWork DEF MakeDir, DataInv
<1>2. CASE Return(p)
  BY <1>1, <1>2, Returning, AloneQuiet DEF Working
<1>3. CASE /\ mem[p].dir \notin made
           /\ Goto(p, "create")
           /\ mem' = [mem EXCEPT ![p].file = "pending"]
  <2>1. /\ mem'[p].dir = mem[p].dir
        /\ \A q \in Operators : q # p => pc'[q] = pc[q] /\ mem'[q] = mem[q]
    BY <1>1, <1>3, Others DEF Typed, Mems
  <2>2. /\ files[mem[p].dir].record = Absent
        /\ files[mem[p].dir].pending = Absent
        /\ \A q \in Operators : Working(q) => mem[q].dir # mem[p].dir
    BY <1>1, <1>3 DEF ShapeInv, InMadeDirs, FileNames, Working
  <2>3. ~Whole(Absent)
    BY DEF Whole, Absent
  <2> QED BY <1>1, <2>1, <2>2, <2>3 DEF BeginAlone, Working
<1> QED BY <1>2, <1>3 DEF MakeDir

\* `complete` starts only where pending.json is whole (cmd_complete).
LEMMA AloneComplete ==
  ASSUME DataInv, BeginAlone, NEW p \in Operators, NEW d \in Dirs, CompleteAnswer(p, d)
  PROVE  BeginAlone'
<1>1. /\ mem'[p].dir = d /\ mem'[p].file = "record" /\ UNCHANGED files
      /\ Whole(files[d].pending)
      /\ \A q \in Operators : q # p => pc'[q] = pc[q] /\ mem'[q] = mem[q]
  BY DEF CompleteAnswer, Goto, DataInv, Typed
<1> QED BY <1>1 DEF BeginAlone, Working

\* A file that is created is nobody else's (write_new).
LEMMA AloneCreate ==
  ASSUME DataInv, BeginAlone, NEW p \in Operators, Create(p)
  PROVE  BeginAlone'
<1>1. /\ mem[p] \in Mems /\ mem[p].dir \in Dirs /\ mem[p].file \in FileNames
      /\ pc[p] = "create" /\ Typed /\ Torn \in AllFiles
  BY AtWork DEF Create, DataInv, AllFiles
<1>2. CASE Return(p) /\ UNCHANGED files
  BY <1>1, <1>2, Returning, AloneQuiet DEF Working
<1>3. CASE SetFile(p, Torn) /\ Goto(p, "fill") /\ UNCHANGED mem
  <2>1. /\ files'[mem[p].dir][mem[p].file] = Torn
        /\ \A e \in Dirs, m \in FileNames :
             <<e, m>> # <<mem[p].dir, mem[p].file>> => files'[e][m] = files[e][m]
    BY <1>1, <1>3, ProcessFileSet
  <2>2. \A q \in Operators : Working(q)' => Working(q) /\ mem'[q] = mem[q] /\ mem[q].dir \in Dirs
    BY <1>1, <1>3, Others, AtWork DEF Working
  <2>3. SUFFICES ASSUME NEW q \in Operators, Working(q), mem[q].file = "pending", mem[q].dir \in Dirs
                 PROVE  /\ files'[mem[q].dir].record = Absent
                        /\ ~Whole(files'[mem[q].dir].pending)
    BY <2>2 DEF BeginAlone
  <2>4. CASE q = p
    <3>1. ~Whole(Torn)
      BY DEF Whole, Torn
    <3> QED BY <2>1, <2>3, <2>4, <3>1 DEF BeginAlone, FileNames
  <2>5. CASE q # p
    <3>1. mem[q].dir # mem[p].dir
      BY <1>1, <2>3, <2>5 DEF BeginAlone, Working
    <3> QED BY <2>1, <2>3, <3>1 DEF BeginAlone, FileNames
  <2> QED BY <2>4, <2>5
<1> QED BY <1>2, <1>3 DEF Create

\* Whoever fills a file is done with it, and no `begin` was beside it.
LEMMA AloneFill ==
  ASSUME DataInv, BeginAlone, NEW p \in Operators, Fill(p)
  PROVE  BeginAlone'
<1>1. /\ mem[p] \in Mems /\ mem[p].dir \in Dirs /\ mem[p].file \in FileNames
      /\ pc[p] = "fill" /\ Typed
  BY AtWork DEF Fill, DataInv
<1>2. /\ Working(p)' => mem'[p].dir = mem[p].dir /\ mem'[p].file = "blob"
      /\ \A q \in Operators : q # p => pc'[q] = pc[q] /\ mem'[q] = mem[q]
  <2>1. CASE Goto(p, "create") /\ mem' = [mem EXCEPT ![p].file = "blob"]
    BY <1>1, <2>1, Others DEF Typed, Mems
  <2>2. CASE Return(p)
    BY <1>1, <2>2, Returning DEF Working
  <2>3. CASE Goto(p, "remove") /\ UNCHANGED mem
    BY <1>1, <2>3, Others DEF Working
  <2> QED BY <2>1, <2>2, <2>3 DEF Fill
<1>3. \A e \in Dirs : e # mem[p].dir => files'[e] = files[e]
  BY <1>1 DEF Fill, SetFile, Typed
<1>4. \A q \in Operators : Working(q)' => Working(q) /\ mem'[q].dir = mem[q].dir
  BY <1>1, <1>2 DEF Working
<1>5. SUFFICES ASSUME NEW q \in Operators, Working(q)', mem'[q].file = "pending"
               PROVE  /\ files'[mem'[q].dir].record = Absent
                      /\ ~Whole(files'[mem'[q].dir].pending)
                      /\ \A r \in Operators : Working(r)' /\ mem'[r].dir = mem'[q].dir => r = q
  BY DEF BeginAlone
<1>6. q # p /\ Working(q) /\ mem'[q] = mem[q] /\ mem[q].dir \in Dirs
  BY <1>2, <1>4, <1>5, AtWork DEF Working
<1>7. mem[q].dir # mem[p].dir
  BY <1>1, <1>5, <1>6 DEF BeginAlone, Working
<1> QED BY <1>3, <1>4, <1>5, <1>6, <1>7 DEF BeginAlone

\* Removing a pending.json makes none whole.
LEMMA AloneRemove ==
  ASSUME DataInv, BeginAlone, NEW p \in Operators, RemovePending(p)
  PROVE  BeginAlone'
<1>1. Typed /\ pc[p] = "remove" /\ mem[p].dir \in Dirs
  BY AtWork DEF RemovePending, DataInv
<1>2. \A e \in Dirs : /\ files'[e].record = files[e].record
                      /\ files'[e].pending \in {files[e].pending, Absent}
  BY <1>1 DEF RemovePending, Typed, FileNames
<1>3. \A q \in Operators : Working(q)' =>
        Working(q) /\ mem'[q] = mem[q] /\ mem[q].dir \in Dirs
  BY <1>1, Returning, AtWork DEF RemovePending, Working
<1>4. ~Whole(Absent)
  BY DEF Whole, Absent
<1> QED BY <1>2, <1>3, <1>4 DEF BeginAlone

\* Every step leaves a `begin` alone.
LEMMA AloneNext == DataInv /\ ShapeInv /\ BeginAlone /\ [Next]_vars => BeginAlone'
<1> SUFFICES ASSUME DataInv, ShapeInv, BeginAlone, [Next]_vars PROVE BeginAlone'
  OBVIOUS
<1>1. CASE UNCHANGED <<pc, mem, files>>
  BY <1>1 DEF BeginAlone, Working
<1>2. ASSUME NEW p \in Operators, NEW d \in Dirs, BeginChecks(p, d) PROVE BeginAlone'
  <2>1. /\ UNCHANGED files /\ pc'[p] = "mkdir"
        /\ \A q \in Operators : q # p => pc'[q] = pc[q] /\ mem'[q] = mem[q]
    BY <1>2 DEF BeginChecks, Goto, DataInv, Typed
  <2> QED BY <2>1, AloneQuiet DEF Working
<1>3. ASSUME NEW p \in Operators, NEW d \in Dirs, CompleteAnswer(p, d) PROVE BeginAlone'
  BY <1>3, AloneComplete
<1>4. ASSUME NEW p \in Operators, Kill(p) PROVE BeginAlone'
  BY <1>4, Returning, AloneQuiet DEF Kill, Working, DataInv
<1>5. ASSUME NEW p \in Operators, MakeDir(p) \/ Create(p) \/ Fill(p) \/ RemovePending(p)
      PROVE  BeginAlone'
  BY <1>5, AloneMakeDir, AloneCreate, AloneFill, AloneRemove
<1>6. Tick \/ (\E s \in Serials : Revoke(s)) \/ (\E ak \in Aks : LoseAk(ak))
        \/ (\E d \in Dirs : Activate(d)) \/ UNCHANGED vars => UNCHANGED <<pc, mem, files>>
  BY DEF Tick, Revoke, LoseAk, Activate, vars, world
<1> QED BY <1>1, <1>2, <1>3, <1>4, <1>5, <1>6 DEF Next

\* BeginAlone needs the shape invariant, so the invariants are taken together.
LEMMA AloneAlways == Spec => [](DataInv /\ StageInv /\ BeginAlone)
<1>1. Init => ShapeInv /\ BeginAlone
  BY ShapeInit DEF Init, BeginAlone, Working
<1>2. DataInv /\ ShapeInv /\ BeginAlone /\ [Next]_vars => (ShapeInv /\ BeginAlone)'
  BY ShapeNext, AloneNext
<1> QED BY <1>1, <1>2, StageAlways, PTL DEF Spec

\* A step that changes no pending.json and no record.json of d, and after
\* which whoever was writing the record still is.
LEMMA StillAnswerable ==
  ASSUME NEW d \in Dirs, Answerable(d),
         files'[d].pending = files[d].pending, files'[d].record = files[d].record,
         \A p \in Operators : Recording(p, d) => Recording(p, d)'
  PROVE  Answerable(d)'
  BY DEF Answerable

\* Creating a file: a record is created where there was none, beside a whole
\* pending.json; then it is being written (write_new).
LEMMA CreateAnswerable ==
  ASSUME DataInv, NEW p \in Operators, Create(p), NEW d \in Dirs
  PROVE  /\ Whole(files'[d].pending) <=> Whole(files[d].pending)
         /\ Answerable(d) => Answerable(d)'
<1>1. /\ mem[p] \in Mems /\ mem[p].dir \in Dirs /\ mem[p].file \in FileNames
      /\ pc[p] = "create" /\ Typed /\ Torn \in AllFiles
  BY AtWork DEF Create, DataInv, AllFiles
<1>2. ~Whole(Torn) /\ ~Whole(Absent)
  BY DEF Whole, Torn, Absent
<1>3. CASE Return(p) /\ UNCHANGED files
  <2>1. \A q \in Operators : Recording(q, d) => Recording(q, d)'
    BY <1>1, <1>3, Returning DEF Recording
  <2> QED BY <1>3, <2>1, StillAnswerable
<1>4. CASE TheFile(p) = Absent /\ SetFile(p, Torn) /\ Goto(p, "fill") /\ UNCHANGED mem
  <2>1. /\ files'[mem[p].dir][mem[p].file] = Torn
        /\ \A e \in Dirs, m \in FileNames :
             <<e, m>> # <<mem[p].dir, mem[p].file>> => files'[e][m] = files[e][m]
    BY <1>1, <1>4, ProcessFileSet
  <2>2. files[mem[p].dir][mem[p].file] = Absent
    BY <1>4 DEF TheFile
  <2>3. \A q \in Operators : Recording(q, d) => Recording(q, d)'
    BY <1>1, <1>4, Others DEF Recording
  <2>4. \A m \in FileNames : Whole(files'[d][m]) <=> Whole(files[d][m])
    BY <1>2, <2>1, <2>2
  <2>5. ASSUME Answerable(d) PROVE Answerable(d)'
    <3>1. CASE mem[p].dir = d /\ mem[p].file = "record"
      <4>1. Recording(p, d)'
        BY <1>1, <1>4, <3>1, Others DEF Recording
      <4>2. Whole(files'[d].pending)
        BY <1>2, <2>2, <2>4, <2>5, <3>1 DEF Answerable, FileNames
      <4> QED BY <4>1, <4>2 DEF Answerable
    <3>2. CASE files'[d].record = files[d].record
      BY <2>3, <2>4, <2>5, <3>2 DEF Answerable, FileNames
    <3> QED BY <2>1, <3>1, <3>2 DEF FileNames
  <2> QED BY <2>4, <2>5 DEF FileNames
<1> QED BY <1>3, <1>4 DEF Create

\* Filling a file: what was whole stays so, a record becomes whole, and a
\* pending.json that does has no record beside it.
LEMMA FillAnswerable ==
  ASSUME DataInv, BeginAlone, NEW p \in Operators, Fill(p), NEW d \in Dirs
  PROVE  /\ Whole(files[d].pending) => Whole(files'[d].pending)
         /\ Whole(files'[d].pending) /\ ~Whole(files[d].pending) => Answerable(d)'
         /\ Answerable(d) => Answerable(d)'
<1> DEFINE e == mem[p].dir
           n == mem[p].file
<1>1. mem[p] \in Mems /\ e \in Dirs /\ n \in FileNames /\ pc[p] = "fill" /\ Typed
  BY AtWork DEF Fill, DataInv
<1>2. PICK x : Holding(x) \in AllFiles /\ SetFile(p, Holding(x))
  <2>1. CASE n = "record" /\ SetFile(p, Holding(mem[p].rec))
    <3>1. mem[p].rec \in Recs
      BY <1>1, <2>1, AtWork
    <3> QED BY <2>1, <3>1 DEF AllFiles
  <2>2. CASE n # "record" /\ SetFile(p, Holding(mem[p].n))
    <3>1. mem[p].n \in Nat
      BY <1>1, <2>2, AtWork DEF Drawn
    <3> QED BY <2>2, <3>1 DEF AllFiles
  <2> QED BY <2>1, <2>2 DEF Fill
<1>3. Whole(Holding(x))
  BY DEF Whole, Holding
<1>4. /\ files'[e][n] = Holding(x)
      /\ \A f \in Dirs, m \in FileNames : <<f, m>> # <<e, n>> => files'[f][m] = files[f][m]
  BY <1>1, <1>2, ProcessFileSet
<1>5. \A m \in FileNames : Whole(files[d][m]) => Whole(files'[d][m])
  BY <1>3, <1>4
<1>6. \A q \in Operators : q # p => pc'[q] = pc[q] /\ mem'[q] = mem[q]
  BY <1>1 DEF Fill, Goto, Return, Typed
<1>7. ASSUME Whole(files'[d].pending), ~Whole(files[d].pending) PROVE Answerable(d)'
  <2>1. e = d /\ n = "pending"
    BY <1>4, <1>7 DEF FileNames
  <2>2. files[d].record = Absent
    BY <1>1, <2>1 DEF BeginAlone, Working
  <2>3. files'[d].record = Absent
    BY <1>4, <2>1, <2>2 DEF FileNames
  <2> QED BY <1>7, <2>3 DEF Answerable
<1>8. ASSUME Answerable(d) PROVE Answerable(d)'
  <2>1. CASE e = d /\ n = "record"
    BY <1>3, <1>4, <2>1 DEF Answerable
  <2>2. CASE <<e, n>> # <<d, "record">>
    <3>1. \A q \in Operators : Recording(q, d) => Recording(q, d)'
      BY <1>6, <2>2 DEF Recording
    <3>2. files'[d].record = files[d].record
      BY <1>4, <2>2 DEF FileNames
    <3> QED BY <1>5, <1>8, <3>1, <3>2 DEF Answerable, FileNames
  <2> QED BY <2>1, <2>2
<1> QED BY <1>5, <1>7, <1>8 DEF FileNames

\* What a step can do to a challenge (cmd_begin, cmd_complete).
LEMMA AnswerStep ==
  ASSUME DataInv, StageInv, BeginAlone, Next, NEW d \in Dirs
  PROVE  /\ Whole(files'[d].pending) /\ ~Whole(files[d].pending) => Answerable(d)'
         /\ Answerable(d) => Answerable(d)' \/ CutShort(d)
         /\ Whole(files[d].pending) => Whole(files'[d].pending) \/ Whole(files[d].record)
<1>1. Typed
  BY DEF DataInv
<1>2. CASE /\ UNCHANGED files
           /\ \A q \in Operators : Recording(q, d) => Recording(q, d)'
  BY <1>2, StillAnswerable
<1>3. ASSUME NEW p \in Operators, pc[p] # "fill", UNCHANGED files,
             \A q \in Operators : q # p => pc'[q] = pc[q] /\ mem'[q] = mem[q]
      PROVE  \A q \in Operators : Recording(q, d) => Recording(q, d)'
  BY <1>3 DEF Recording
<1>4. ASSUME NEW p \in Operators, NEW e \in Dirs, BeginChecks(p, e) \/ CompleteAnswer(p, e)
      PROVE  UNCHANGED files /\ \A q \in Operators : Recording(q, d) => Recording(q, d)'
  <2>1. /\ UNCHANGED files /\ pc[p] = "idle"
        /\ \A q \in Operators : q # p => pc'[q] = pc[q] /\ mem'[q] = mem[q]
    <3>1. CASE BeginChecks(p, e)
      BY <1>1, <3>1 DEF BeginChecks, Goto, Typed
    <3>2. CASE CompleteAnswer(p, e)
      BY <1>1, <3>2 DEF CompleteAnswer, Goto, Typed
    <3> QED BY <1>4, <3>1, <3>2
  <2> QED BY <1>3, <2>1
<1>5. ASSUME NEW p \in Operators, MakeDir(p)
      PROVE  UNCHANGED files /\ \A q \in Operators : Recording(q, d) => Recording(q, d)'
  <2>1. /\ UNCHANGED files /\ pc[p] = "mkdir"
        /\ \A q \in Operators : q # p => pc'[q] = pc[q] /\ mem'[q] = mem[q]
    BY <1>1, <1>5 DEF MakeDir, Goto, Return, Typed
  <2> QED BY <1>3, <2>1
<1>6. CASE \E p \in Operators : Create(p)
  BY <1>6, CreateAnswerable
<1>7. CASE \E p \in Operators : Fill(p)
  BY <1>7, FillAnswerable
<1>8. ASSUME NEW p \in Operators, RemovePending(p)
      PROVE  /\ ~(Whole(files'[d].pending) /\ ~Whole(files[d].pending))
             /\ Answerable(d) => Answerable(d)'
             /\ Whole(files[d].pending) => Whole(files'[d].pending) \/ Whole(files[d].record)
  <2>1. pc[p] = "remove" /\ mem[p].dir \in Dirs /\ Whole(files[mem[p].dir].record)
    BY <1>8, AtWork DEF RemovePending, StageInv, RemoverDone
  <2>2. /\ files'[d].record = files[d].record
        /\ files'[d].pending = IF mem[p].dir = d THEN Absent ELSE files[d].pending
    BY <1>1, <1>8, <2>1 DEF RemovePending, Typed, FileNames
  <2>3. \A q \in Operators : Recording(q, d) => Recording(q, d)'
    BY <1>1, <1>8, <2>1, Returning DEF RemovePending, Recording
  <2>4. ~Whole(Absent)
    BY DEF Whole, Absent
  <2>5. CASE mem[p].dir = d
    BY <2>1, <2>2, <2>4, <2>5 DEF Answerable
  <2>6. CASE mem[p].dir # d
    BY <2>2, <2>3, <2>6 DEF Answerable
  <2> QED BY <2>5, <2>6
<1>9. ASSUME NEW p \in Operators, Kill(p)
      PROVE  /\ UNCHANGED files
             /\ CutShort(d) \/ \A q \in Operators : Recording(q, d) => Recording(q, d)'
  <2>1. \A q \in Operators : q # p => pc'[q] = pc[q] /\ mem'[q] = mem[q]
    BY <1>1, <1>9, Returning DEF Kill
  <2> QED BY <1>9, <2>1 DEF Kill, CutShort, Recording
<1>10. CASE \/ Tick \/ (\E s \in Serials : Revoke(s))
            \/ (\E ak \in Aks : LoseAk(ak)) \/ (\E e \in Dirs : Activate(e))
  <2>1. UNCHANGED <<pc, mem, files>>
    BY <1>10 DEF Tick, Revoke, LoseAk, Activate, world
  <2> QED BY <1>2, <2>1 DEF Recording
<1>11. CASE \E p \in Operators : Kill(p)
  BY <1>2, <1>9, <1>11
<1> QED BY <1>2, <1>4, <1>5, <1>6, <1>7, <1>8, <1>10, <1>11 DEF Next

\* A challenge whose pending.json is whole can be completed until its record
\* is whole, unless a command dies in the middle of writing that record
\* (cmd_begin, cmd_complete, write_new).
THEOREM ChallengesStayAnswerable == Spec => ChallengeAnswerable
<1>1. DataInv /\ StageInv /\ BeginAlone /\ [Next]_vars =>
        [\A d \in Dirs :
           /\ Whole(files[d].pending)' /\ ~Whole(files[d].pending) => Answerable(d)'
           /\ Answerable(d) => Answerable(d)' \/ CutShort(d)
           /\ Whole(files[d].pending) =>
                Whole(files[d].pending)' \/ Whole(files[d].record)]_vars
  BY AnswerStep
<1> QED BY <1>1, AloneAlways, PTL DEF Spec, ChallengeAnswerable
=============================================================================
