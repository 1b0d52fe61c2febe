----------------------------- MODULE Registrar -----------------------------
(***************************************************************************)
(* The AK registrar (tools/registrar): `begin` checks an EK chain and an   *)
(* AK and makes a challenge, the device's TPM answers it, `complete`       *)
(* writes the registration record, the Registration Signer signs it, and   *)
(* `verify` hands the AK to the trust store.                               *)
(*                                                                         *)
(* Commands run side by side and may be killed between any two system      *)
(* calls; power cuts are left out. Time runs in half seconds, because      *)
(* `begin` checks at the clock's own resolution and stores whole seconds;  *)
(* a certificate or a CRL names whole seconds, even numbers here.          *)
(***************************************************************************)
EXTENDS RegistrationCheck, FiniteSets

CONSTANTS
  Operators,         \* registrar processes
  Dirs,              \* state directories they name
  EkCerts, IntCerts, RootCerts,
  Pinned,            \* the root a careful operator names
  TpmKeys,           \* EK keys that live in a TPM
  Aks, Home,         \* AKs, and the EK key of the TPM each is made in, or None
  CertLists, Signers, ReleaseRoot,   \* containers, who they name, their root
  RegistrationKeys,  \* keys that sign nothing but records `complete` wrote
  OtherKeys,         \* keys that may sign anything
  Forgeries,         \* records `complete` did not write
  Serials,           \* serial numbers a CA may come to revoke
  CrlLife,           \* from a CRL's thisUpdate to its nextUpdate
  MaxTime, MaxSessions, MaxRevoked   \* bounds of the model

VARIABLES
  now,       \* the clock, in half seconds
  revoked,   \* when each certificate was revoked, or None
  lost,      \* when each AK left its TPM, or None
  sess,      \* the challenges drawn so far, in order
  released,  \* the secrets a device has answered with
  pc, mem,   \* where each process is, and what it holds
  made,      \* state directories that exist
  files,     \* what is in them
  written    \* records `complete` has written out

vars == <<now, revoked, lost, sess, released, pc, mem, made, files, written>>
world == <<now, revoked, lost>>

Cas == IntCerts \union RootCerts

\* Mutant: rounded to the nearest second.
SecNearest(t) == ((t + 1) \div 2) * 2

\* Duration::as_secs.
Sec(t) == (t \div 2) * 2
Times == 0..MaxTime

\* The vendor puts no key under the pinned root that is outside a TPM.
ASSUME PinnedAssumption ==
  \A ek \in EkCerts, int \in IntCerts, at \in Times :
    ChainValid(ek, int, Pinned, at) => ek.key \in TpmKeys

\* The release PKI certifies for registration only keys used for nothing else.
ASSUME PkiAssumption ==
  /\ RegistrationKeys \intersect OtherKeys = {}
  /\ \A certs \in CertLists : \A i, k \in DOMAIN certs :
       (/\ Follows(certs[k], ReleaseRoot)
        /\ Follows(certs[i], certs[k])
        /\ certs[i].eku = {"registration"}) => certs[i].key \in RegistrationKeys

\* A certificate's dates are whole seconds.
ASSUME DatesAssumption ==
  \A c \in EkCerts \union Cas :
    c.from \in Nat /\ c.until \in Nat /\ Sec(c.from) = c.from /\ Sec(c.until) = c.until

CrlSet == [alg : {"sha256WithRSA"}, issuer : {c.subject : c \in Cas},
           signedBy : {c.key : c \in Cas}, this : Nat, next : Nat,
           critical : {{}}, listed : SUBSET Serials]

BlobSet == [to : {c.key : c \in EkCerts}, name : {Name(ak) : ak \in Aks}, secret : Nat]

\* None is neither a CRL nor a blob.
ASSUME NoneAssumption == None \notin CrlSet \union BlobSet

ASSUME BoundsAssumption ==
  /\ MaxTime \in Nat /\ MaxSessions \in Nat /\ MaxRevoked \in Nat
  /\ CrlLife \in Nat /\ Sec(CrlLife) = CrlLife
  /\ Pinned \in RootCerts

-----------------------------------------------------------------------------
(***************************************************************************)
(* The files of a state directory.                                         *)
(***************************************************************************)
FileNames == {"pending", "blob", "record"}
Absent == [state |-> "absent", of |-> None]
Torn   == [state |-> "torn", of |-> None]
Holding(x) == [state |-> "whole", of |-> x]
Whole(f) == f.state = "whole"

-----------------------------------------------------------------------------
(***************************************************************************)
(* The CRLs: a CA publishes one every second, listing what was revoked.    *)
(***************************************************************************)
Crl(ca, t) ==
  [alg |-> "sha256WithRSA", issuer |-> ca.subject, signedBy |-> ca.key,
   this |-> t, next |-> t + CrlLife, critical |-> {},
   listed |-> {s \in Serials : revoked[s] # None /\ revoked[s] < t}]

\* What can be fetched at a whole second, and offered at any later time.
Crls(t) == {Crl(ca, t) : ca \in Cas}

-----------------------------------------------------------------------------
(***************************************************************************)
(* A session, and the record `complete` makes of it.                       *)
(***************************************************************************)
\* Mutant: the same secret for every device.
FreshFixed == 1

\* OsRng: a secret nobody has had before.
Fresh == Len(sess) + 1

\* Mutant: the second of the check is rounded up, not down: it may be past a
\* window that was open at the check.
SessionRoundedUp(ek, int, root, ekCrl, intCrl, ak) ==
  [ek |-> ek, int |-> int, root |-> root, ekCrl |-> ekCrl, intCrl |-> intCrl,
   ak |-> ak, checked |-> Sec(now) + 2, secret |-> Fresh,
   blob |-> MakeCredential(ek.key, Name(ak), Fresh)]

Session(ek, int, root, ekCrl, intCrl, ak) ==
  [ek |-> ek, int |-> int, root |-> root, ekCrl |-> ekCrl, intCrl |-> intCrl,
   ak |-> ak, checked |-> Sec(now), secret |-> Fresh,
   blob |-> MakeCredential(ek.key, Name(ak), Fresh)]

RecordOf(s) ==
  [format |-> "v2", signed |-> None, revocationChecked |-> TRUE,
   ek |-> s.ek, int |-> s.int, rootHash |-> s.root, checked |-> s.checked,
   ekCrl |-> s.ekCrl, intCrl |-> s.intCrl,
   ekWindow |-> Window(s.ekCrl), intWindow |-> Window(s.intCrl),
   ak |-> s.ak, akName |-> Name(s.ak), blob |-> s.blob]

-----------------------------------------------------------------------------
NoMem == [dir |-> None, file |-> None, n |-> None, rec |-> None]

Init ==
  /\ now = 0
  /\ revoked = [s \in Serials |-> None]
  /\ lost = [ak \in Aks |-> None]
  /\ sess = << >>
  /\ released = {}
  /\ pc = [p \in Operators |-> "idle"]
  /\ mem = [p \in Operators |-> NoMem]
  /\ made = {}
  /\ files = [d \in Dirs |-> [n \in FileNames |-> Absent]]
  /\ written = {}

Goto(p, l) == pc' = [pc EXCEPT ![p] = l]
\* A command that returns, with or without an error.
Return(p) == Goto(p, "idle") /\ mem' = [mem EXCEPT ![p] = NoMem]

-----------------------------------------------------------------------------
(***************************************************************************)
(* begin.                                                                  *)
(***************************************************************************)
\* Mutant: the AK rule is left to `verify`.
BeginChecksNoAk(p, d) ==
  /\ pc[p] = "idle" /\ Len(sess) < MaxSessions
  /\ \E ek \in EkCerts, int \in IntCerts, root \in RootCerts :
       /\ ChainValid(ek, int, root, now)
       /\ \E t \in {u \in 0..now : Sec(u) = u} :
          \E ekCrl \in Crls(t), intCrl \in Crls(t) :
            /\ ChainNotRevoked(ek, int, root, ekCrl, intCrl, now)
            /\ \E ak \in Aks :
                 /\ sess' = Append(sess, Session(ek, int, root, ekCrl, intCrl, ak))
  /\ Goto(p, "mkdir")
  /\ mem' = [mem EXCEPT ![p] = [dir |-> d, file |-> None,
                                n |-> Len(sess'), rec |-> None]]
  /\ UNCHANGED <<world, released, made, files, written>>

\* The chain, the CRLs and the AK are checked at one reading of the clock;
\* then the secret is drawn and sealed in the credential blob.
BeginChecks(p, d) ==
  /\ pc[p] = "idle" /\ Len(sess) < MaxSessions
  /\ \E ek \in EkCerts, int \in IntCerts, root \in RootCerts :
       /\ ChainValid(ek, int, root, now)
       /\ \E t \in {u \in 0..now : Sec(u) = u} :
          \E ekCrl \in Crls(t), intCrl \in Crls(t) :
            /\ ChainNotRevoked(ek, int, root, ekCrl, intCrl, now)
            /\ \E ak \in Aks :
                 /\ AkQualifies(ak)
                 /\ sess' = Append(sess, Session(ek, int, root, ekCrl, intCrl, ak))
  /\ Goto(p, "mkdir")
  /\ mem' = [mem EXCEPT ![p] = [dir |-> d, file |-> None,
                                n |-> Len(sess'), rec |-> None]]
  /\ UNCHANGED <<world, released, made, files, written>>

\* The state directory must not exist yet.
MakeDir(p) ==
  /\ pc[p] = "mkdir"
  /\ \/ /\ mem[p].dir \notin made
        /\ made' = made \union {mem[p].dir}
        /\ Goto(p, "create")
        /\ mem' = [mem EXCEPT ![p].file = "pending"]
     \/ /\ mem[p].dir \in made
        /\ Return(p)
        /\ UNCHANGED made
  /\ UNCHANGED <<world, sess, released, files, written>>

-----------------------------------------------------------------------------
(***************************************************************************)
(* write_new: create a file that must not exist, fill it, sync it.         *)
(***************************************************************************)
TheFile(p) == files[mem[p].dir][mem[p].file]
SetFile(p, f) == files' = [files EXCEPT ![mem[p].dir][mem[p].file] = f]

\* Mutant: an existing file is truncated.
CreateOver(p) ==
  /\ pc[p] = "create"
  /\ SetFile(p, Torn)
  /\ Goto(p, "fill")
  /\ UNCHANGED <<world, sess, released, mem, made, written>>

Create(p) ==
  /\ pc[p] = "create"
  /\ \/ /\ TheFile(p) = Absent
        /\ SetFile(p, Torn)
        /\ Goto(p, "fill")
        /\ UNCHANGED mem
     \/ /\ TheFile(p) # Absent
        /\ Return(p)
        /\ UNCHANGED files
  /\ UNCHANGED <<world, sess, released, made, written>>

\* After pending.json comes cred.blob; after record.json, the removal.
Fill(p) ==
  /\ pc[p] = "fill"
  /\ \/ /\ mem[p].file = "pending"
        /\ SetFile(p, Holding(mem[p].n))
        /\ Goto(p, "create")
        /\ mem' = [mem EXCEPT ![p].file = "blob"]
        /\ UNCHANGED written
     \/ /\ mem[p].file = "blob"
        /\ SetFile(p, Holding(mem[p].n))
        /\ Return(p)
        /\ UNCHANGED written
     \/ /\ mem[p].file = "record"
        /\ SetFile(p, Holding(mem[p].rec))
        /\ written' = written \union {mem[p].rec}
        /\ Goto(p, "remove")
        /\ UNCHANGED mem
  /\ UNCHANGED <<world, sess, released, made>>

-----------------------------------------------------------------------------
(***************************************************************************)
(* complete.                                                               *)
(***************************************************************************)
\* Mutant: the secret is deleted as soon as it has served.
CompleteAnswerRemoves(p, d) ==
  /\ pc[p] = "idle"
  /\ Whole(files[d].pending)
  /\ LET s == sess[files[d].pending.of]
     IN /\ s.secret \in released
        /\ mem' = [mem EXCEPT ![p] = [dir |-> d, file |-> "record",
                                      n |-> None, rec |-> RecordOf(s)]]
  /\ Goto(p, "create")
  /\ files' = [files EXCEPT ![d].pending = Absent]
  /\ UNCHANGED <<world, sess, released, made, written>>

\* An answer that does not match leaves everything as it was.
CompleteAnswer(p, d) ==
  /\ pc[p] = "idle"
  /\ Whole(files[d].pending)
  /\ LET s == sess[files[d].pending.of]
     IN /\ s.secret \in released
        /\ mem' = [mem EXCEPT ![p] = [dir |-> d, file |-> "record",
                                      n |-> None, rec |-> RecordOf(s)]]
  /\ Goto(p, "create")
  /\ UNCHANGED <<world, sess, released, made, files, written>>

\* Whether the file was still there or not, the command ends.
RemovePending(p) ==
  /\ pc[p] = "remove"
  /\ files' = [files EXCEPT ![mem[p].dir].pending = Absent]
  /\ Return(p)
  /\ UNCHANGED <<world, sess, released, made, written>>

-----------------------------------------------------------------------------
(***************************************************************************)
(* verify, with --emit-ak.                                                 *)
(***************************************************************************)
\* The signatures there may be: the Registration Signer signs what `complete`
\* wrote, every other key whatever it is given.
Signatures ==
  [by : RegistrationKeys, over : written]
    \union [by : OtherKeys, over : written \union Forgeries]

Container(certs, sid, signature) ==
  [alg |-> "sha256WithRSA", content |-> None, signers |-> 1,
   attributes |-> None, certs |-> certs, sid |-> sid, signature |-> signature]

Signed(rec) ==
  \E certs \in CertLists, sid \in Signers :
    \E signature \in Signatures :
      SignatureHolds(rec, Container(certs, sid, signature), ReleaseRoot, now)

\* `verify` with a root and a signature hands the AK out.
Verified(rec, root) == RecordHolds(rec, root) /\ Signed(rec)

-----------------------------------------------------------------------------
(***************************************************************************)
(* Around the registrar.                                                   *)
(***************************************************************************)
Tick ==
  /\ now < MaxTime
  /\ now' = now + 1
  /\ UNCHANGED <<revoked, lost, sess, released, pc, mem, made, files, written>>

Revoke(s) ==
  /\ revoked[s] = None
  /\ Cardinality({r \in Serials : revoked[r] # None}) < MaxRevoked
  /\ revoked' = [revoked EXCEPT ![s] = now]
  /\ UNCHANGED <<now, lost, sess, released, pc, mem, made, files, written>>

LoseAk(ak) ==
  /\ Home[ak] # None /\ lost[ak] = None
  /\ lost' = [lost EXCEPT ![ak] = now]
  /\ UNCHANGED <<now, revoked, sess, released, pc, mem, made, files, written>>

\* TPM2_ActivateCredential: a TPM releases the secret for an object of that
\* name it holds; whoever has an EK key outside a TPM just decrypts.
Activate(d) ==
  /\ Whole(files[d].blob)
  /\ LET b == sess[files[d].blob.of].blob
     IN /\ b.to \in TpmKeys =>
             \E ak \in Aks : Name(ak) = b.name /\ Home[ak] = b.to /\ lost[ak] = None
        /\ released' = released \union {b.secret}
  /\ UNCHANGED <<world, sess, pc, mem, made, files, written>>

\* A command is killed, or a system call of it fails.
Kill(p) ==
  /\ pc[p] # "idle"
  /\ Return(p)
  /\ UNCHANGED <<world, sess, released, made, files, written>>

Next ==
  \/ Tick
  \/ \E s \in Serials : Revoke(s)
  \/ \E ak \in Aks : LoseAk(ak)
  \/ \E d \in Dirs : Activate(d)
  \/ \E p \in Operators, d \in Dirs : BeginChecks(p, d) \/ CompleteAnswer(p, d)
  \/ \E p \in Operators : MakeDir(p) \/ Create(p) \/ Fill(p) \/ RemovePending(p) \/ Kill(p)

Spec == Init /\ [][Next]_vars

-----------------------------------------------------------------------------
(***************************************************************************)
(* Properties.                                                             *)
(***************************************************************************)
Files(S) == {Absent, Torn} \union {Holding(x) : x \in S}

\* The state has its shape: pending.json and cred.blob hold a drawn session,
\* record.json a record.
TypeOK ==
  /\ now \in Times
  /\ revoked \in [Serials -> Times \union {None}]
  /\ lost \in [Aks -> Times \union {None}]
  /\ Len(sess) <= MaxSessions
  /\ \A i \in DOMAIN sess : sess[i].checked <= now /\ sess[i].ak \in Aks
  /\ released \subseteq 1..MaxSessions
  /\ pc \in [Operators -> {"idle", "mkdir", "create", "fill", "remove"}]
  /\ \A p \in Operators : pc[p] # "idle" => mem[p].dir \in Dirs
  /\ made \subseteq Dirs
  /\ \A d \in Dirs :
       /\ DOMAIN files[d] = FileNames
       /\ files[d].pending \in Files(DOMAIN sess)
       /\ files[d].blob \in Files(DOMAIN sess)
       /\ files[d].record \in Files(written)
       /\ \A n \in FileNames : files[d][n] # Absent => d \in made

\* The AK of a record lived in the TPM of its EK certificate's key at the
\* chain check or after.
Resident(rec) ==
  \E ak \in Aks : /\ Name(ak) = rec.akName
                  /\ Home[ak] = rec.ek.key
                  /\ lost[ak] = None \/ lost[ak] >= rec.checked

\* DDR-005's statement of a record: `complete` writes one under the pinned
\* root only if the AK was in that TPM after the chain was checked, though
\* every secret is public once released and sessions run side by side.
RecordMeansResident ==
  \A rec \in written : rec.rootHash = Pinned => Resident(rec)

\* What `verify` hands out with a signature under the pinned root has been
\* registered, whatever records and signatures by other keys are offered
\* (signature.rs: a RIM signature does not pass for a registration one).
SignedMeansRegistered ==
  \A rec \in written \union Forgeries :
    Verified(rec, Pinned) => rec \in written /\ Resident(rec)

\* Whatever `complete` writes, `verify` accepts with the same root at any
\* later time: it judges the record at the recorded second, although `begin`
\* checked at a finer clock.
VerifyAgrees == \A rec \in written : RecordHolds(rec, rec.rootHash)

\* No record is about a certificate revoked before the window of its CRL that
\* the record states opens, and no window is older than a CRL's life when the
\* chain is checked: a revocation is missed for that long and no longer.
RevocationBounded ==
  \A rec \in written :
    \A x \in {<<rec.ek, rec.ekWindow>>, <<rec.int, rec.intWindow>>} :
      x[1].serial \in Serials /\ revoked[x[1].serial] # None =>
        /\ revoked[x[1].serial] >= x[2].this
        /\ revoked[x[1].serial] + CrlLife >= rec.checked

\* p has created record.json in d and not filled it yet.
Recording(p, d) == pc[p] = "fill" /\ mem[p].dir = d /\ mem[p].file = "record"

\* The challenge of d is answered, is being, or a `complete` with the secret
\* would find what it needs: pending.json, and no record.json in its way.
Answerable(d) ==
  \/ Whole(files[d].record)
  \/ /\ Whole(files[d].pending)
     /\ files[d].record = Absent \/ \E p \in Operators : Recording(p, d)

\* `complete` dies, or its write fails, after it created record.json and before
\* the file is whole.
CutShort(d) == \E p \in Operators : Recording(p, d) /\ Kill(p)

\* A challenge can be completed from when pending.json is whole, and the death
\* of a command in the middle of writing record.json is all that ends this,
\* whatever else is killed or runs beside it. That death does end it: what it
\* leaves of record.json makes create_new fail in every later `complete`,
\* until an operator deletes the file. pending.json is still there then: it
\* only goes once the record is whole.
ChallengeAnswerable ==
  [][\A d \in Dirs :
       /\ Whole(files[d].pending)' /\ ~Whole(files[d].pending) => Answerable(d)'
       /\ Answerable(d) => Answerable(d)' \/ CutShort(d)
       /\ Whole(files[d].pending) => Whole(files[d].pending)' \/ Whole(files[d].record)]_vars

\* A record that is whole in its directory is never rewritten or torn, by a
\* second `complete` or another `begin`.
RecordStands ==
  [][\A d \in Dirs :
       Whole(files[d].record) => files'[d].record = files[d].record]_vars
=============================================================================
