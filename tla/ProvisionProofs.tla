-------------------------- MODULE ProvisionProofs --------------------------
(***************************************************************************)
(* Proofs about Provision: its types, that only keys made here are         *)
(* recorded and signed with, that no key ever signs under two ids, and     *)
(* that a reported pair stands and is what envelopes are signed under, for *)
(* any number of commands, agents, ids and keys.                           *)
(***************************************************************************)
EXTENDS Provision, TLAPS

-----------------------------------------------------------------------------
(***************************************************************************)
(* The inductive invariant. The AK handle is what keeps commands apart:    *)
(* the TPM lets one key in, and whoever placed it is the only command that *)
(* writes files until the operator evicts the key, which takes an agent    *)
(* and commands at rest.                                                   *)
(***************************************************************************)
\* Commands that found nothing and have placed no key yet.
Before == {"handle", "create", "persist"}
\* The command that placed its key and has written no file.
Bare   == {"nv", "define", "increment", "public"}
\* The same, until there is an id.
NoId   == Bare \union {"write_public", "sync_public", "create_id", "write_id"}
\* The same, once ak.pub is written and its name is safe.
Named  == {"create_id", "write_id", "sync_id", "sync_id_dir", "report"}
Past   == NoId \union Named

Roles ==
  /\ \A p \in Procs : pc[p] \in {"idle", "inspect"} \union Before \union Past
  /\ \A a \in Agents : pc[a] \in {"idle", "verify_ak", "quote"}

\* Nothing of a foreign object is read or recorded, and keys are never reused.
KeysOwn ==
  /\ Foreign \notin durable["ak.pub"]
  /\ \A p \in Procs : public[p] # Foreign
  /\ \A pair \in attested : pair.key \in Keys /\ pair.key <= made
  /\ handle \in Keys => handle <= made
  /\ context \in Keys => context <= made

\* A command about to place its key finds no files and a key never signed with,
\* as long as the handle is free.
KeyIsNew ==
  \A p \in Procs :
    /\ pc[p] = "persist" => context \in Keys
    /\ pc[p] \in Before /\ handle = None => Neither
    /\ pc[p] = "persist" /\ handle = None => \A pair \in attested : pair.key # context

\* One command is past placing its key, and its key is there.
OneWriter ==
  /\ \A p \in Procs : pc[p] \in Past => handle \in Keys
  /\ \A p, q \in Procs : pc[p] \in Past /\ pc[q] \in Past => p = q

\* What that command has brought about, file by file.
PublicWritten ==
  \A p \in Procs :
    /\ pc[p] \in Bare => Neither
    /\ pc[p] = "write_public" => disk["ak.pub"] = Torn /\ public[p] = handle
    /\ pc[p] = "sync_public" => disk["ak.pub"] = handle
    /\ pc[p] \in Named => /\ disk["ak.pub"] = handle
                          /\ durable["ak.pub"] \subseteq {handle, Torn}

IdWritten ==
  \A p \in Procs :
    /\ pc[p] # "idle" => id[p] \in Ids
    /\ pc[p] \in {"write_public", "sync_public"} => disk["device_id"] = Absent
    /\ pc[p] = "create_id" => durable["device_id"] = {Absent}
    /\ pc[p] = "write_id" => /\ disk["device_id"] = Torn
                             /\ durable["device_id"] \subseteq {Absent, Torn}
    /\ pc[p] = "sync_id" => /\ disk["device_id"] = id[p]
                            /\ durable["device_id"] \subseteq {Absent, Torn, id[p]}
    /\ pc[p] = "sync_id_dir" => /\ disk["device_id"] = id[p]
                                /\ durable["device_id"] \subseteq {Absent, id[p]}
    /\ pc[p] = "report" => durable["device_id"] = {id[p]}

\* A power cut can bring back one id at most.
OneIdRecorded ==
  \A x, y \in durable["device_id"] \intersect Ids : x = y

\* Of what an agent has checked, nothing changes before it signs.
CheckedStays ==
  \A a \in Agents :
    /\ pc[a] \in {"verify_ak", "quote"} => id[a] \in Ids /\ disk["device_id"] = id[a]
    /\ pc[a] = "quote" => handle \in Keys /\ disk["ak.pub"] = handle

\* The key that has signed is tied to the one id there is.
SignedUnder ==
  \A pair \in attested :
    pair.key = handle =>
      /\ durable["device_id"] \intersect Ids \subseteq {pair.id}
      /\ \A p \in Procs : pc[p] \notin NoId

ReportedHeld ==
  /\ reported # {} => \A p \in Procs : pc[p] \notin Past
  /\ \A pair \in reported :
       /\ pair.key \in Keys /\ handle = pair.key
       /\ durable["device_id"] = {pair.id}
       /\ durable["ak.pub"] \subseteq {pair.key, Torn}

ProvisionInv ==
  /\ TypeOK /\ Roles /\ KeysOwn /\ KeyIsNew /\ OneWriter
  /\ PublicWritten /\ IdWritten /\ OneIdRecorded
  /\ CheckedStays /\ SignedUnder /\ KeyUnderOneId /\ ReportedHeld

\* A command that looks, and makes a key it has not placed, writes no file and
\* leaves the handle alone.
LEMMA LookingSteps ==
  ASSUME ProvisionInv
  PROVE  (\/ \E p \in Procs, given \in Ids : Invoke(p, given)
          \/ \E p \in Procs : Inspect(p)
          \/ \E p \in Procs : HandleFree(p)
          \/ \E p \in Procs : CreateKey(p)) => ProvisionInv'
<1> USE ProvisionAssumption DEF ProvisionInv, tpmVars, fileVars, history
<1>1. ASSUME NEW p \in Procs, NEW given \in Ids, Invoke(p, given)
      PROVE  ProvisionInv'
  <2>1. (TypeOK /\ Roles /\ KeysOwn /\ KeyIsNew)'
    BY <1>1 DEF Invoke, Goto, TypeOK, Roles, KeysOwn, KeyIsNew, Objects,
         Contents, Pairs, Labels, Keys, Files, Before, NoId, Bare, Named,
         Past, Neither
  <2>2. (OneWriter /\ PublicWritten /\ IdWritten /\ OneIdRecorded)'
    BY <1>1 DEF Invoke, Goto, TypeOK, OneWriter, PublicWritten, IdWritten,
         OneIdRecorded, Objects, Contents, Pairs, Labels, Keys, Files, NoId,
         Bare, Named, Past, Neither
  <2>3. (CheckedStays /\ SignedUnder /\ KeyUnderOneId /\ ReportedHeld)'
    BY <1>1 DEF Invoke, Goto, TypeOK, CheckedStays, SignedUnder,
         KeyUnderOneId, ReportedHeld, Objects, Contents, Pairs, Labels, Keys,
         Files, NoId, Bare, Named, Past
  <2> QED
    BY <2>1, <2>2, <2>3
<1>2. ASSUME NEW p \in Procs, Inspect(p)
      PROVE  ProvisionInv'
  <2>1. (TypeOK /\ Roles /\ KeysOwn /\ KeyIsNew)'
    BY <1>2 DEF Inspect, Goto, End, Stays, Neither, TypeOK, Roles, KeysOwn,
         KeyIsNew, Objects, Contents, Pairs, Labels, Keys, Files, Before,
         NoId, Bare, Named, Past
  <2>2. (OneWriter /\ PublicWritten /\ IdWritten /\ OneIdRecorded)'
    BY <1>2 DEF Inspect, Goto, End, Stays, Neither, TypeOK, OneWriter,
         PublicWritten, IdWritten, OneIdRecorded, Objects, Contents, Pairs,
         Labels, Keys, Files, NoId, Bare, Named, Past
  <2>3. (CheckedStays /\ SignedUnder /\ KeyUnderOneId /\ ReportedHeld)'
    BY <1>2 DEF Inspect, Goto, End, Stays, Neither, TypeOK, CheckedStays,
         SignedUnder, KeyUnderOneId, ReportedHeld, Objects, Contents, Pairs,
         Labels, Keys, Files, NoId, Bare, Named, Past
  <2> QED
    BY <2>1, <2>2, <2>3
<1>3. ASSUME NEW p \in Procs, HandleFree(p)
      PROVE  ProvisionInv'
  <2>1. (TypeOK /\ Roles /\ KeysOwn /\ KeyIsNew)'
    BY <1>3 DEF HandleFree, Goto, End, Stays, TypeOK, Roles, KeysOwn,
         KeyIsNew, Objects, Contents, Pairs, Labels, Keys, Files, Before,
         NoId, Bare, Named, Past, Neither
  <2>2. (OneWriter /\ PublicWritten /\ IdWritten /\ OneIdRecorded)'
    BY <1>3 DEF HandleFree, Goto, End, Stays, TypeOK, OneWriter,
         PublicWritten, IdWritten, OneIdRecorded, Objects, Contents, Pairs,
         Labels, Keys, Files, NoId, Bare, Named, Past, Neither
  <2>3. (CheckedStays /\ SignedUnder /\ KeyUnderOneId /\ ReportedHeld)'
    BY <1>3 DEF HandleFree, Goto, End, Stays, TypeOK, CheckedStays,
         SignedUnder, KeyUnderOneId, ReportedHeld, Objects, Contents, Pairs,
         Labels, Keys, Files, NoId, Bare, Named, Past
  <2> QED
    BY <2>1, <2>2, <2>3
<1>4. ASSUME NEW p \in Procs, CreateKey(p)
      PROVE  ProvisionInv'
  <2>1. (TypeOK /\ Roles /\ KeysOwn /\ OneWriter)'
    BY <1>4 DEF CreateKey, Goto, Stays, TypeOK, Roles, KeysOwn, OneWriter,
         Objects, Contents, Pairs, Labels, Keys, Files, Before, NoId, Bare,
         Named, Past
  <2>2. (PublicWritten /\ IdWritten /\ OneIdRecorded /\ CheckedStays)'
    BY <1>4 DEF CreateKey, Goto, Stays, TypeOK, PublicWritten, IdWritten,
         OneIdRecorded, CheckedStays, Objects, Contents, Pairs, Labels, Keys,
         Files, Bare, Named, Neither
  <2>3. (SignedUnder /\ KeyUnderOneId /\ ReportedHeld)'
    BY <1>4 DEF CreateKey, Goto, Stays, TypeOK, SignedUnder, KeyUnderOneId,
         ReportedHeld, Objects, Contents, Pairs, Labels, Keys, Files, NoId,
         Bare, Named, Past
  <2>4. KeyIsNew'
    BY <1>4 DEF CreateKey, Goto, Stays, TypeOK, KeysOwn, KeyIsNew, Objects,
         Contents, Pairs, Labels, Keys, Files, Before, Neither
  <2> QED
    BY <2>1, <2>2, <2>3, <2>4
<1> QED
  BY <1>1, <1>2, <1>3, <1>4

\* The key is placed at a free handle, and the epoch counter readied.
LEMMA KeySteps ==
  ASSUME ProvisionInv
  PROVE  (\/ \E p \in Procs : Persist(p)
          \/ \E p \in Procs : NvDefined(p)
          \/ \E p \in Procs : NvDefine(p)
          \/ \E p \in Procs : NvIncrement(p)) => ProvisionInv'
<1> USE ProvisionAssumption DEF ProvisionInv, tpmVars, fileVars, history
<1>1. ASSUME NEW p \in Procs, Persist(p)
      PROVE  ProvisionInv'
  <2>1. (TypeOK /\ Roles /\ KeysOwn /\ KeyIsNew /\ IdWritten)'
    BY <1>1 DEF Persist, Goto, End, Stays, TypeOK, Roles, KeysOwn, KeyIsNew,
         IdWritten, Objects, Contents, Pairs, Labels, Keys, Files, Before,
         NoId, Bare, Named, Past, Neither
  <2>2. (OneIdRecorded /\ CheckedStays /\ KeyUnderOneId /\ ReportedHeld)'
    BY <1>1 DEF Persist, Goto, End, Stays, TypeOK, OneIdRecorded,
         CheckedStays, KeyUnderOneId, ReportedHeld, Objects, Contents, Pairs,
         Labels, Keys, Files, NoId, Bare, Named, Past
  <2>3. OneWriter'
    BY <1>1 DEF Persist, Goto, End, Stays, TypeOK, KeyIsNew, OneWriter,
         Objects, Contents, Pairs, Labels, Keys, Files, Before, Neither, NoId,
         Bare, Named, Past
  <2>4. PublicWritten'
    BY <1>1 DEF Persist, Goto, End, Stays, TypeOK, KeyIsNew, PublicWritten,
         Objects, Contents, Pairs, Labels, Keys, Files, Before, Neither, Bare,
         Named
  <2>5. SignedUnder'
    BY <1>1 DEF Persist, Goto, End, Stays, TypeOK, KeyIsNew, SignedUnder,
         Objects, Contents, Pairs, Labels, Keys, Files, Before, Neither, NoId,
         Bare
  <2> QED
    BY <2>1, <2>2, <2>3, <2>4, <2>5
<1>2. ASSUME NEW p \in Procs, NvDefined(p)
      PROVE  ProvisionInv'
  <2>1. (TypeOK /\ Roles /\ KeysOwn /\ KeyIsNew)'
    BY <1>2 DEF NvDefined, Goto, Stays, TypeOK, Roles, KeysOwn, KeyIsNew,
         Objects, Contents, Pairs, Labels, Keys, Files, Before, NoId, Bare,
         Named, Past, Neither
  <2>2. (OneWriter /\ PublicWritten /\ IdWritten /\ OneIdRecorded)'
    BY <1>2 DEF NvDefined, Goto, Stays, TypeOK, OneWriter, PublicWritten,
         IdWritten, OneIdRecorded, Objects, Contents, Pairs, Labels, Keys,
         Files, NoId, Bare, Named, Past, Neither
  <2>3. (CheckedStays /\ SignedUnder /\ KeyUnderOneId /\ ReportedHeld)'
    BY <1>2 DEF NvDefined, Goto, Stays, TypeOK, CheckedStays, SignedUnder,
         KeyUnderOneId, ReportedHeld, Objects, Contents, Pairs, Labels, Keys,
         Files, NoId, Bare, Named, Past
  <2> QED
    BY <2>1, <2>2, <2>3
<1>3. ASSUME NEW p \in Procs, NvDefine(p)
      PROVE  ProvisionInv'
  <2>1. (TypeOK /\ Roles /\ KeysOwn /\ KeyIsNew)'
    BY <1>3 DEF NvDefine, Goto, End, Stays, TypeOK, Roles, KeysOwn, KeyIsNew,
         Objects, Contents, Pairs, Labels, Keys, Files, Before, NoId, Bare,
         Named, Past, Neither
  <2>2. (OneWriter /\ PublicWritten /\ IdWritten /\ OneIdRecorded)'
    BY <1>3 DEF NvDefine, Goto, End, Stays, TypeOK, OneWriter, PublicWritten,
         IdWritten, OneIdRecorded, Objects, Contents, Pairs, Labels, Keys,
         Files, NoId, Bare, Named, Past, Neither
  <2>3. (CheckedStays /\ SignedUnder /\ KeyUnderOneId /\ ReportedHeld)'
    BY <1>3 DEF NvDefine, Goto, End, Stays, TypeOK, CheckedStays, SignedUnder,
         KeyUnderOneId, ReportedHeld, Objects, Contents, Pairs, Labels, Keys,
         Files, NoId, Bare, Named, Past
  <2> QED
    BY <2>1, <2>2, <2>3
<1>4. ASSUME NEW p \in Procs, NvIncrement(p)
      PROVE  ProvisionInv'
  <2>1. (TypeOK /\ Roles /\ KeysOwn /\ KeyIsNew)'
    BY <1>4 DEF NvIncrement, Goto, Stays, TypeOK, Roles, KeysOwn, KeyIsNew,
         Objects, Contents, Pairs, Labels, Keys, Files, Before, NoId, Bare,
         Named, Past, Neither
  <2>2. (OneWriter /\ PublicWritten /\ IdWritten /\ OneIdRecorded)'
    BY <1>4 DEF NvIncrement, Goto, Stays, TypeOK, OneWriter, PublicWritten,
         IdWritten, OneIdRecorded, Objects, Contents, Pairs, Labels, Keys,
         Files, NoId, Bare, Named, Past, Neither
  <2>3. (CheckedStays /\ SignedUnder /\ KeyUnderOneId /\ ReportedHeld)'
    BY <1>4 DEF NvIncrement, Goto, Stays, TypeOK, CheckedStays, SignedUnder,
         KeyUnderOneId, ReportedHeld, Objects, Contents, Pairs, Labels, Keys,
         Files, NoId, Bare, Named, Past
  <2> QED
    BY <2>1, <2>2, <2>3
<1> QED
  BY <1>1, <1>2, <1>3, <1>4

\* ak.pub is written.
LEMMA PublicSteps ==
  ASSUME ProvisionInv
  PROVE  (\/ \E p \in Procs : ReadPublic(p)
          \/ \E p \in Procs : WritePublic(p)
          \/ \E p \in Procs : SyncPublic(p)) => ProvisionInv'
<1> USE ProvisionAssumption DEF ProvisionInv, tpmVars, fileVars, history
<1>1. ASSUME NEW p \in Procs, ReadPublic(p)
      PROVE  ProvisionInv'
  <2>1. (TypeOK /\ Roles /\ KeyIsNew /\ OneWriter)'
    BY <1>1 DEF ReadPublic, Goto, Open, TypeOK, Roles, KeyIsNew, OneWriter,
         Objects, Contents, Pairs, Labels, Keys, Files, Before, NoId, Bare,
         Named, Past, Neither
  <2>2. (OneIdRecorded /\ SignedUnder /\ KeyUnderOneId /\ ReportedHeld)'
    BY <1>1 DEF ReadPublic, Goto, Open, TypeOK, OneIdRecorded, SignedUnder,
         KeyUnderOneId, ReportedHeld, Objects, Contents, Pairs, Labels, Keys,
         Files, NoId, Bare, Named, Past
  <2>3. KeysOwn'
    BY <1>1 DEF ReadPublic, Goto, Open, OneWriter, KeysOwn, NoId, Bare, Named,
         Past, Keys, Files
  <2>4. PublicWritten'
    BY <1>1 DEF ReadPublic, Goto, Open, TypeOK, OneWriter, PublicWritten,
         Objects, Contents, Pairs, Labels, Keys, Files, NoId, Bare, Named,
         Past, Neither
  <2>5. IdWritten'
    BY <1>1 DEF ReadPublic, Goto, Open, PublicWritten, IdWritten, Bare, Named,
         Neither, Keys, Files
  <2>6. CheckedStays'
    BY <1>1 DEF ReadPublic, Goto, Open, PublicWritten, CheckedStays, Bare,
         Named, Neither, Keys, Files
  <2> QED
    BY <2>1, <2>2, <2>3, <2>4, <2>5, <2>6
<1>2. ASSUME NEW p \in Procs, WritePublic(p)
      PROVE  ProvisionInv'
  <2>1. (Roles /\ KeysOwn /\ OneWriter /\ IdWritten)'
    BY <1>2 DEF WritePublic, Goto, Stays, Fill, TypeOK, Roles, KeysOwn,
         OneWriter, IdWritten, Objects, Contents, Pairs, Labels, Keys, Files,
         Before, NoId, Bare, Named, Past
  <2>2. (OneIdRecorded /\ SignedUnder /\ KeyUnderOneId /\ ReportedHeld)'
    BY <1>2 DEF WritePublic, Goto, Stays, Fill, TypeOK, OneIdRecorded,
         SignedUnder, KeyUnderOneId, ReportedHeld, Objects, Contents, Pairs,
         Labels, Keys, Files, NoId, Bare, Named, Past
  <2>3. TypeOK'
    BY <1>2 DEF WritePublic, Goto, Stays, Fill, OneWriter, PublicWritten,
         TypeOK, NoId, Bare, Named, Past, Neither, Objects, Contents, Pairs,
         Labels, Keys, Files
  <2>4. KeyIsNew'
    BY <1>2 DEF WritePublic, Goto, Stays, Fill, PublicWritten, KeyIsNew, Bare,
         Named, Neither, Before, Keys, Files
  <2>5. PublicWritten'
    BY <1>2 DEF WritePublic, Goto, Stays, Fill, TypeOK, OneWriter,
         PublicWritten, Objects, Contents, Pairs, Labels, Keys, Files, NoId,
         Bare, Named, Past, Neither
  <2>6. CheckedStays'
    BY <1>2 DEF WritePublic, Goto, Stays, Fill, IdWritten, CheckedStays, Keys,
         Files
  <2> QED
    BY <2>1, <2>2, <2>3, <2>4, <2>5, <2>6
<1>3. ASSUME NEW p \in Procs, SyncPublic(p)
      PROVE  ProvisionInv'
  <2>1. (TypeOK /\ Roles /\ KeyIsNew /\ OneWriter /\ PublicWritten)'
    BY <1>3 DEF SyncPublic, Goto, Stays, SyncDir, TypeOK, Roles, KeyIsNew,
         OneWriter, PublicWritten, Objects, Contents, Pairs, Labels, Keys,
         Files, Before, NoId, Bare, Named, Past, Neither
  <2>2. (OneIdRecorded /\ CheckedStays /\ SignedUnder /\ KeyUnderOneId /\ ReportedHeld)'
    BY <1>3 DEF SyncPublic, Goto, Stays, SyncDir, TypeOK, OneIdRecorded,
         CheckedStays, SignedUnder, KeyUnderOneId, ReportedHeld, Objects,
         Contents, Pairs, Labels, Keys, Files, NoId, Bare, Named, Past
  <2>3. KeysOwn'
    BY <1>3 DEF SyncPublic, Goto, Stays, SyncDir, OneWriter, PublicWritten,
         KeysOwn, NoId, Bare, Named, Past, Neither, Keys, Files
  <2>4. IdWritten'
    BY <1>3 DEF SyncPublic, Goto, Stays, SyncDir, OneWriter, IdWritten, NoId,
         Bare, Named, Past, Keys, Files
  <2> QED
    BY <2>1, <2>2, <2>3, <2>4
<1> QED
  BY <1>1, <1>2, <1>3

\* device_id is written, and the pair reported.
LEMMA IdSteps ==
  ASSUME ProvisionInv
  PROVE  (\/ \E p \in Procs : CreateId(p)
          \/ \E p \in Procs : WriteId(p)
          \/ \E p \in Procs : SyncId(p)
          \/ \E p \in Procs : SyncIdDir(p)
          \/ \E p \in Procs : Report(p)) => ProvisionInv'
<1> USE ProvisionAssumption DEF ProvisionInv, tpmVars, fileVars, history
<1>1. ASSUME NEW p \in Procs, CreateId(p)
      PROVE  ProvisionInv'
  <2>1. (TypeOK /\ Roles /\ KeysOwn /\ OneWriter /\ PublicWritten)'
    BY <1>1 DEF CreateId, Goto, End, Stays, Open, TypeOK, Roles, KeysOwn,
         OneWriter, PublicWritten, Objects, Contents, Pairs, Labels, Keys,
         Files, Before, NoId, Bare, Named, Past, Neither
  <2>2. (OneIdRecorded /\ CheckedStays /\ SignedUnder /\ KeyUnderOneId /\ ReportedHeld)'
    BY <1>1 DEF CreateId, Goto, End, Stays, Open, TypeOK, OneIdRecorded,
         CheckedStays, SignedUnder, KeyUnderOneId, ReportedHeld, Objects,
         Contents, Pairs, Labels, Keys, Files, NoId, Bare, Named, Past
  <2>3. KeyIsNew'
    BY <1>1 DEF CreateId, Goto, End, Stays, Open, TypeOK, PublicWritten,
         KeyIsNew, Objects, Contents, Pairs, Labels, Keys, Files, Bare, Named,
         Neither, Before
  <2>4. IdWritten'
    BY <1>1 DEF CreateId, Goto, End, Stays, Open, TypeOK, OneWriter,
         IdWritten, Objects, Contents, Pairs, Labels, Keys, Files, NoId, Bare,
         Named, Past
  <2> QED
    BY <2>1, <2>2, <2>3, <2>4
<1>2. ASSUME NEW p \in Procs, WriteId(p)
      PROVE  ProvisionInv'
  <2>1. (Roles /\ KeysOwn /\ OneWriter)'
    BY <1>2 DEF WriteId, Goto, Stays, Fill, TypeOK, Roles, KeysOwn, OneWriter,
         Objects, Contents, Pairs, Labels, Keys, Files, Before, NoId, Bare,
         Named, Past
  <2>2. (SignedUnder /\ KeyUnderOneId /\ ReportedHeld)'
    BY <1>2 DEF WriteId, Goto, Stays, Fill, TypeOK, SignedUnder,
         KeyUnderOneId, ReportedHeld, Objects, Contents, Pairs, Labels, Keys,
         Files, NoId, Bare, Named, Past
  <2>3. TypeOK'
    BY <1>2 DEF WriteId, Goto, Stays, Fill, IdWritten, TypeOK, Objects,
         Contents, Pairs, Labels, Keys, Files
  <2>4. KeyIsNew'
    BY <1>2 DEF WriteId, Goto, Stays, Fill, IdWritten, KeyIsNew, Before,
         Neither, Keys, Files
  <2>5. PublicWritten'
    BY <1>2 DEF WriteId, Goto, Stays, Fill, IdWritten, PublicWritten, Bare,
         Named, Neither, Keys, Files
  <2>6. IdWritten'
    BY <1>2 DEF WriteId, Goto, Stays, Fill, TypeOK, OneWriter, IdWritten,
         Objects, Contents, Pairs, Labels, Keys, Files, NoId, Bare, Named,
         Past
  <2>7. OneIdRecorded'
    BY <1>2 DEF WriteId, Goto, Stays, Fill, IdWritten, OneIdRecorded, Keys,
         Files
  <2>8. CheckedStays'
    BY <1>2 DEF WriteId, Goto, Stays, Fill, IdWritten, CheckedStays, Keys,
         Files
  <2> QED
    BY <2>1, <2>2, <2>3, <2>4, <2>5, <2>6, <2>7, <2>8
<1>3. ASSUME NEW p \in Procs, SyncId(p)
      PROVE  ProvisionInv'
  <2>1. (Roles /\ KeysOwn /\ KeyIsNew /\ OneWriter)'
    BY <1>3 DEF SyncId, Goto, Stays, SyncFile, TypeOK, Roles, KeysOwn,
         KeyIsNew, OneWriter, Objects, Contents, Pairs, Labels, Keys, Files,
         Before, NoId, Bare, Named, Past, Neither
  <2>2. (PublicWritten /\ IdWritten /\ OneIdRecorded /\ CheckedStays)'
    BY <1>3 DEF SyncId, Goto, Stays, SyncFile, TypeOK, PublicWritten,
         IdWritten, OneIdRecorded, CheckedStays, Objects, Contents, Pairs,
         Labels, Keys, Files, Bare, Named, Neither
  <2>3. (SignedUnder /\ KeyUnderOneId /\ ReportedHeld)'
    BY <1>3 DEF SyncId, Goto, Stays, SyncFile, TypeOK, SignedUnder,
         KeyUnderOneId, ReportedHeld, Objects, Contents, Pairs, Labels, Keys,
         Files, NoId, Bare, Named, Past
  <2>4. TypeOK'
    BY <1>3 DEF SyncId, Goto, Stays, SyncFile, IdWritten, TypeOK, Objects,
         Contents, Pairs, Labels, Keys, Files
  <2> QED
    BY <2>1, <2>2, <2>3, <2>4
<1>4. ASSUME NEW p \in Procs, SyncIdDir(p)
      PROVE  ProvisionInv'
  <2>1. (TypeOK /\ Roles /\ KeyIsNew /\ OneWriter /\ PublicWritten)'
    BY <1>4 DEF SyncIdDir, Goto, Stays, SyncDir, TypeOK, Roles, KeyIsNew,
         OneWriter, PublicWritten, Objects, Contents, Pairs, Labels, Keys,
         Files, Before, NoId, Bare, Named, Past, Neither
  <2>2. (OneIdRecorded /\ CheckedStays /\ SignedUnder /\ KeyUnderOneId /\ ReportedHeld)'
    BY <1>4 DEF SyncIdDir, Goto, Stays, SyncDir, TypeOK, OneIdRecorded,
         CheckedStays, SignedUnder, KeyUnderOneId, ReportedHeld, Objects,
         Contents, Pairs, Labels, Keys, Files, NoId, Bare, Named, Past
  <2>3. KeysOwn'
    BY <1>4 DEF SyncIdDir, Goto, Stays, SyncDir, OneWriter, PublicWritten,
         KeysOwn, NoId, Bare, Named, Past, Neither, Keys, Files
  <2>4. IdWritten'
    BY <1>4 DEF SyncIdDir, Goto, Stays, SyncDir, OneWriter, IdWritten, NoId,
         Bare, Named, Past, Keys, Files
  <2> QED
    BY <2>1, <2>2, <2>3, <2>4
<1>5. ASSUME NEW p \in Procs, Report(p)
      PROVE  ProvisionInv'
  <2>1. (Roles /\ KeysOwn /\ KeyIsNew /\ OneWriter /\ PublicWritten)'
    BY <1>5 DEF Report, End, Goto, TypeOK, Roles, KeysOwn, KeyIsNew,
         OneWriter, PublicWritten, Objects, Contents, Pairs, Labels, Keys,
         Files, Before, NoId, Bare, Named, Past, Neither
  <2>2. (IdWritten /\ OneIdRecorded /\ CheckedStays /\ SignedUnder /\ KeyUnderOneId)'
    BY <1>5 DEF Report, End, Goto, TypeOK, IdWritten, OneIdRecorded,
         CheckedStays, SignedUnder, KeyUnderOneId, Objects, Contents, Pairs,
         Labels, Keys, Files, NoId, Bare
  <2>3. TypeOK'
    BY <1>5 DEF Report, End, Goto, PublicWritten, IdWritten, TypeOK, Bare,
         Named, Neither, Objects, Contents, Pairs, Labels, Keys, Files
  <2>4. ReportedHeld'
    BY <1>5 DEF Report, End, Goto, TypeOK, OneWriter, PublicWritten,
         IdWritten, ReportedHeld, Objects, Contents, Pairs, Labels, Keys,
         Files, NoId, Bare, Named, Past, Neither
  <2> QED
    BY <2>1, <2>2, <2>3, <2>4
<1> QED
  BY <1>1, <1>2, <1>3, <1>4, <1>5

\* An agent reads the id, compares the keys, and signs.
LEMMA AgentSteps ==
  ASSUME ProvisionInv
  PROVE  (\/ \E p \in Agents : ReadIdentity(p)
          \/ \E p \in Agents : VerifyAk(p)
          \/ \E p \in Agents : SignEnvelope(p)) => ProvisionInv'
<1> USE ProvisionAssumption DEF ProvisionInv, tpmVars, fileVars, history
<1>1. ASSUME NEW p \in Agents, ReadIdentity(p)
      PROVE  ProvisionInv'
  <2>1. (TypeOK /\ Roles /\ KeysOwn /\ KeyIsNew)'
    BY <1>1 DEF ReadIdentity, Goto, Complete, TypeOK, Roles, KeysOwn,
         KeyIsNew, Objects, Contents, Pairs, Labels, Keys, Files, Before,
         NoId, Bare, Named, Past, Neither
  <2>2. (OneWriter /\ PublicWritten /\ IdWritten /\ OneIdRecorded)'
    BY <1>1 DEF ReadIdentity, Goto, Complete, TypeOK, OneWriter,
         PublicWritten, IdWritten, OneIdRecorded, Objects, Contents, Pairs,
         Labels, Keys, Files, NoId, Bare, Named, Past, Neither
  <2>3. (CheckedStays /\ SignedUnder /\ KeyUnderOneId /\ ReportedHeld)'
    BY <1>1 DEF ReadIdentity, Goto, Complete, TypeOK, CheckedStays,
         SignedUnder, KeyUnderOneId, ReportedHeld, Objects, Contents, Pairs,
         Labels, Keys, Files, NoId, Bare, Named, Past
  <2> QED
    BY <2>1, <2>2, <2>3
<1>2. ASSUME NEW p \in Agents, VerifyAk(p)
      PROVE  ProvisionInv'
  <2>1. (TypeOK /\ Roles /\ KeysOwn /\ KeyIsNew)'
    BY <1>2 DEF VerifyAk, Goto, End, Stays, TypeOK, Roles, KeysOwn, KeyIsNew,
         Objects, Contents, Pairs, Labels, Keys, Files, Before, NoId, Bare,
         Named, Past, Neither
  <2>2. (OneWriter /\ PublicWritten /\ IdWritten /\ OneIdRecorded)'
    BY <1>2 DEF VerifyAk, Goto, End, Stays, TypeOK, OneWriter, PublicWritten,
         IdWritten, OneIdRecorded, Objects, Contents, Pairs, Labels, Keys,
         Files, NoId, Bare, Named, Past, Neither
  <2>3. (SignedUnder /\ KeyUnderOneId /\ ReportedHeld)'
    BY <1>2 DEF VerifyAk, Goto, End, Stays, TypeOK, SignedUnder,
         KeyUnderOneId, ReportedHeld, Objects, Contents, Pairs, Labels, Keys,
         Files, NoId, Bare, Named, Past
  <2>4. CheckedStays'
    BY <1>2 DEF VerifyAk, Goto, End, Stays, TypeOK, KeysOwn, CheckedStays,
         Objects, Contents, Pairs, Labels, Keys, Files
  <2> QED
    BY <2>1, <2>2, <2>3, <2>4
<1>3. ASSUME NEW p \in Agents, SignEnvelope(p)
      PROVE  ProvisionInv'
  <2>1. (Roles /\ KeyIsNew /\ OneWriter /\ PublicWritten)'
    BY <1>3 DEF SignEnvelope, End, Goto, TypeOK, Roles, KeyIsNew, OneWriter,
         PublicWritten, Objects, Contents, Pairs, Labels, Keys, Files, Before,
         NoId, Bare, Named, Past, Neither
  <2>2. (IdWritten /\ OneIdRecorded /\ CheckedStays /\ ReportedHeld)'
    BY <1>3 DEF SignEnvelope, End, Goto, TypeOK, IdWritten, OneIdRecorded,
         CheckedStays, ReportedHeld, Objects, Contents, Pairs, Labels, Keys,
         Files, NoId, Bare, Named, Past
  <2>3. TypeOK'
    BY <1>3 DEF SignEnvelope, End, Goto, CheckedStays, TypeOK, Keys, Objects,
         Contents, Pairs, Labels, Files
  <2>4. KeysOwn'
    BY <1>3 DEF SignEnvelope, End, Goto, CheckedStays, KeysOwn, Keys, Files
  <2>5. SignedUnder'
    BY <1>3 DEF SignEnvelope, End, Goto, TypeOK, PublicWritten, IdWritten,
         OneIdRecorded, CheckedStays, SignedUnder, Objects, Contents, Pairs,
         Labels, Keys, Files, Bare, Named, Neither, NoId
  <2>6. KeyUnderOneId'
    BY <1>3 DEF SignEnvelope, End, Goto, TypeOK, CheckedStays, SignedUnder,
         KeyUnderOneId, Objects, Contents, Pairs, Labels, Keys, Files, NoId,
         Bare
  <2> QED
    BY <2>1, <2>2, <2>3, <2>4, <2>5, <2>6
<1> QED
  BY <1>1, <1>2, <1>3

\* What else happens to the device.
LEMMA WorldSteps ==
  ASSUME ProvisionInv
  PROVE  (\/ \E p \in Procs \union Agents : Die(p)
          \/ PowerCut
          \/ \E f \in Files : ClearFile(f)
          \/ Evict
          \/ Occupy) => ProvisionInv'
<1> USE ProvisionAssumption DEF ProvisionInv, tpmVars, fileVars, history
<1>1. ASSUME NEW p \in Procs \union Agents, Die(p)
      PROVE  ProvisionInv'
  <2>1. (TypeOK /\ Roles /\ KeysOwn /\ KeyIsNew)'
    BY <1>1 DEF Die, End, Goto, TypeOK, Roles, KeysOwn, KeyIsNew, Objects,
         Contents, Pairs, Labels, Keys, Files, Before, NoId, Bare, Named,
         Past, Neither
  <2>2. (OneWriter /\ PublicWritten /\ IdWritten /\ OneIdRecorded)'
    BY <1>1 DEF Die, End, Goto, TypeOK, OneWriter, PublicWritten, IdWritten,
         OneIdRecorded, Objects, Contents, Pairs, Labels, Keys, Files, NoId,
         Bare, Named, Past, Neither
  <2>3. (CheckedStays /\ SignedUnder /\ KeyUnderOneId /\ ReportedHeld)'
    BY <1>1 DEF Die, End, Goto, TypeOK, CheckedStays, SignedUnder,
         KeyUnderOneId, ReportedHeld, Objects, Contents, Pairs, Labels, Keys,
         Files, NoId, Bare, Named, Past
  <2> QED
    BY <2>1, <2>2, <2>3
<1>2. ASSUME PowerCut
      PROVE  ProvisionInv'
  <2>1. (TypeOK /\ Roles /\ KeysOwn /\ KeyIsNew)'
    BY <1>2 DEF PowerCut, TypeOK, Roles, KeysOwn, KeyIsNew, Objects, Contents,
         Pairs, Labels, Keys, Files, Before, NoId, Bare, Named, Past, Neither
  <2>2. (OneWriter /\ PublicWritten /\ IdWritten /\ OneIdRecorded)'
    BY <1>2 DEF PowerCut, TypeOK, OneWriter, PublicWritten, IdWritten,
         OneIdRecorded, Objects, Contents, Pairs, Labels, Keys, Files, NoId,
         Bare, Named, Past, Neither
  <2>3. (CheckedStays /\ SignedUnder /\ KeyUnderOneId /\ ReportedHeld)'
    BY <1>2 DEF PowerCut, TypeOK, CheckedStays, SignedUnder, KeyUnderOneId,
         ReportedHeld, Objects, Contents, Pairs, Labels, Keys, Files, NoId,
         Bare, Named, Past
  <2> QED
    BY <2>1, <2>2, <2>3
<1>3. ASSUME NEW f \in Files, ClearFile(f)
      PROVE  ProvisionInv'
  <2>1. (TypeOK /\ Roles /\ KeysOwn /\ KeyIsNew)'
    BY <1>3 DEF ClearFile, Deliberate, TypeOK, Roles, KeysOwn, KeyIsNew,
         Objects, Contents, Pairs, Labels, Keys, Files, Before, NoId, Bare,
         Named, Past, Neither
  <2>2. (OneWriter /\ PublicWritten /\ IdWritten /\ OneIdRecorded)'
    BY <1>3 DEF ClearFile, Deliberate, TypeOK, OneWriter, PublicWritten,
         IdWritten, OneIdRecorded, Objects, Contents, Pairs, Labels, Keys,
         Files, NoId, Bare, Named, Past, Neither
  <2>3. (CheckedStays /\ SignedUnder /\ KeyUnderOneId /\ ReportedHeld)'
    BY <1>3 DEF ClearFile, Deliberate, TypeOK, CheckedStays, SignedUnder,
         KeyUnderOneId, ReportedHeld, Objects, Contents, Pairs, Labels, Keys,
         Files, NoId, Bare, Named, Past
  <2> QED
    BY <2>1, <2>2, <2>3
<1>4. ASSUME Evict
      PROVE  ProvisionInv'
  <2>1. (TypeOK /\ Roles /\ KeysOwn /\ KeyIsNew)'
    BY <1>4 DEF Evict, Deliberate, TypeOK, Roles, KeysOwn, KeyIsNew, Objects,
         Contents, Pairs, Labels, Keys, Files, Before, NoId, Bare, Named,
         Past, Neither
  <2>2. (OneWriter /\ PublicWritten /\ IdWritten /\ OneIdRecorded)'
    BY <1>4 DEF Evict, Deliberate, TypeOK, OneWriter, PublicWritten,
         IdWritten, OneIdRecorded, Objects, Contents, Pairs, Labels, Keys,
         Files, NoId, Bare, Named, Past, Neither
  <2>3. (CheckedStays /\ KeyUnderOneId /\ ReportedHeld)'
    BY <1>4 DEF Evict, Deliberate, TypeOK, CheckedStays, KeyUnderOneId,
         ReportedHeld, Objects, Contents, Pairs, Labels, Keys, Files, NoId,
         Bare, Named, Past
  <2>4. SignedUnder'
    BY <1>4 DEF Evict, Deliberate, KeysOwn, SignedUnder, Keys, Files, NoId,
         Bare
  <2> QED
    BY <2>1, <2>2, <2>3, <2>4
<1>5. ASSUME Occupy
      PROVE  ProvisionInv'
  <2>1. (TypeOK /\ Roles /\ KeysOwn /\ KeyIsNew /\ OneWriter)'
    BY <1>5 DEF Occupy, TypeOK, Roles, KeysOwn, KeyIsNew, OneWriter, Objects,
         Contents, Pairs, Labels, Keys, Files, Before, NoId, Bare, Named,
         Past, Neither
  <2>2. (IdWritten /\ OneIdRecorded /\ CheckedStays /\ KeyUnderOneId /\ ReportedHeld)'
    BY <1>5 DEF Occupy, TypeOK, IdWritten, OneIdRecorded, CheckedStays,
         KeyUnderOneId, ReportedHeld, Objects, Contents, Pairs, Labels, Keys,
         Files, NoId, Bare, Named, Past
  <2>3. PublicWritten'
    BY <1>5 DEF Occupy, OneWriter, PublicWritten, NoId, Bare, Named, Past,
         Neither, Keys, Files
  <2>4. SignedUnder'
    BY <1>5 DEF Occupy, KeysOwn, SignedUnder, Keys, Files, NoId, Bare
  <2> QED
    BY <2>1, <2>2, <2>3, <2>4
<1> QED
  BY <1>1, <1>2, <1>3, <1>4, <1>5

LEMMA ProvisionInvInit == Init => ProvisionInv
<1> SUFFICES ASSUME Init
             PROVE  ProvisionInv
  OBVIOUS
<1> USE ProvisionAssumption DEF Init
<1>1. TypeOK /\ Roles /\ KeysOwn
  BY DEF TypeOK, Objects, Contents, Pairs, Labels, Keys, Files, Roles, KeysOwn
<1>2. KeyIsNew /\ OneWriter /\ PublicWritten /\ IdWritten
  BY DEF KeyIsNew, OneWriter, PublicWritten, IdWritten, Before, NoId, Bare, Named, Past
<1>3. OneIdRecorded /\ CheckedStays /\ SignedUnder /\ KeyUnderOneId /\ ReportedHeld
  BY DEF OneIdRecorded, CheckedStays, SignedUnder, KeyUnderOneId, ReportedHeld, Files
<1> QED
  BY <1>1, <1>2, <1>3 DEF ProvisionInv

LEMMA ProvisionInvStep == ProvisionInv /\ [Next]_vars => ProvisionInv'
<1> SUFFICES ASSUME ProvisionInv, [Next]_vars
             PROVE  ProvisionInv'
  OBVIOUS
<1>1. ASSUME NEW p \in Procs, ProvisionStep(p)
      PROVE  ProvisionInv'
  BY <1>1, LookingSteps, KeySteps, PublicSteps, IdSteps DEF ProvisionStep
<1>2. ASSUME NEW a \in Agents, AttestStep(a)
      PROVE  ProvisionInv'
  BY <1>2, AgentSteps DEF AttestStep
<1>3. CASE UNCHANGED vars
  <2> USE <1>3 DEF vars, tpmVars, fileVars, history, ProvisionInv
  <2>1. (TypeOK /\ Roles /\ KeysOwn /\ KeyIsNew /\ OneWriter)'
    BY DEF TypeOK, Roles, KeysOwn, KeyIsNew, OneWriter, Neither
  <2>2. (PublicWritten /\ IdWritten /\ OneIdRecorded /\ CheckedStays)'
    BY DEF PublicWritten, IdWritten, OneIdRecorded, CheckedStays, Neither
  <2>3. (SignedUnder /\ KeyUnderOneId /\ ReportedHeld)'
    BY DEF SignedUnder, KeyUnderOneId, ReportedHeld
  <2> QED
    BY <2>1, <2>2, <2>3
<1> QED
  BY <1>1, <1>2, <1>3, WorldSteps DEF Next

-----------------------------------------------------------------------------
(***************************************************************************)
(* What follows for every behaviour.                                       *)
(***************************************************************************)
\* The invariant holds throughout, however many commands race and whatever is
\* cut short (main.rs cmd_provision, cmd_attest).
THEOREM ProvisionAlways == Spec => []ProvisionInv
  BY ProvisionInvInit, ProvisionInvStep, PTL DEF Spec

\* Type correctness of the identity's parts, and that what a process sees of a
\* file may be what stays of it (main.rs cmd_provision, state.rs).
THEOREM TypeCorrect == Spec => []TypeOK
<1>1. ProvisionInv => TypeOK
  BY DEF ProvisionInv
<1> QED
  BY <1>1, ProvisionAlways, PTL

\* Neither ak.pub nor an envelope is ever of an object this agent did not make
\* (main.rs:285): nothing adopts what is at the handle, and the TPM lets
\* nothing in beside it.
THEOREM SignsWithOwnKeys == Spec => []OwnKeysOnly
<1>1. ProvisionInv => OwnKeysOnly
  BY ProvisionAssumption DEF ProvisionInv, OwnKeysOnly, TypeOK, KeysOwn, Keys, Files
<1> QED
  BY <1>1, ProvisionAlways, PTL

\* No key signs under two ids, across races, kills, power cuts and operators
\* who clear and provision again (state.rs:17).
THEOREM OneIdPerKey == Spec => []KeyUnderOneId
<1>1. ProvisionInv => KeyUnderOneId
  BY DEF ProvisionInv
<1> QED
  BY <1>1, ProvisionAlways, PTL

\* A pair reported provisioned is what the files hold until the operator clears
\* them, but for an ak.pub that a power cut emptied (main.rs cmd_provision).
THEOREM ReportedStands == Spec => []ReportedPairStands
<1>1. ProvisionInv => ReportedPairStands
  BY DEF ProvisionInv, ReportedPairStands, TypeOK, ReportedHeld, Files
<1> QED
  BY <1>1, ProvisionAlways, PTL

\* Only SignEnvelope signs.
LEMMA OnlySignEnvelopeSigns ==
  ASSUME [Next]_vars, attested' # attested
  PROVE  \E a \in Agents : SignEnvelope(a)
<1> USE DEF tpmVars, fileVars, history
<1>1. ASSUME NEW p \in Procs, ProvisionStep(p)
      PROVE  attested' = attested
  BY <1>1 DEF ProvisionStep, Invoke, Inspect, HandleFree, CreateKey, Persist, NvDefined,
     NvDefine, NvIncrement, ReadPublic, WritePublic, SyncPublic, CreateId, WriteId,
     SyncId, SyncIdDir, Report
<1>2. ASSUME NEW a \in Agents, ReadIdentity(a) \/ VerifyAk(a)
      PROVE  attested' = attested
  BY <1>2 DEF ReadIdentity, VerifyAk
<1>3. ASSUME \/ \E p \in Procs \union Agents : Die(p)
             \/ PowerCut \/ Evict \/ Occupy \/ \E f \in Files : ClearFile(f)
             \/ UNCHANGED vars
      PROVE  attested' = attested
  BY <1>3 DEF Die, PowerCut, Evict, Occupy, ClearFile, Deliberate, vars
<1> QED
  BY <1>1, <1>2, <1>3 DEF Next, AttestStep

\* Once a pair is reported, every envelope is signed under it until the operator
\* clears it (state.rs:19).
THEOREM EnvelopesAsReported == Spec => SignsAsReported
<1> DEFINE Signed == \A pair \in attested' \ attested : reported # {} => pair \in reported
<1>1. ProvisionInv /\ [Next]_vars => [Signed]_vars
  <2> SUFFICES ASSUME ProvisionInv, [Next]_vars,
                      NEW pair \in attested' \ attested, NEW held \in reported
               PROVE  pair \in reported
    OBVIOUS
  <2>1. PICK a \in Agents : SignEnvelope(a)
    BY OnlySignEnvelopeSigns
  <2>2. pair = [id |-> id[a], key |-> handle]
    BY <2>1 DEF SignEnvelope
  <2>3. id[a] = held.id /\ handle = held.key
    BY <2>1 DEF SignEnvelope, ProvisionInv, TypeOK, Files, CheckedStays, ReportedHeld
  <2>4. held = [id |-> held.id, key |-> held.key]
    BY DEF ProvisionInv, TypeOK, Pairs
  <2> QED
    BY <2>2, <2>3, <2>4
<1> QED
  BY <1>1, ProvisionAlways, PTL DEF Spec, SignsAsReported
=============================================================================
