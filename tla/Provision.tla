----------------------------- MODULE Provision -----------------------------
(***************************************************************************)
(* `tactiq-agent provision`: the attestation key made in the TPM, its      *)
(* public area and the device id recorded on disk as a pair, and the       *)
(* agent's use of that pair (crates/prover/src/main.rs and state.rs,       *)
(* crates/attest-tpm).                                                     *)
(*                                                                         *)
(* Several provisioning commands may run at once; any of them may fail at  *)
(* a tool or be killed at any step, and power may be cut.                  *)
(***************************************************************************)
EXTENDS Naturals

CONSTANTS
  Procs,    \* provisioning commands
  Agents,   \* `attest` and the cycles of `run`
  Ids,      \* device ids an operator may give
  None,     \* no key, no id
  Absent,   \* a file that is not there
  Torn,     \* a file that is there without its content
  Foreign,  \* an object at the AK handle this agent did not make
  MaxKeys,  \* bound: attestation keys made
  MaxActs   \* bound: deliberate acts of the operator, and power cuts

ASSUME ProvisionAssumption ==
  /\ MaxKeys \in Nat /\ MaxActs \in Nat
  /\ None \notin {Absent, Torn, Foreign} /\ Absent \notin {Torn, Foreign} /\ Torn # Foreign
  /\ Nat \intersect {None, Absent, Torn, Foreign} = {}
  /\ Ids \intersect {None, Absent, Torn, Foreign} = {}
  /\ Procs \intersect Agents = {}

VARIABLES
  handle,    \* the object at the AK handle
  context,   \* the key in the work directory's ak.ctx
  made,      \* how many keys were made
  nv,        \* the epoch counter's index
  disk,      \* device_id and ak.pub, as processes see them
  durable,   \* what of each file a power cut may leave
  pc,        \* where each process stands
  id,        \* the id a command was given, or an agent has read
  public,    \* the public area a command's tpm2_readpublic has read
  reported,  \* the pairs reported provisioned since the operator last cleared
  attested,  \* every pair an envelope was signed under
  acts       \* deliberate acts and power cuts so far

tpmVars  == <<handle, context, made, nv>>
fileVars == <<disk, durable>>
history  == <<reported, attested, acts>>
vars     == <<tpmVars, fileVars, pc, id, public, history>>

Keys  == 1..MaxKeys
Files == {"device_id", "ak.pub"}

Init ==
  /\ handle \in {None, Foreign}
  /\ context = None
  /\ made = 0
  /\ nv \in {"undefined", "written"}
  /\ disk = [f \in Files |-> Absent]
  /\ durable = [f \in Files |-> {Absent}]
  /\ pc = [p \in Procs \union Agents |-> "idle"]
  /\ id = [p \in Procs \union Agents |-> None]
  /\ public = [p \in Procs |-> None]
  /\ reported = {}
  /\ attested = {}
  /\ acts = 0

Goto(p, label) == pc' = [pc EXCEPT ![p] = label]

\* A command or a cycle ends.
End(p) ==
  /\ Goto(p, "idle")
  /\ id' = [id EXCEPT ![p] = None]
  /\ public' = [q \in Procs |-> IF q = p THEN None ELSE public[q]]

Stays(p) == UNCHANGED <<id, public>>

-----------------------------------------------------------------------------
(***************************************************************************)
(* The files. A power cut leaves a file with its old or its new name, with *)
(* or without its content, until both were synced.                         *)
(***************************************************************************)
Open(f) ==
  /\ disk' = [disk EXCEPT ![f] = Torn]
  /\ durable' = [durable EXCEPT ![f] = @ \union {Torn}]

Fill(f, content) ==
  /\ disk' = [disk EXCEPT ![f] = content]
  /\ durable' = [durable EXCEPT ![f] = @ \union {content}]

\* fsync of the file: its content is safe, its name not yet.
SyncFile(f) ==
  /\ durable' = [durable EXCEPT ![f] = @ \ {Torn}]
  /\ UNCHANGED disk

\* fsync of the directory: the names are safe, not what is in the files.
SyncDir ==
  /\ durable' = [f \in Files |->
                   {disk[f]} \union IF disk[f] = Absent THEN {} ELSE durable[f] \intersect {Torn}]
  /\ UNCHANGED disk

\* inspect looks for the names only.
Complete == \A f \in Files : disk[f] # Absent
Neither  == \A f \in Files : disk[f] = Absent

-----------------------------------------------------------------------------
(***************************************************************************)
(* cmd_provision.                                                          *)
(***************************************************************************)
Invoke(p, given) ==
  /\ pc[p] = "idle"
  /\ id' = [id EXCEPT ![p] = given]
  /\ Goto(p, "inspect")
  /\ UNCHANGED <<tpmVars, fileVars, public, history>>

\* Nothing may be there: an identity is not replaced, half of one not repaired.
Inspect(p) ==
  /\ pc[p] = "inspect"
  /\ \/ Neither /\ Goto(p, "handle") /\ Stays(p)
     \/ ~Neither /\ End(p)
  /\ UNCHANGED <<tpmVars, fileVars, history>>

\* Mutant: a key at the handle is taken for this agent's own.
HandleAdopts(p) ==
  /\ pc[p] = "handle"
  /\ Goto(p, IF handle = None THEN "create" ELSE "nv")
  /\ Stays(p)
  /\ UNCHANGED <<tpmVars, fileVars, history>>

\* An occupied AK handle is never adopted.
HandleFree(p) ==
  /\ pc[p] = "handle"
  /\ \/ handle = None /\ Goto(p, "create") /\ Stays(p)
     \/ handle # None /\ End(p)
  /\ UNCHANGED <<tpmVars, fileVars, history>>

\* create_ak: the key, in the work directory all commands share.
CreateKey(p) ==
  /\ pc[p] = "create"
  /\ made < MaxKeys
  /\ made' = made + 1
  /\ context' = made'
  /\ Goto(p, "persist")
  /\ Stays(p)
  /\ UNCHANGED <<handle, nv, fileVars, history>>

\* Mutant: an object in the way is evicted.
PersistOver(p) ==
  /\ pc[p] = "persist"
  /\ handle' = context
  /\ Goto(p, "nv") /\ Stays(p)
  /\ UNCHANGED <<context, made, nv, fileVars, history>>

\* create_ak: the TPM refuses a handle that is taken.
Persist(p) ==
  /\ pc[p] = "persist"
  /\ \/ handle = None /\ handle' = context /\ Goto(p, "nv") /\ Stays(p)
     \/ handle # None /\ UNCHANGED handle /\ End(p)
  /\ UNCHANGED <<context, made, nv, fileVars, history>>

\* The counter is kept if it is there.
NvDefined(p) ==
  /\ pc[p] = "nv"
  /\ Goto(p, IF nv = "undefined" THEN "define" ELSE "public")
  /\ Stays(p)
  /\ UNCHANGED <<tpmVars, fileVars, history>>

NvDefine(p) ==
  /\ pc[p] = "define"
  /\ \/ nv = "undefined" /\ nv' = "unwritten" /\ Goto(p, "increment") /\ Stays(p)
     \/ nv # "undefined" /\ UNCHANGED nv /\ End(p)
  /\ UNCHANGED <<handle, context, made, fileVars, history>>

NvIncrement(p) ==
  /\ pc[p] = "increment"
  /\ nv' = "written"
  /\ Goto(p, "public") /\ Stays(p)
  /\ UNCHANGED <<handle, context, made, fileVars, history>>

\* read_ak_public: the tool asks the TPM, then opens its output file.
ReadPublic(p) ==
  /\ pc[p] = "public"
  /\ handle # None
  /\ public' = [public EXCEPT ![p] = handle]
  /\ Open("ak.pub")
  /\ Goto(p, "write_public")
  /\ UNCHANGED <<tpmVars, id, history>>

\* read_ak_public: the file is written, and not synced.
WritePublic(p) ==
  /\ pc[p] = "write_public"
  /\ Fill("ak.pub", public[p])
  /\ Goto(p, "sync_public") /\ Stays(p)
  /\ UNCHANGED <<tpmVars, history>>

SyncPublic(p) ==
  /\ pc[p] = "sync_public"
  /\ SyncDir
  /\ Goto(p, "create_id") /\ Stays(p)
  /\ UNCHANGED <<tpmVars, history>>

\* write_id: create_new, so an id that is there is not written over.
CreateId(p) ==
  /\ pc[p] = "create_id"
  /\ \/ disk["device_id"] = Absent /\ Open("device_id") /\ Goto(p, "write_id") /\ Stays(p)
     \/ disk["device_id"] # Absent /\ UNCHANGED fileVars /\ End(p)
  /\ UNCHANGED <<tpmVars, history>>

\* Mutant: the id is reported before it is safe.
WriteIdUnsynced(p) ==
  /\ pc[p] = "write_id"
  /\ Fill("device_id", id[p])
  /\ Goto(p, "sync_id_dir") /\ Stays(p)
  /\ UNCHANGED <<tpmVars, history>>

WriteId(p) ==
  /\ pc[p] = "write_id"
  /\ Fill("device_id", id[p])
  /\ Goto(p, "sync_id") /\ Stays(p)
  /\ UNCHANGED <<tpmVars, history>>

SyncId(p) ==
  /\ pc[p] = "sync_id"
  /\ SyncFile("device_id")
  /\ Goto(p, "sync_id_dir") /\ Stays(p)
  /\ UNCHANGED <<tpmVars, history>>

SyncIdDir(p) ==
  /\ pc[p] = "sync_id_dir"
  /\ SyncDir
  /\ Goto(p, "report") /\ Stays(p)
  /\ UNCHANGED <<tpmVars, history>>

\* The operator is told the id and the file to give to the verifier.
Report(p) ==
  /\ pc[p] = "report"
  /\ reported' = reported \union {[id |-> id[p], key |-> disk["ak.pub"]]}
  /\ End(p)
  /\ UNCHANGED <<tpmVars, fileVars, attested, acts>>

-----------------------------------------------------------------------------
(***************************************************************************)
(* cmd_attest, as far as the identity goes.                                *)
(***************************************************************************)
\* Mutant: what is in device_id is not validated.
ReadAnyIdentity(a) ==
  /\ pc[a] = "idle"
  /\ Complete
  /\ id' = [id EXCEPT ![a] = disk["device_id"]]
  /\ Goto(a, "verify_ak")
  /\ UNCHANGED <<tpmVars, fileVars, public, history>>

\* read_id: both files are there and device_id holds a valid id.
ReadIdentity(a) ==
  /\ pc[a] = "idle"
  /\ Complete
  /\ disk["device_id"] \in Ids
  /\ id' = [id EXCEPT ![a] = disk["device_id"]]
  /\ Goto(a, "verify_ak")
  /\ UNCHANGED <<tpmVars, fileVars, public, history>>

\* Mutant: any object at the handle will do.
VerifyAnyAk(a) ==
  /\ pc[a] = "verify_ak"
  /\ handle # None
  /\ Goto(a, "quote") /\ Stays(a)
  /\ UNCHANGED <<tpmVars, fileVars, history>>

\* verify_ak: the key at the handle is the one whose public area was recorded.
VerifyAk(a) ==
  /\ pc[a] = "verify_ak"
  /\ \/ handle # None /\ handle = disk["ak.pub"] /\ Goto(a, "quote") /\ Stays(a)
     \/ ~(handle # None /\ handle = disk["ak.pub"]) /\ End(a)
  /\ UNCHANGED <<tpmVars, fileVars, history>>

\* quote: signed by whatever is at the handle now.
SignEnvelope(a) ==
  /\ pc[a] = "quote"
  /\ handle # None
  /\ attested' = attested \union {[id |-> id[a], key |-> handle]}
  /\ End(a)
  /\ UNCHANGED <<tpmVars, fileVars, reported, acts>>

-----------------------------------------------------------------------------
(***************************************************************************)
(* What else happens.                                                      *)
(***************************************************************************)
\* A tool fails, or the process is killed.
Die(p) ==
  /\ pc[p] # "idle"
  /\ End(p)
  /\ UNCHANGED <<tpmVars, fileVars, history>>

\* The work directory does not survive; the TPM and what was synced do.
PowerCut ==
  /\ acts < MaxActs /\ acts' = acts + 1
  /\ disk' \in {d \in [Files -> UNION {durable[f] : f \in Files}] :
                  \A f \in Files : d[f] \in durable[f]}
  /\ durable' = [f \in Files |-> {disk'[f]}]
  /\ context' = None
  /\ pc' = [p \in Procs \union Agents |-> "idle"]
  /\ id' = [p \in Procs \union Agents |-> None]
  /\ public' = [p \in Procs |-> None]
  /\ UNCHANGED <<handle, made, nv, reported, attested>>

\* Deliberate acts are done with the agent stopped.
Deliberate ==
  /\ acts < MaxActs /\ acts' = acts + 1
  /\ \A p \in Procs \union Agents : pc[p] = "idle"
  /\ UNCHANGED <<context, made, nv, pc, id, public, attested>>

\* The operator clears the keys directory: the files, one by one, not synced.
ClearFile(f) ==
  /\ Deliberate
  /\ disk[f] # Absent
  /\ disk' = [disk EXCEPT ![f] = Absent]
  /\ durable' = [durable EXCEPT ![f] = @ \union {Absent}]
  /\ reported' = {}
  /\ UNCHANGED handle

\* The operator evicts what is at the handle.
Evict ==
  /\ Deliberate
  /\ handle # None
  /\ handle' = None
  /\ reported' = {}
  /\ UNCHANGED fileVars

\* Something else places an object at a free handle.
Occupy ==
  /\ handle = None
  /\ handle' = Foreign
  /\ UNCHANGED <<context, made, nv, fileVars, pc, id, public, history>>

-----------------------------------------------------------------------------
ProvisionStep(p) ==
  \/ \E given \in Ids : Invoke(p, given)
  \/ Inspect(p)
  \/ HandleFree(p)
  \/ CreateKey(p)
  \/ Persist(p)
  \/ NvDefined(p)
  \/ NvDefine(p)
  \/ NvIncrement(p)
  \/ ReadPublic(p)
  \/ WritePublic(p)
  \/ SyncPublic(p)
  \/ CreateId(p)
  \/ WriteId(p)
  \/ SyncId(p)
  \/ SyncIdDir(p)
  \/ Report(p)

AttestStep(a) ==
  \/ ReadIdentity(a)
  \/ VerifyAk(a)
  \/ SignEnvelope(a)

Next ==
  \/ \E p \in Procs : ProvisionStep(p)
  \/ \E a \in Agents : AttestStep(a)
  \/ \E p \in Procs \union Agents : Die(p)
  \/ PowerCut
  \/ \E f \in Files : ClearFile(f)
  \/ Evict
  \/ Occupy

Spec == Init /\ [][Next]_vars
-----------------------------------------------------------------------------
Labels ==
  {"idle", "inspect", "handle", "create", "persist", "nv", "define", "increment",
   "public", "write_public", "sync_public", "create_id", "write_id", "sync_id",
   "sync_id_dir", "report", "verify_ak", "quote"}
Objects  == {None, Foreign} \union Keys
Contents == [f \in Files |-> IF f = "device_id" THEN {Absent, Torn} \union Ids
                             ELSE {Absent, Torn, Foreign} \union Keys]
Pairs    == [id : Ids, key : Keys \union {Foreign}]

\* The types, and that what a process sees of a file may be what stays of it.
TypeOK ==
  /\ handle \in Objects
  /\ context \in {None} \union Keys
  /\ made \in 0..MaxKeys
  /\ nv \in {"undefined", "unwritten", "written"}
  /\ DOMAIN disk = Files /\ DOMAIN durable = Files
  /\ \A f \in Files : durable[f] \subseteq Contents[f] /\ disk[f] \in durable[f]
  /\ pc \in [Procs \union Agents -> Labels]
  /\ id \in [Procs \union Agents -> {None} \union Ids]
  /\ public \in [Procs -> Objects]
  /\ reported \subseteq Pairs
  /\ attested \subseteq Pairs
  /\ acts \in 0..MaxActs

\* DDR-005 decision 4 as the code states it (main.rs:285): a key this agent did
\* not make is neither recorded as its own nor signed with.
OwnKeysOnly ==
  /\ disk["ak.pub"] # Foreign
  /\ \A pair \in attested : pair.key # Foreign

\* The partial-state rule (state.rs:17): id and key live and die as a pair. No
\* key ever signs under two ids, however often an operator clears and provisions
\* again, and whatever was interrupted in between.
KeyUnderOneId ==
  \A x, y \in attested : x.key = y.key => x.id = y.id

\* What provision reported stays: of all the commands that ran at once one
\* reported, its id survives every power cut, and its key's record is that key
\* or, after a power cut, visibly not a key.
ReportedPairStands ==
  \A pair \in reported :
    disk["device_id"] = pair.id /\ disk["ak.pub"] \in {pair.key, Torn}

\* Until the operator clears it, envelopes are signed under the reported pair
\* and no other: the verifier holds that key under that id (state.rs:19).
SignsAsReported ==
  [][\A pair \in attested' \ attested : reported # {} => pair \in reported]_vars

\* main.rs:307-311: key first, then id, so that a device with an id has its key,
\* whatever cuts in; here only of a device that reported success.
KeyIsThereFirst ==
  reported # {} => disk["ak.pub"] \in Keys
=============================================================================
