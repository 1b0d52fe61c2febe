----------------------------- MODULE StopService -----------------------------
(***************************************************************************)
(* The stop service and the operator commands of tactiq-stop, interleaved  *)
(* step by step: one TPM command, one file read, one lock attempt or one   *)
(* answer per action.                                                      *)
(*                                                                         *)
(* The processes are the service (`serve`, one connection at a time) and   *)
(* the operator commands (`trip`, `recover`, `status`, `define`), which    *)
(* share the stop counter in the TPM, the two release files and the admin  *)
(* lock. Around them are whatever else may use the TPM (Outside), the      *)
(* owner who can delete the index, whoever writes the release files, and   *)
(* the TPM tools a killed command leaves behind.                           *)
(***************************************************************************)
EXTENDS StopGate

CONSTANTS
  Service,    \* the process `tactiq-stop serve`
  Commands,   \* processes that run operator commands
  Ops,        \* the commands they run, out of Operations
  Outside,    \* TRUE: other processes use the TPM, and the owner may delete
  Faults,     \* TRUE: a TPM tool or a file read may fail at any time
  Gateway,    \* the caller of an ordinary question
  NoOne       \* nobody holds the admin lock

Definers   == {"define", "define_running"}
Operations == {"trip", "recover", "status"} \union Definers

ASSUME ServiceAssumption ==
  /\ Service \notin Commands
  /\ Gateway \notin Commands
  /\ NoOne \notin Commands
  /\ Ops \subseteq Operations
  /\ Outside \in BOOLEAN
  /\ Faults \in BOOLEAN

Procs == Commands \union {Service}

VARIABLES
  index,      \* the NV index: "absent", "unwritten" or "written"
  counter,    \* its value; while it is not written, the highest value held
  stray,      \* an increment left by a killed command: "none" to come, still
              \* "flying", or "landed" while a later command had the lock
  recordFile, \* /data/tactiq/stop/release
  sigFile,    \* /data/tactiq/stop/release.sig, as the record it signs
  lock,       \* who holds /run/tactiq-stop/admin.lock
  op,         \* the command each operator process runs
  pc,         \* where each process stands
  seen,       \* the counter value a process works from
  got,        \* the release record a process has read, if it is the valid one
  out,        \* the answer a process has reached
  caller,     \* whose question the service answers
  moved,      \* history: the value a command's own increment produced
  told,       \* history: the highest odd epoch any command has reported
  floor       \* history: `told` when the question being answered arrived

tpm   == <<index, counter, stray>>
files == <<recordFile, sigFile>>
admin == <<lock, op, moved, told>>
call  == <<caller, floor>>
vars  == <<index, counter, stray, recordFile, sigFile, lock, op, pc, seen, got, out,
           caller, moved, told, floor>>

Kinds   == {"none", "allow", "running", "stopped", "changed", "already",
            "refused", "error"}
Nothing == [kind |-> "none", epoch |-> NoEpoch]

ServiceLabels == {"down", "idle", "request", "read", "record", "sig", "certify", "reply"}
CommandLabels == {"idle", "wait", "verify", "query", "create", "write", "read",
                  "record", "sig", "certify", "from", "increment", "back",
                  "now", "report", "confirm", "asked", "unanswered"}

-----------------------------------------------------------------------------
Init ==
  /\ \/ index = "absent" /\ counter = 0
     \/ index = "written" /\ counter \in Epochs \intersect {0, 1}
  /\ stray = "none"
  /\ recordFile = NoFile
  /\ sigFile = NoFile
  /\ lock = NoOne
  /\ op = [c \in Commands |-> "none"]
  /\ pc = [p \in Procs |-> IF p = Service THEN "down" ELSE "idle"]
  /\ seen = [p \in Procs |-> NoEpoch]
  /\ got = [p \in Procs |-> NoFile]
  /\ out = [p \in Procs |-> Nothing]
  /\ caller = Gateway
  /\ moved = [c \in Commands |-> NoEpoch]
  /\ told = NoEpoch
  /\ floor = NoEpoch

Goto(p, label) == pc' = [pc EXCEPT ![p] = label]

\* A process has its answer: the service sends it, a command prints it.
Conclude(p, kind, epoch) ==
  /\ out' = [out EXCEPT ![p] = [kind |-> kind, epoch |-> epoch]]
  /\ Goto(p, IF p = Service THEN "reply" ELSE "report")

\* A command's process ends; the lock goes with its file descriptor.
Exit(c) ==
  /\ Goto(c, "idle")
  /\ op' = [op EXCEPT ![c] = "none"]
  /\ lock' = IF lock = c THEN NoOne ELSE lock
  /\ seen' = [seen EXCEPT ![c] = NoEpoch]
  /\ got' = [got EXCEPT ![c] = NoFile]
  /\ out' = [out EXCEPT ![c] = Nothing]
  /\ moved' = [moved EXCEPT ![c] = NoEpoch]

TpmMayFail == Faults \/ index # "written"

-----------------------------------------------------------------------------
(***************************************************************************)
(* The gate, walked by the service (admit), `status` and `recover`: read   *)
(* the counter, then the record file, then the signature file.             *)
(***************************************************************************)
Recovers(p) == p # Service /\ op[p] = "recover"

\* The epoch the gate decides: recover asks for the one it would move to.
Target(p) ==
  IF Recovers(p) /\ ~Running(seen[p]) THEN seen[p] + 1 ELSE seen[p]

ReadCounter(p) ==
  /\ pc[p] = "read"
  /\ \/ /\ index = "written"
        /\ seen' = [seen EXCEPT ![p] = counter]
        /\ Goto(p, IF Running(counter) \/ Recovers(p) THEN "record" ELSE "certify")
        /\ UNCHANGED out
     \/ /\ TpmMayFail
        /\ Conclude(p, "error", NoEpoch)
        /\ UNCHANGED seen
  /\ UNCHANGED <<tpm, files, admin, call, got>>

\* Mutant: recover goes on without a release.
UnreleasedIgnored(p) ==
  Goto(p, IF Recovers(p) THEN "from" ELSE "certify") /\ UNCHANGED out

\* gate: Unreleased. recover stops here and says nothing was changed; the
\* service and status go on to sign a record that says Stopped.
Unreleased(p) ==
  IF Recovers(p) THEN Conclude(p, "refused", seen[p])
                 ELSE Goto(p, "certify") /\ UNCHANGED out

GateError(p) ==
  /\ Faults
  /\ IF Recovers(p) THEN Conclude(p, "refused", seen[p])
                    ELSE Conclude(p, "error", NoEpoch)

\* gate: Open.
Open(p) ==
  IF p = Service THEN Conclude(p, "allow", seen[p])
  ELSE IF ~Recovers(p) THEN Goto(p, "certify") /\ UNCHANGED out
  ELSE IF Target(p) = seen[p] THEN Conclude(p, "already", seen[p])
  ELSE Goto(p, "from") /\ UNCHANGED out

\* Mutant: the files are read under the admin lock.
ReadRecordLocked(p) ==
  /\ pc[p] = "record"
  /\ lock = NoOne
  /\ Unreleased(p)
  /\ UNCHANGED <<tpm, files, admin, call, seen, got>>

ReadRecord(p) ==
  /\ pc[p] = "record"
  /\ \/ /\ recordFile # NoFile
        /\ got' = [got EXCEPT ![p] = recordFile]
        /\ Goto(p, "sig")
        /\ UNCHANGED out
     \/ recordFile = NoFile /\ Unreleased(p) /\ UNCHANGED got
     \/ GateError(p) /\ UNCHANGED got
  /\ UNCHANGED <<tpm, files, admin, call, seen>>

ReadSigAndCheck(p) ==
  /\ pc[p] = "sig"
  /\ \/ /\ ReleaseValid(got[p], sigFile, Target(p))
        /\ Open(p)
        /\ UNCHANGED got
     \/ /\ ~ReleaseValid(got[p], sigFile, Target(p))
        /\ Unreleased(p)
        /\ got' = [got EXCEPT ![p] = NoFile]
     \/ GateError(p) /\ UNCHANGED got
  /\ UNCHANGED <<tpm, files, admin, call, seen>>

\* Mutant: a receipt for the value read earlier, whatever the TPM certifies.
CertifyUnchecked(p) ==
  /\ pc[p] = "certify"
  /\ Conclude(p, IF got[p] = NoFile THEN "stopped" ELSE "running", seen[p])
  /\ UNCHANGED <<tpm, files, admin, call, seen, got>>

\* sign: the TPM certifies the counter at the value the record states, or
\* there is no receipt. The PCR quote that follows reads no state kept here.
Certify(p) ==
  /\ pc[p] = "certify"
  /\ \/ /\ index = "written"
        /\ counter = seen[p]
        /\ Conclude(p, IF got[p] = NoFile THEN "stopped" ELSE "running", seen[p])
     \/ /\ TpmMayFail \/ counter # seen[p]
        /\ Conclude(p, "error", NoEpoch)
  /\ UNCHANGED <<tpm, files, admin, call, seen, got>>

-----------------------------------------------------------------------------
(***************************************************************************)
(* The service.                                                            *)
(***************************************************************************)
\* serve: it starts only if the counter can be read.
ServiceStart ==
  /\ pc[Service] = "down"
  /\ index = "written"
  /\ Goto(Service, "idle")
  /\ UNCHANGED <<tpm, files, admin, call, seen, got, out>>

\* The service dies or is stopped; its connections are reset.
ServiceStop ==
  /\ pc[Service] # "down"
  /\ pc' = [p \in Procs |-> IF p = Service THEN "down"
                            ELSE IF pc[p] = "asked" THEN "unanswered"
                            ELSE pc[p]]
  /\ seen' = [seen EXCEPT ![Service] = NoEpoch]
  /\ got' = [got EXCEPT ![Service] = NoFile]
  /\ out' = [out EXCEPT ![Service] = Nothing]
  /\ caller' = Gateway
  /\ floor' = NoEpoch
  /\ UNCHANGED <<tpm, files, admin>>

\* One connection is accepted, from the gateway or from a command's probe.
Accept(who) ==
  /\ pc[Service] = "idle"
  /\ who # Gateway => pc[who] = "asked"
  /\ caller' = who
  /\ floor' = told
  /\ Goto(Service, "request")
  /\ UNCHANGED <<tpm, files, admin, seen, got, out>>

\* Mutant: the request has no deadline.
RequestEndsNever == pc[Service] = "none" /\ UNCHANGED vars

\* read_request: what arrives is not one request, the client goes away, or
\* REQUEST_DEADLINE passes; a client may also stay silent until then. 400.
RequestEnds ==
  /\ pc[Service] = "request"
  /\ Conclude(Service, "error", NoEpoch)
  /\ UNCHANGED <<tpm, files, admin, call, seen, got>>

\* read_request: the request is complete.
RequestComplete ==
  /\ pc[Service] = "request"
  /\ Goto(Service, "read")
  /\ UNCHANGED <<tpm, files, admin, call, seen, got, out>>

\* The answer is sent. A command that asked has what it waited for and ends.
Reply ==
  /\ pc[Service] = "reply"
  /\ pc' = [p \in Procs |-> IF p = Service \/ p = caller THEN "idle" ELSE pc[p]]
  /\ seen' = [p \in Procs |-> IF p = Service \/ p = caller THEN NoEpoch ELSE seen[p]]
  /\ got' = [p \in Procs |-> IF p = Service \/ p = caller THEN NoFile ELSE got[p]]
  /\ out' = [p \in Procs |-> IF p = Service \/ p = caller THEN Nothing ELSE out[p]]
  /\ op' = [c \in Commands |-> IF c = caller THEN "none" ELSE op[c]]
  /\ moved' = [c \in Commands |-> IF c = caller THEN NoEpoch ELSE moved[c]]
  /\ lock' = IF lock = caller THEN NoOne ELSE lock
  /\ caller' = Gateway
  /\ floor' = NoEpoch
  /\ UNCHANGED <<tpm, files, told>>

-----------------------------------------------------------------------------
(***************************************************************************)
(* The operator commands.                                                  *)
(***************************************************************************)
Invoke(c, o) ==
  /\ pc[c] = "idle"
  /\ op' = [op EXCEPT ![c] = o]
  /\ Goto(c, "wait")
  /\ UNCHANGED <<tpm, files, call, lock, moved, told, seen, got, out>>

\* Mutant: the lock file is shared.
AdminLockShared(c) ==
  /\ pc[c] = "wait"
  /\ lock' = c
  /\ Goto(c, IF op[c] \in Definers THEN "query" ELSE "verify")
  /\ stray' = IF stray = "landed" THEN "none" ELSE stray
  /\ UNCHANGED <<index, counter, files, call, op, moved, told, seen, got, out>>

AdminLock(c) ==
  /\ pc[c] = "wait"
  /\ lock = NoOne
  /\ lock' = c
  /\ Goto(c, IF op[c] \in Definers THEN "query" ELSE "verify")
  /\ stray' = IF stray = "landed" THEN "none" ELSE stray
  /\ UNCHANGED <<index, counter, files, call, op, moved, told, seen, got, out>>

\* Mutant: the wait for the lock has no deadline.
LockTimeoutNever(c) == pc[c] = "none" /\ UNCHANGED vars

\* LOCK_WAIT has passed: "nothing was changed".
LockTimeout(c) ==
  /\ pc[c] = "wait"
  /\ lock # NoOne
  /\ Exit(c)
  /\ UNCHANGED <<tpm, files, call, told>>

\* verify_stop_counter: the attributes, whether or not it was ever written.
VerifyStopCounter(c) ==
  /\ pc[c] = "verify"
  /\ \/ /\ index # "absent"
        /\ Goto(c, IF op[c] \in {"recover", "status"} THEN "read" ELSE "from")
        /\ UNCHANGED <<lock, op, moved, seen, got, out>>
     \/ (Faults \/ index = "absent") /\ Exit(c)
  /\ UNCHANGED <<tpm, files, call, told>>

\* Mutant: an index that is there counts as finished.
QueryIndexSkipsWrite(c) ==
  /\ pc[c] = "query"
  /\ \/ /\ index # "written"
        /\ Goto(c, IF index = "absent" THEN "create" ELSE "verify")
        /\ UNCHANGED <<lock, op, moved, seen, got, out>>
     \/ (Faults \/ index = "written") /\ Exit(c)
  /\ UNCHANGED <<tpm, files, call, told>>

\* define: an index that is there and written is left to trip and recover.
QueryIndex(c) ==
  /\ pc[c] = "query"
  /\ \/ /\ index # "written"
        /\ Goto(c, IF index = "absent" THEN "create" ELSE "write")
        /\ UNCHANGED <<lock, op, moved, seen, got, out>>
     \/ (Faults \/ index = "written") /\ Exit(c)
  /\ UNCHANGED <<tpm, files, call, told>>

CreateIndex(c) ==
  /\ pc[c] = "create"
  /\ \/ /\ index = "absent"
        /\ index' = "unwritten"
        /\ Goto(c, "write")
        /\ UNCHANGED <<lock, op, moved, seen, got, out>>
     \/ (Faults \/ index # "absent") /\ Exit(c) /\ UNCHANGED index
  /\ UNCHANGED <<counter, stray, files, call, told>>

\* Mutant: no limit on the counter.
NvIncrementUnbounded ==
  /\ index = "written"
  /\ counter' = counter + 1
  /\ UNCHANGED index

\* TPM2_NV_Increment. The first one starts the counter at or above the
\* highest value any counter on this TPM has held.
NvIncrement ==
  \/ /\ index = "unwritten"
     /\ index' = "written"
     /\ \E v \in counter..MaxEpoch : counter' = v
  \/ /\ index = "written"
     /\ counter < MaxEpoch
     /\ counter' = counter + 1
     /\ UNCHANGED index

NvIncrementMayFail ==
  Faults \/ index = "absent" \/ (index = "written" /\ counter = MaxEpoch)

FirstWrite(c) ==
  /\ pc[c] = "write"
  /\ \/ /\ NvIncrement
        /\ Goto(c, "verify")
        /\ UNCHANGED <<lock, op, moved, seen, got, out>>
     \/ NvIncrementMayFail /\ Exit(c) /\ UNCHANGED <<index, counter>>
  /\ UNCHANGED <<stray, files, call, told>>

WantRunning(c) == op[c] \in {"recover", "define_running"}

\* move_to: read where the counter is.
ReadFrom(c) ==
  /\ pc[c] = "from"
  /\ \/ /\ index = "written"
        /\ seen' = [seen EXCEPT ![c] = counter]
        /\ IF Running(counter) = WantRunning(c)
           THEN Conclude(c, "already", counter)
           ELSE Goto(c, "increment") /\ UNCHANGED out
     \/ TpmMayFail /\ Conclude(c, "error", NoEpoch) /\ UNCHANGED seen
  /\ UNCHANGED <<tpm, files, admin, call, got>>

\* move_to: one increment. A reported failure may hide one that took effect.
Increment(c) ==
  /\ pc[c] = "increment"
  /\ \/ /\ NvIncrement
        /\ moved' = [moved EXCEPT ![c] = counter']
        /\ Goto(c, "back") \/ (Faults /\ Goto(c, "now"))
     \/ /\ NvIncrementMayFail
        /\ Goto(c, "now")
        /\ UNCHANGED <<index, counter, moved>>
  /\ UNCHANGED <<stray, files, call, lock, op, told, seen, got, out>>

\* Mutant: any later value counts as the command's own step.
ReadBackAnyValue(c) ==
  /\ pc[c] = "back"
  /\ index = "written"
  /\ Conclude(c, IF counter > seen[c] THEN "changed" ELSE "error", counter)
  /\ UNCHANGED <<tpm, files, admin, call, seen, got>>

\* move_to: read it back; any value but the next one is another writer's.
ReadBack(c) ==
  /\ pc[c] = "back"
  /\ \/ /\ index = "written"
        /\ Conclude(c, IF counter = seen[c] + 1 THEN "changed" ELSE "error", counter)
     \/ TpmMayFail /\ Goto(c, "now") /\ UNCHANGED out
  /\ UNCHANGED <<tpm, files, admin, call, seen, got>>

\* Mutant: after a failure the increment is assumed to have happened.
ReadNowAssumed(c) ==
  /\ pc[c] = "now"
  /\ Conclude(c, "error", seen[c] + 1)
  /\ UNCHANGED <<tpm, files, admin, call, seen, got>>

\* move_to, fail: the state as last known, if it can be read.
ReadNow(c) ==
  /\ pc[c] = "now"
  /\ \/ index = "written" /\ Conclude(c, "error", counter)
     \/ TpmMayFail /\ Conclude(c, "error", NoEpoch)
  /\ UNCHANGED <<tpm, files, admin, call, seen, got>>

\* Mutant: the lock is released before the service is asked.
ReportUnlocked(c) ==
  /\ pc[c] = "report"
  /\ IF op[c] \in {"trip", "recover"} /\ out[c].kind \in {"changed", "already"}
     THEN /\ Goto(c, "confirm")
          /\ lock' = NoOne
          /\ UNCHANGED <<op, moved, seen, got, out>>
     ELSE Exit(c)
  /\ UNCHANGED <<tpm, files, call, told>>

\* The outcome is printed; an odd counter tells the operator of a stop. After
\* a success trip and recover ask the service, still holding the lock.
Report(c) ==
  /\ pc[c] = "report"
  /\ told' = IF ~Running(out[c].epoch) /\ out[c].epoch > told
             THEN out[c].epoch ELSE told
  /\ IF op[c] \in {"trip", "recover"} /\ out[c].kind \in {"changed", "already"}
     THEN Goto(c, "confirm") /\ UNCHANGED <<lock, op, moved, seen, got, out>>
     ELSE Exit(c)
  /\ UNCHANGED <<tpm, files, call>>

\* confirm_through_service: a service that is down denies every call anyway.
Connect(c) ==
  /\ pc[c] = "confirm"
  /\ IF pc[Service] = "down"
     THEN Exit(c)
     ELSE Goto(c, "asked") /\ UNCHANGED <<lock, op, moved, seen, got, out>>
  /\ UNCHANGED <<tpm, files, call, told>>

Abandon(c) == caller' = IF caller = c THEN Gateway ELSE caller

\* Mutant: the probe has no read timeout; only a reset ends it.
ProbeEndsOnReset(c) ==
  /\ pc[c] = "unanswered"
  /\ Exit(c)
  /\ Abandon(c)
  /\ UNCHANGED <<tpm, files, told, floor>>

\* The read timeout, or the connection was reset: the command fails.
ProbeEnds(c) ==
  /\ pc[c] \in {"asked", "unanswered"}
  /\ Exit(c)
  /\ Abandon(c)
  /\ UNCHANGED <<tpm, files, told, floor>>

\* A command is killed, anywhere. The lock file is closed with it, but a
\* tpm2_nvincrement it has started goes on (attest-tpm run waits for its
\* child and does nothing else). Where Outside is TRUE that is one more
\* writer, and not told apart.
Kill(c) ==
  /\ pc[c] \notin {"idle", "asked", "unanswered"}
  /\ Exit(c)
  /\ stray' \in IF pc[c] \in {"increment", "write"} /\ ~Outside
                THEN {stray, "flying"} ELSE {stray}
  /\ UNCHANGED <<index, counter, files, call, told>>

-----------------------------------------------------------------------------
(***************************************************************************)
(* Everything else on the device.                                          *)
(***************************************************************************)
\* Any process with TPM access may advance the counter: its auth is empty.
OutsideIncrement ==
  /\ Outside
  /\ NvIncrement
  /\ UNCHANGED <<stray, files, admin, call, pc, seen, got, out>>

\* The increment a killed command left behind takes effect, or fails.
StrayIncrement ==
  /\ stray = "flying"
  /\ \/ /\ NvIncrement
        /\ stray' = IF lock = NoOne THEN "none" ELSE "landed"
     \/ stray' = "none" /\ UNCHANGED <<index, counter>>
  /\ UNCHANGED <<files, admin, call, pc, seen, got, out>>

\* The owner, whose authorization may be empty, deletes the index.
OwnerDelete ==
  /\ Outside
  /\ index # "absent"
  /\ index' = "absent"
  /\ UNCHANGED <<counter, stray, files, admin, call, pc, seen, got, out>>

\* The two release files are written and removed one at a time. A record may
\* be anything; a signature exists only over what the operator signed.
WriteRecord ==
  /\ \E r \in Records \union {NoFile} : recordFile' = r
  /\ UNCHANGED <<tpm, sigFile, admin, call, pc, seen, got, out>>

WriteSig ==
  /\ \E s \in Signed \union {NoFile} : sigFile' = s
  /\ UNCHANGED <<tpm, recordFile, admin, call, pc, seen, got, out>>

GateStep(p) ==
  ReadCounter(p) \/ ReadRecord(p) \/ ReadSigAndCheck(p) \/ Certify(p)

CommandStep(c) ==
  \/ AdminLock(c) \/ LockTimeout(c) \/ VerifyStopCounter(c)
  \/ QueryIndex(c) \/ CreateIndex(c) \/ FirstWrite(c)
  \/ ReadFrom(c) \/ Increment(c) \/ ReadBack(c) \/ ReadNow(c)
  \/ Report(c) \/ Connect(c) \/ ProbeEnds(c) \/ Kill(c)

Next ==
  \/ \E p \in Procs : GateStep(p)
  \/ ServiceStart \/ ServiceStop \/ RequestComplete \/ RequestEnds \/ Reply
  \/ \E who \in Commands \union {Gateway} : Accept(who)
  \/ \E c \in Commands, o \in Ops : Invoke(c, o)
  \/ \E c \in Commands : CommandStep(c)
  \/ OutsideIncrement \/ StrayIncrement \/ OwnerDelete \/ WriteRecord \/ WriteSig

Spec == Init /\ [][Next]_vars

ServiceStep == RequestEnds \/ GateStep(Service) \/ Reply

\* What the code bounds by a deadline goes on: the wait for the lock
\* (LOCK_WAIT), the probe of the service (its read timeout) and the request
\* the service reads (REQUEST_DEADLINE). The service answers the question it
\* took. Nothing is assumed of a client, which may stay silent, nor of a
\* command's own TPM tools, which have no deadline: a command may hang at one,
\* holding the lock.
Fairness ==
  /\ WF_vars(ServiceStep)
  /\ \A c \in Commands :
       WF_vars(AdminLock(c) \/ LockTimeout(c) \/ Connect(c) \/ ProbeEnds(c))

FairSpec == Spec /\ Fairness

-----------------------------------------------------------------------------
Outcomes == [kind : Kinds, epoch : Epochs \union {NoEpoch}]

\* Type correctness of every variable, each process at a label of its own
\* kind.
TypeOK ==
  /\ index \in {"absent", "unwritten", "written"}
  /\ counter \in Epochs
  /\ stray \in {"none", "flying", "landed"}
  /\ recordFile \in Records \union {NoFile}
  /\ sigFile \in Signed \union {NoFile}
  /\ lock \in Commands \union {NoOne}
  /\ op \in [Commands -> Operations \union {"none"}]
  /\ pc \in [Procs -> ServiceLabels \union CommandLabels]
  /\ pc[Service] \in ServiceLabels
  /\ \A c \in Commands : pc[c] \in CommandLabels
  /\ seen \in [Procs -> Epochs \union {NoEpoch}]
  /\ got \in [Procs -> Records \union {NoFile}]
  /\ out \in [Procs -> Outcomes]
  /\ caller \in Commands \union {Gateway}
  /\ moved \in [Commands -> Epochs \union {NoEpoch}]
  /\ told \in Epochs \union {NoEpoch}
  /\ floor \in Epochs \union {NoEpoch}

\* A call passes, and a status receipt says Running, only at an even epoch
\* that the operator released for this device: the counter, the record and
\* the signature are read at three different times, with the files and the
\* counter changing in between (core.rs gate, port.rs ReleaseFiles::read).
RunsOnlyReleased ==
  \A p \in Procs : out[p].kind \in {"allow", "running"} =>
    Running(out[p].epoch) /\ Released(out[p].epoch)

\* "A stop applies to checks that begin after trip returns" (main.rs): once
\* any command has told an operator of a stop, by success, failure or a
\* receipt, no question that arrives later is allowed at that epoch or an
\* earlier one, whatever else moves the counter or replaces it.
ToldStopHolds ==
  out[Service].kind = "allow" => out[Service].epoch > floor

\* "stop counter a -> b" (main.rs admin) is printed only when the command's
\* own increment was that step, and nobody else's came between its two
\* reads (core.rs move_to).
ChangedIsOwnStep ==
  \A c \in Commands : out[c].kind = "changed" =>
    out[c].epoch = moved[c] /\ moved[c] = seen[c] + 1

\* While only tactiq-stop moves the counter, the lock makes every command's
\* increment land where its operator asked: a trip never ends a stop, and a
\* recover moves only onto an epoch the operator released (core.rs trip,
\* recover; main.rs admin_lock). An increment left by a killed command can
\* upset only the command that has the lock when it lands, and none after it.
CommandsMoveAsAsked ==
  stray # "landed" =>
    \A c \in Commands : moved[c] # NoEpoch =>
      /\ Running(moved[c]) = WantRunning(c)
      /\ op[c] = "recover" => Released(moved[c])

\* While only tactiq-stop moves the counter, a trip that asks the service is
\* never told "THE SERVICE STILL ANSWERS 200" (main.rs
\* confirm_through_service): the lock is held until the answer. Again but for
\* a killed command's increment that lands while this one has the lock.
ProbeConfirmsTrip ==
  stray # "landed" /\ pc[Service] = "reply" /\ caller # Gateway =>
    (op[caller] = "trip" => out[Service].kind # "allow")

\* core.rs recover: "The release is checked before the increment, so a
\* missing or wrong release changes nothing. On an even counter it does
\* nothing if that value already has a valid release, and fails if it has
\* none": whatever epoch a recover reports it succeeded at is a released one.
RecoverSucceedsReleased ==
  stray # "landed" =>
    \A c \in Commands :
      op[c] = "recover" /\ out[c].kind \in {"changed", "already"} =>
        Released(out[c].epoch)

\* "finish it rather than leave an index nothing can read" (main.rs define):
\* while only tactiq-stop moves the counter, a define that prints an outcome,
\* even a failure, leaves a written index, though an earlier one was killed
\* before its first increment or while that increment was under way. And the
\* epoch any command succeeds at is the counter's, of the parity its operator
\* asked for, until the command lets the lock go; an unwritten index never
\* passes for one. Once more but for a killed command's increment under the
\* same lock.
EndsAsReported ==
  \A c \in Commands :
    /\ op[c] \in Definers /\ pc[c] = "report" => index = "written"
    /\ stray # "landed" /\ out[c].kind \in {"changed", "already"} =>
         /\ index = "written"
         /\ counter = out[c].epoch
         /\ Running(counter) = WantRunning(c)

\* A command never waits for the lock for ever, though its holder hangs at a
\* TPM tool (main.rs admin_lock).
LockWaitEnds ==
  \A c \in Commands : pc[c] = "wait" ~> pc[c] # "wait"

\* A command that asks the service ends, whatever the service is doing
\* (main.rs confirm_through_service).
ProbeReturns ==
  \A c \in Commands : pc[c] = "confirm" ~> pc[c] = "idle"

\* The service is free again after every connection it takes, though the
\* client stays silent or a command hangs with the admin lock: neither stops
\* the gateway's answers (main.rs serve, handle; http.rs read_request: "a
\* client that sends one byte at a time cannot hold the (single) connection
\* slot past this").
QuestionAnswered ==
  pc[Service] = "request" ~> pc[Service] \in {"idle", "down"}

\* The stage of the question, out of where the service stands.
Stage(label) ==
  IF label \in {"down", "idle"} THEN "idle"
  ELSE IF label \in {"request", "read"} THEN "open"
  ELSE IF label = "reply" THEN "answered"
  ELSE "looked"

\* The service and the commands keep the promise of StopPromise: every
\* answer is one value of the counter, looked at while the question was open.
Promise == INSTANCE StopPromise WITH
  epoch  <- counter,
  told   <- told,
  stage  <- Stage(pc[Service]),
  floor  <- floor,
  sample <- seen[Service],
  answer <- out[Service].kind

KeepsPromise == Promise!PromiseSpec
=============================================================================
