--------------------------- MODULE StopLockProofs ---------------------------
(***************************************************************************)
(* Proofs about the operator commands of StopService. For any number of    *)
(* commands and whatever else moves the counter, a step a command reports  *)
(* is its own. While only tactiq-stop moves it, an increment lands where   *)
(* its operator asked, a trip's question is denied, and a recover ends at  *)
(* an epoch the operator released.                                         *)
(***************************************************************************)
EXTENDS StopServiceProofs

\* Where a command has made its increment, and where it has its outcome.
Moved == {"back", "now", "report", "confirm", "asked", "unanswered"}
Ended == {"report", "confirm", "asked", "unanswered"}

Locked(c) == pc[c] \notin {"idle", "wait"}

\* What the place of a command implies: it has the lock wherever it does
\* anything; its own increment is above the value it read before, and no
\* index is being defined behind its back.
CmdInv(c) ==
  /\ Locked(c) => lock = c
  /\ pc[c] \notin Moved => moved[c] = NoEpoch
  /\ pc[c] \notin Ended => out[c] = Nothing
  /\ pc[c] = "increment" => index # "unwritten" /\ seen[c] <= counter
  /\ pc[c] = "back" => moved[c] # NoEpoch
  /\ moved[c] # NoEpoch => seen[c] < moved[c] /\ moved[c] <= counter
  /\ out[c].kind = "changed" => out[c].epoch = moved[c] /\ moved[c] = seen[c] + 1

\* A command whose question is being answered is waiting for the answer.
CallerInv == caller # Gateway => caller \in Commands /\ pc[caller] = "asked"

LockInv == CallerInv /\ \A c \in Commands : CmdInv(c)

\* Nothing of a command changes.
Same(c) ==
  /\ pc'[c] = pc[c] /\ seen'[c] = seen[c] /\ out'[c] = out[c]
  /\ op'[c] = op[c] /\ moved'[c] = moved[c]

LEMMA CmdStays ==
  ASSUME TypeOK, TypeOK', NEW c \in Commands, CmdInv(c), Same(c),
         counter' >= counter, lock = c => lock' = c,
         Locked(c) => index' # "unwritten" \/ index' = index
  PROVE  CmdInv(c)'
<1>1. /\ counter \in Int /\ counter' \in Int
      /\ seen[c] \in Int /\ moved[c] \in Int
  BY DEF TypeOK, Epochs, NoEpoch, Procs
<1> QED
  BY <1>1 DEF CmdInv, Same, Locked

\* A command that has ended.
LEMMA CmdEnded ==
  ASSUME NEW c \in Commands, pc'[c] = "idle", moved'[c] = NoEpoch, out'[c] = Nothing
  PROVE  CmdInv(c)'
BY DEF CmdInv, Locked, Nothing

\* The counter never falls, and moves up once it was written.
LEMMA CounterRises ==
  ASSUME TypeOK, NvIncrement
  PROVE  /\ counter' \in Int /\ counter' >= counter /\ index' = "written"
         /\ index = "written" => counter' = counter + 1
BY ReleaseAssumption DEF NvIncrement, TypeOK, Epochs

LEMMA LockInit == Init => LockInv
BY ServiceAssumption
   DEF Init, LockInv, CmdInv, CallerInv, Locked, Procs, Nothing

\* A step of one command, or of the service, that keeps the lock where it is:
\* everybody else stays, and the caller waits on.
LEMMA OthersStay ==
  ASSUME TypeOK, TypeOK', LockInv, NEW p \in Procs,
         \A c \in Commands \ {p} : Same(c), UNCHANGED <<lock, caller>>,
         counter' >= counter,
         \A c \in Commands \ {p} : Locked(c) => index' # "unwritten" \/ index' = index,
         p \in Commands => pc[p] # "asked" /\ CmdInv(p)'
  PROVE  LockInv'
<1>1. ASSUME NEW c \in Commands
      PROVE  CmdInv(c)'
  <2>1. CASE c = p
    BY <2>1
  <2>2. CASE c # p
    BY <2>2, CmdStays DEF LockInv
  <2> QED
    BY <2>1, <2>2
<1>2. CallerInv'
  BY DEF LockInv, CallerInv, Same
<1> QED
  BY <1>1, <1>2 DEF LockInv

\* A command ends: the lock it may have goes with it.
LEMMA ExitKeeps ==
  ASSUME TypeOK, TypeOK', LockInv, NEW c \in Commands, Exit(c),
         counter' = counter, index' = index \/ index' = "written",
         caller' = IF caller = c THEN Gateway ELSE caller
  PROVE  LockInv'
<1>1. c \in Procs /\ \A d \in Commands : d \in Procs
  BY DEF Procs
<1>2. \A d \in Commands \ {c} : Same(d)
  BY <1>1 DEF Exit, Goto, Same, TypeOK
<1>3. CmdInv(c)'
  BY <1>1, CmdEnded DEF Exit, Goto, TypeOK
<1>4. ASSUME NEW d \in Commands
      PROVE  CmdInv(d)'
  <2>1. CASE d = c
    BY <1>3, <2>1
  <2>2. CASE d # c
    <3>1. lock = d => lock' = d
      BY <2>2 DEF Exit
    <3>2. counter' >= counter
      BY DEF TypeOK, Epochs
    <3> QED
      BY <1>2, <2>2, <3>1, <3>2, CmdStays DEF LockInv
  <2> QED
    BY <2>1, <2>2
<1>5. CallerInv'
  BY <1>2, ServiceAssumption DEF LockInv, CallerInv, Same
<1> QED
  BY <1>4, <1>5 DEF LockInv

-----------------------------------------------------------------------------
\* The steps of the gate, walked by the service or by a command.
LEMMA LockGate ==
  ASSUME TypeOK, TypeOK', LockInv, NEW p \in Procs, GateStep(p)
  PROVE  LockInv'
<1> USE ServiceAssumption
<1>1. /\ pc[p] \in {"read", "record", "sig", "certify"}
      /\ UNCHANGED <<index, counter, lock, op, moved, caller>>
      /\ \A c \in Commands \ {p} : Same(c)
  BY DEF GateStep, ReadCounter, ReadRecord, ReadSigAndCheck, Certify, Open,
         Unreleased, GateError, Conclude, Goto, Same, TypeOK, Procs, tpm, admin, call
<1>2. CASE p \in Commands
  <2>1. moved[p] = NoEpoch /\ lock = p /\ moved'[p] = NoEpoch
    BY <1>1, <1>2 DEF LockInv, CmdInv, Locked, Moved
  <2>2. \/ pc'[p] \in {"record", "sig", "certify", "from"} /\ out'[p] = out[p]
        \/ pc'[p] = "report" /\ out'[p].kind # "changed"
    BY <1>2 DEF GateStep, ReadCounter, ReadRecord, ReadSigAndCheck, Certify, Open,
         Unreleased, GateError, Conclude, Goto, TypeOK
  <2>3. out[p] = Nothing
    BY <1>1, <1>2 DEF LockInv, CmdInv, Ended
  <2>4. CmdInv(p)'
    BY <1>1, <2>1, <2>2, <2>3 DEF CmdInv, Locked, Moved, Ended, Nothing
  <2>5. counter' >= counter
    BY <1>1 DEF TypeOK, Epochs
  <2> QED
    BY <1>1, <2>4, <2>5, OthersStay
<1>3. CASE p \notin Commands
  <2>1. counter' >= counter
    BY <1>1 DEF TypeOK, Epochs
  <2> QED
    BY <1>1, <1>3, <2>1, OthersStay
<1> QED
  BY <1>2, <1>3

\* The service's own steps, and those of the rest of the device.
LEMMA LockService ==
  ASSUME TypeOK, TypeOK', LockInv,
         \/ ServiceStart \/ ServiceStop \/ RequestComplete \/ RequestEnds \/ Reply
         \/ \E who \in Commands \union {Gateway} : Accept(who)
  PROVE  LockInv'
<1> USE ServiceAssumption DEF Procs
<1>0. counter' = counter /\ index' = index /\ counter' >= counter
  BY DEF ServiceStart, ServiceStop, RequestComplete, RequestEnds, Reply, Accept,
         tpm, TypeOK, Epochs
<1>1. CASE ServiceStart \/ RequestComplete \/ RequestEnds
  <2>1. UNCHANGED <<lock, caller>> /\ \A c \in Commands \ {Service} : Same(c)
    BY <1>1 DEF ServiceStart, RequestComplete, RequestEnds, Conclude, Goto, Same,
                TypeOK, admin, call
  <2> QED
    BY <1>0, <2>1, OthersStay
<1>2. ASSUME NEW who \in Commands \union {Gateway}, Accept(who)
      PROVE  LockInv'
  <2>1. UNCHANGED lock /\ \A c \in Commands : Same(c)
    BY <1>2 DEF Accept, Goto, Same, TypeOK, admin
  <2>2. CallerInv'
    BY <1>2, <2>1 DEF Accept, CallerInv, Same
  <2> QED
    BY <1>0, <2>1, <2>2, CmdStays DEF LockInv
<1>3. CASE ServiceStop
  <2>1. caller' = Gateway /\ UNCHANGED <<lock, op, moved>>
    BY <1>3 DEF ServiceStop, admin
  <2>2. ASSUME NEW c \in Commands
        PROVE  CmdInv(c)'
    <3>1. /\ pc'[c] = IF pc[c] = "asked" THEN "unanswered" ELSE pc[c]
          /\ seen'[c] = seen[c] /\ out'[c] = out[c] /\ moved'[c] = moved[c]
      BY <1>3, <2>1 DEF ServiceStop, TypeOK
    <3>2. CASE pc[c] # "asked"
      BY <1>0, <2>1, <3>1, <3>2, CmdStays DEF LockInv, Same
    <3>3. CASE pc[c] = "asked"
      BY <1>0, <2>1, <3>1, <3>3 DEF LockInv, CmdInv, Locked, Moved, Ended
    <3> QED
      BY <3>2, <3>3
  <2> QED
    BY <2>1, <2>2 DEF LockInv, CallerInv
<1>4. CASE Reply
  <2>1. caller' = Gateway
    BY <1>4 DEF Reply
  <2>2. ASSUME NEW c \in Commands
        PROVE  CmdInv(c)'
    <3>1. CASE c = caller
      <4>1. pc'[c] = "idle" /\ moved'[c] = NoEpoch /\ out'[c] = Nothing
        BY <1>4, <3>1 DEF Reply
      <4> QED
        BY <4>1, CmdEnded
    <3>2. CASE c # caller
      <4>1. Same(c) /\ (lock = c => lock' = c)
        BY <1>4, <3>2 DEF Reply, Same
      <4> QED
        BY <1>0, <4>1, CmdStays DEF LockInv
    <3> QED
      BY <3>1, <3>2
  <2> QED
    BY <2>1, <2>2 DEF LockInv, CallerInv
<1> QED
  BY <1>1, <1>2, <1>3, <1>4

LEMMA LockWorld ==
  ASSUME TypeOK, TypeOK', LockInv,
         \/ OutsideIncrement \/ StrayIncrement \/ OwnerDelete
         \/ WriteRecord \/ WriteSig \/ UNCHANGED vars
  PROVE  LockInv'
<1>1. /\ UNCHANGED <<lock, caller, op, moved, pc, seen, out>>
      /\ NvIncrement \/ (counter' = counter /\ index' \in {index, "absent"})
  BY DEF OutsideIncrement, StrayIncrement, OwnerDelete, WriteRecord, WriteSig,
         vars, tpm, admin, call
<1>2. counter' >= counter /\ (index' # "unwritten" \/ index' = index)
  BY <1>1, CounterRises DEF TypeOK, Epochs
<1>3. \A c \in Commands : Same(c)
  BY <1>1 DEF Same
<1>4. CallerInv'
  BY <1>1 DEF LockInv, CallerInv
<1> QED
  BY <1>1, <1>2, <1>3, <1>4, CmdStays DEF LockInv

-----------------------------------------------------------------------------
\* The steps of one command.
LEMMA LockCommand ==
  ASSUME TypeOK, TypeOK', LockInv, NEW c \in Commands,
         CommandStep(c) \/ \E o \in Ops : Invoke(c, o)
  PROVE  LockInv'
<1> USE ServiceAssumption DEF Procs
<1>0. /\ CmdInv(c) /\ CallerInv /\ c \in Procs /\ c # Service
      /\ counter \in Int /\ MaxEpoch \in Nat
      /\ \A d \in Commands : d \in Procs
  BY ReleaseAssumption DEF LockInv, TypeOK, Epochs
<1>1. \A d \in Commands \ {c} : Locked(c) => ~Locked(d)
  BY <1>0 DEF LockInv, CmdInv
<1>2. ASSUME Exit(c), UNCHANGED <<index, counter, caller>>, pc[c] # "asked"
      PROVE  LockInv'
  <2>1. caller # c
    BY <1>0, <1>2 DEF CallerInv
  <2> QED
    BY <1>2, <2>1, ExitKeeps
<1>3. ASSUME \A d \in Commands \ {c} : Same(d), UNCHANGED <<lock, caller>>,
             counter' >= counter, pc[c] # "asked", CmdInv(c)',
             Locked(c) \/ index' = index
      PROVE  LockInv'
  BY <1>0, <1>1, <1>3, OthersStay
<1>4. CASE \E o \in Ops : Invoke(c, o)
  <2>1. /\ \A d \in Commands \ {c} : Same(d)
        /\ UNCHANGED <<lock, caller, index, counter>> /\ pc[c] = "idle"
        /\ pc'[c] = "wait" /\ moved'[c] = moved[c] /\ out'[c] = out[c]
    BY <1>0, <1>4 DEF Invoke, Goto, Same, TypeOK, tpm, call
  <2>2. CmdInv(c)'
    BY <1>0, <2>1 DEF CmdInv, Locked, Moved, Ended, Nothing
  <2> QED
    BY <1>0, <1>3, <2>1, <2>2
<1>5. CASE AdminLock(c)
  <2>1. /\ \A d \in Commands \ {c} : Same(d)
        /\ lock = NoOne /\ lock' = c /\ UNCHANGED <<caller, index, counter>>
        /\ pc[c] = "wait" /\ pc'[c] \in {"query", "verify"}
        /\ moved'[c] = moved[c] /\ out'[c] = out[c]
    BY <1>0, <1>5 DEF AdminLock, Goto, Same, TypeOK, call
  <2>2. CmdInv(c)'
    BY <1>0, <2>1 DEF CmdInv, Moved, Ended, Nothing
  <2>3. \A d \in Commands \ {c} : CmdInv(d)'
    BY <1>0, <2>1, CmdStays DEF LockInv
  <2>4. CallerInv'
    BY <1>0, <2>1 DEF CallerInv, Same
  <2> QED
    BY <2>2, <2>3, <2>4 DEF LockInv
<1>6. CASE LockTimeout(c)
  BY <1>2, <1>6 DEF LockTimeout, tpm, call
<1>7. CASE VerifyStopCounter(c) \/ QueryIndex(c) \/ CreateIndex(c)
  <2>1. /\ pc[c] \in {"verify", "query", "create"} /\ counter' = counter /\ caller' = caller
        /\ \/ Exit(c) /\ index' = index
           \/ /\ pc' = [pc EXCEPT ![c] = pc'[c]] /\ pc'[c] \in {"read", "from", "create", "write"}
              /\ UNCHANGED <<lock, op, moved, seen, out>>
    BY <1>0, <1>7 DEF VerifyStopCounter, QueryIndex, CreateIndex, Goto, TypeOK, tpm, call
  <2>2. CASE Exit(c) /\ index' = index
    BY <1>2, <2>1, <2>2
  <2>3. CASE UNCHANGED <<lock, op, moved, seen, out>> /\ pc' = [pc EXCEPT ![c] = pc'[c]]
             /\ pc'[c] \in {"read", "from", "create", "write"}
    <3>1. \A d \in Commands \ {c} : Same(d)
      BY <2>3 DEF Same, TypeOK
    <3>2. CmdInv(c)'
      BY <1>0, <2>1, <2>3 DEF CmdInv, Locked, Moved, Ended, Nothing
    <3> QED
      BY <1>0, <1>3, <2>1, <2>3, <3>1, <3>2 DEF Locked
  <2> QED
    BY <2>1, <2>2, <2>3
<1>8. CASE FirstWrite(c)
  <2>1. CASE NvIncrement /\ Goto(c, "verify") /\ UNCHANGED <<lock, op, moved, seen, got, out>>
    <3>1. /\ pc[c] = "write" /\ pc'[c] = "verify" /\ caller' = caller
          /\ \A d \in Commands \ {c} : Same(d)
      BY <1>0, <1>8, <2>1 DEF FirstWrite, Goto, Same, TypeOK, call
    <3>2. CmdInv(c)'
      BY <1>0, <2>1, <3>1 DEF CmdInv, Locked, Moved, Ended, Nothing
    <3> QED
      BY <1>0, <1>3, <2>1, <3>1, <3>2, CounterRises DEF Locked
  <2>2. CASE Exit(c) /\ UNCHANGED <<index, counter>>
    BY <1>2, <1>8, <2>2 DEF FirstWrite, call
  <2> QED
    BY <1>8, <2>1, <2>2 DEF FirstWrite
<1>9. CASE ReadFrom(c)
  <2>1. /\ pc[c] = "from" /\ UNCHANGED <<index, counter, lock, op, moved, caller>>
        /\ \A d \in Commands \ {c} : Same(d)
    BY <1>0, <1>9 DEF ReadFrom, Conclude, Goto, Same, TypeOK, tpm, admin, call
  <2>2. \/ /\ index = "written" /\ seen'[c] = counter
           /\ pc'[c] = "increment" /\ out'[c] = out[c]
        \/ pc'[c] = "report" /\ out'[c].kind # "changed"
    BY <1>0, <1>9 DEF ReadFrom, Conclude, Goto, TypeOK
  <2>3. CmdInv(c)'
    BY <1>0, <2>1, <2>2 DEF CmdInv, Locked, Moved, Ended, Nothing
  <2> QED
    BY <1>0, <1>3, <2>1, <2>3
<1>10. CASE Increment(c)
  <2>1. /\ pc[c] = "increment" /\ UNCHANGED <<lock, op, seen, out, caller>>
        /\ pc'[c] \in {"back", "now"} /\ \A d \in Commands \ {c} : Same(d)
        /\ \/ NvIncrement /\ moved'[c] = counter'
           \/ pc'[c] = "now" /\ UNCHANGED <<index, counter, moved>>
    BY <1>0, <1>10 DEF Increment, Goto, Same, TypeOK, call
  <2>2. CASE NvIncrement /\ moved'[c] = counter'
    <3>1. /\ counter' = counter + 1 /\ counter' >= counter /\ counter' \in Int
          /\ counter' # NoEpoch /\ index' = "written"
      BY <1>0, <2>1, <2>2, CounterRises DEF CmdInv, NvIncrement, TypeOK, Epochs, NoEpoch
    <3>2. seen[c] \in Int
      BY <1>0 DEF TypeOK, Epochs, NoEpoch
    <3>3. CmdInv(c)'
      BY <1>0, <2>1, <2>2, <3>1, <3>2 DEF CmdInv, Locked, Moved, Ended, Nothing
    <3> QED
      BY <1>0, <1>3, <2>1, <3>1, <3>3 DEF Locked
  <2>3. CASE pc'[c] = "now" /\ UNCHANGED <<index, counter, moved>>
    <3>1. CmdInv(c)'
      BY <1>0, <2>1, <2>3 DEF CmdInv, Locked, Moved, Ended, Nothing
    <3> QED
      BY <1>0, <1>3, <2>1, <2>3, <3>1
  <2> QED
    BY <2>1, <2>2, <2>3
<1>11. CASE ReadBack(c) \/ ReadNow(c)
  <2>1. /\ pc[c] \in {"back", "now"}
        /\ UNCHANGED <<index, counter, lock, op, moved, seen, caller>>
        /\ \A d \in Commands \ {c} : Same(d)
    BY <1>0, <1>11 DEF ReadBack, ReadNow, Conclude, Goto, Same, TypeOK, tpm, admin, call
  <2>2. \/ pc'[c] = "now" /\ out'[c] = out[c]
        \/ /\ pc'[c] = "report"
           /\ out'[c].kind = "changed" => /\ counter = seen[c] + 1 /\ pc[c] = "back"
                                          /\ out'[c].epoch = counter
    BY <1>0, <1>11 DEF ReadBack, ReadNow, Conclude, Goto, TypeOK
  <2>3. moved[c] \in Int /\ seen[c] \in Int
    BY <1>0 DEF TypeOK, Epochs, NoEpoch
  <2>4. CmdInv(c)'
    BY <1>0, <2>1, <2>2, <2>3 DEF CmdInv, Locked, Moved, Ended, Nothing
  <2> QED
    BY <1>0, <1>3, <2>1, <2>4
<1>12. CASE Report(c) \/ Connect(c)
  <2>1. /\ pc[c] \in {"report", "confirm"} /\ UNCHANGED <<index, counter, caller>>
        /\ \/ Exit(c)
           \/ /\ pc' = [pc EXCEPT ![c] = pc'[c]] /\ pc'[c] \in {"confirm", "asked"}
              /\ UNCHANGED <<lock, op, moved, seen, out>>
    BY <1>0, <1>12 DEF Report, Connect, Goto, TypeOK, tpm, call
  <2>2. CASE Exit(c)
    BY <1>2, <2>1, <2>2
  <2>3. CASE UNCHANGED <<lock, op, moved, seen, out>> /\ pc' = [pc EXCEPT ![c] = pc'[c]]
             /\ pc'[c] \in {"confirm", "asked"}
    <3>1. \A d \in Commands \ {c} : Same(d)
      BY <2>3 DEF Same, TypeOK
    <3>2. CmdInv(c)'
      BY <1>0, <2>1, <2>3 DEF CmdInv, Locked, Moved, Ended
    <3> QED
      BY <1>0, <1>3, <2>1, <2>3, <3>1, <3>2
  <2> QED
    BY <2>1, <2>2, <2>3
<1>13. CASE ProbeEnds(c)
  BY <1>13, ExitKeeps DEF ProbeEnds, Abandon, tpm
<1>14. CASE Kill(c)
  BY <1>2, <1>14 DEF Kill, call
<1> QED
  BY <1>4, <1>5, <1>6, <1>7, <1>8, <1>9, <1>10, <1>11, <1>12, <1>13, <1>14
     DEF CommandStep

LEMMA LockStep == TypeOK /\ TypeOK' /\ LockInv /\ [Next]_vars => LockInv'
<1> SUFFICES ASSUME TypeOK, TypeOK', LockInv, [Next]_vars
             PROVE  LockInv'
  OBVIOUS
<1> QED
  BY LockGate, LockService, LockWorld, LockCommand DEF Next

LEMMA LockInvCorrect == Spec => []LockInv
<1>1. Spec => []TypeOK
  BY TypeCorrect
<1> QED
  BY <1>1, LockInit, LockStep, PTL DEF Spec

\* "stop counter a -> b" is printed only for the command's own step (core.rs
\* move_to), whatever else moves, deletes or fails the counter meanwhile.
THEOREM ReportedStepsAreOwn == Spec => []ChangedIsOwnStep
<1>1. LockInv => ChangedIsOwnStep
  BY DEF LockInv, CmdInv, ChangedIsOwnStep
<1> QED
  BY <1>1, LockInvCorrect, PTL

-----------------------------------------------------------------------------
(***************************************************************************)
(* While only tactiq-stop moves the counter. The command that has the lock *)
(* is then the only one to move it, but for an increment that a killed     *)
(* command left behind, so what it read of the counter still holds when it *)
(* acts on it: at the release check, at its increment, and until the       *)
(* service has answered the question it asks before it lets the lock go.   *)
(***************************************************************************)
\* The value a command is asked to move the counter to.
Asked(c, epoch) ==
  /\ Running(epoch) = WantRunning(c)
  /\ op[c] = "recover" => Released(epoch)

Quiet(c) ==
  /\ pc[c] \in {"record", "sig"} => seen[c] = counter
  /\ pc[c] = "from" /\ op[c] = "recover" => ~Running(counter) /\ Released(counter + 1)
  /\ pc[c] = "increment" => index = "written" /\ Asked(c, counter + 1)
  /\ moved[c] # NoEpoch => moved[c] = counter /\ Asked(c, counter)
  /\ out[c].kind = "already" /\ op[c] = "recover" => Released(out[c].epoch)
  /\ out[c].kind = "already" => out[c].epoch = counter /\ Running(counter) = WantRunning(c)
  /\ out[c].kind \in {"changed", "already"} /\ op[c] = "trip" => ~Running(counter)
  /\ pc[c] \in {"confirm", "asked"} => out[c].kind \in {"changed", "already"}

\* The service answers the question of a trip.
QuietAnswer ==
  caller # Gateway /\ op[caller] = "trip" =>
    /\ ~Running(counter)
    /\ pc[Service] \notin {"record", "sig"}
    /\ out[Service].kind # "allow"

AllQuiet == QuietAnswer /\ \A c \in Commands : Quiet(c)

QuietInv == stray # "landed" => AllQuiet

\* Places where a command has read nothing of the counter yet.
Early == {"idle", "wait", "verify", "query", "create", "write", "read"}

LEMMA Parity == ASSUME NEW n \in Nat PROVE Running(n + 1) = ~Running(n)
BY DEF Running

LEMMA Calm ==
  ASSUME NEW c \in Commands, CmdInv(c)', pc'[c] \in Early
  PROVE  Quiet(c)'
BY DEF CmdInv, Quiet, Early, Moved, Ended, Nothing

LEMMA QuietStays ==
  ASSUME NEW c \in Commands, CmdInv(c), CmdInv(c)', Quiet(c), Same(c),
         Locked(c) => counter' = counter /\ index' = index
  PROVE  Quiet(c)'
<1>1. CASE Locked(c)
  BY <1>1 DEF Same, Quiet, Asked, WantRunning
<1>2. CASE ~Locked(c)
  BY <1>2, Calm DEF Same, Locked, Early
<1> QED
  BY <1>1, <1>2

LEMMA AnswerStays ==
  ASSUME QuietAnswer, caller' \in {caller, Gateway},
         caller' # Gateway => op'[caller] = op[caller] /\ counter' = counter,
         pc'[Service] = pc[Service], out'[Service] = out[Service]
  PROVE  QuietAnswer'
BY DEF QuietAnswer

\* A step of one command that no answer is under way to.
LEMMA CommandQuiet ==
  ASSUME LockInv, LockInv', AllQuiet, NEW c \in Commands,
         \A d \in Commands \ {c} : Same(d),
         pc'[Service] = pc[Service], out'[Service] = out[Service],
         caller' = caller, pc[c] # "asked",
         Locked(c) \/ (counter' = counter /\ index' = index),
         Quiet(c)'
  PROVE  AllQuiet'
<1>1. ASSUME NEW d \in Commands \ {c}
      PROVE  Quiet(d)'
  <2>1. Locked(d) => counter' = counter /\ index' = index
    BY DEF LockInv, CmdInv
  <2> QED
    BY <2>1, QuietStays DEF LockInv, AllQuiet
<1>2. QuietAnswer'
  <2>1. caller # Gateway => caller \in Commands \ {c} /\ lock = caller
    BY DEF LockInv, CallerInv, CmdInv, Locked
  <2>2. caller # Gateway => op'[caller] = op[caller] /\ counter' = counter
    BY <2>1 DEF LockInv, CmdInv, Same
  <2> QED
    BY <2>2, AnswerStays DEF AllQuiet
<1> QED
  BY <1>1, <1>2 DEF AllQuiet

\* A command ends; nothing else changes.
LEMMA ExitQuiet ==
  ASSUME TypeOK, LockInv, LockInv', AllQuiet, NEW c \in Commands, Exit(c),
         UNCHANGED <<index, counter>>,
         caller' = IF caller = c THEN Gateway ELSE caller
  PROVE  AllQuiet'
<1>1. c \in Procs /\ Service \in Procs /\ Service # c /\ \A d \in Commands : d \in Procs
  BY ServiceAssumption DEF Procs
<1>2. /\ pc'[c] = "idle" /\ \A d \in Commands \ {c} : Same(d)
      /\ pc'[Service] = pc[Service] /\ out'[Service] = out[Service]
  BY <1>1 DEF Exit, Goto, Same, TypeOK
<1>3. Quiet(c)'
  BY <1>2, Calm DEF LockInv, Early
<1>4. \A d \in Commands \ {c} : Quiet(d)'
  BY <1>2, QuietStays DEF LockInv, AllQuiet
<1>5. QuietAnswer'
  BY <1>2, AnswerStays DEF AllQuiet, LockInv, CallerInv, Same
<1> QED
  BY <1>3, <1>4, <1>5 DEF AllQuiet

\* Nobody has the lock once the step is taken but the one who just got it.
LEMMA FreshQuiet ==
  ASSUME LockInv', caller' = Gateway, \A c \in Commands : pc'[c] \in Early
  PROVE  AllQuiet'
BY Calm DEF LockInv, AllQuiet, QuietAnswer

-----------------------------------------------------------------------------
LEMMA QuietGate ==
  ASSUME TypeOK, LockInv, LockInv', AllQuiet, NEW p \in Procs, GateStep(p)
  PROVE  AllQuiet'
<1> USE ServiceAssumption
<1>1. /\ pc[p] \in {"read", "record", "sig", "certify"} /\ counter \in Nat
      /\ UNCHANGED <<index, counter, op, moved, caller>>
      /\ \A c \in Commands \ {p} : Same(c)
      /\ p # Service => pc'[Service] = pc[Service] /\ out'[Service] = out[Service]
  BY DEF GateStep, ReadCounter, ReadRecord, ReadSigAndCheck, Certify, Open,
         Unreleased, GateError, Conclude, Goto, Same, TypeOK, Epochs, Procs, tpm, admin, call
<1>2. CASE p \in Commands
  <2>1. moved[p] = NoEpoch /\ out[p] = Nothing /\ p # Service
    BY <1>1, <1>2 DEF LockInv, CmdInv, Moved, Ended
  <2>2. ASSUME pc'[p] = "certify" /\ out'[p] = out[p]
        PROVE  Quiet(p)'
    BY <1>1, <2>1, <2>2 DEF Quiet, Nothing
  <2>3. ASSUME pc'[p] = "report" /\ out'[p].kind \notin {"changed", "already"}
        PROVE  Quiet(p)'
    BY <1>1, <2>1, <2>3 DEF Quiet, Nothing
  <2>4. ASSUME ReadCounter(p)
        PROVE  Quiet(p)'
    <3>1. \/ pc'[p] = "record" /\ seen'[p] = counter /\ out'[p] = out[p]
          \/ pc'[p] = "certify" /\ out'[p] = out[p]
          \/ pc'[p] = "report" /\ out'[p].kind \notin {"changed", "already"}
      BY <1>2, <2>1, <2>4 DEF ReadCounter, Conclude, Goto, TypeOK
    <3>2. CASE pc'[p] = "record" /\ seen'[p] = counter /\ out'[p] = out[p]
      BY <1>1, <2>1, <3>2 DEF Quiet, Nothing
    <3> QED
      BY <2>2, <2>3, <3>1, <3>2 DEF Quiet
  <2>5. ASSUME ReadRecord(p)
        PROVE  Quiet(p)'
    <3>1. /\ pc[p] = "record" /\ seen'[p] = seen[p]
          /\ \/ pc'[p] = "sig" /\ out'[p] = out[p]
             \/ pc'[p] = "certify" /\ out'[p] = out[p]
             \/ pc'[p] = "report" /\ out'[p].kind \notin {"changed", "already"}
      BY <1>2, <2>1, <2>5 DEF ReadRecord, Unreleased, GateError, Conclude, Goto, TypeOK
    <3>2. CASE pc'[p] = "sig" /\ out'[p] = out[p]
      BY <1>1, <1>2, <2>1, <3>1, <3>2 DEF Quiet, Nothing, AllQuiet
    <3> QED
      BY <2>2, <2>3, <3>1, <3>2
  <2>6. ASSUME ReadSigAndCheck(p)
        PROVE  Quiet(p)'
    <3>1. pc[p] = "sig" /\ seen[p] = counter /\ seen'[p] = seen[p]
      BY <1>2, <2>6 DEF ReadSigAndCheck, AllQuiet, Quiet
    <3>2. \/ pc'[p] = "from" /\ out'[p] = out[p] /\ Released(Target(p)) /\ Target(p) # seen[p]
          \/ /\ pc'[p] = "report" /\ out'[p] = [kind |-> "already", epoch |-> seen[p]]
             /\ op[p] = "recover" /\ Released(seen[p]) /\ Running(seen[p])
          \/ pc'[p] = "certify" /\ out'[p] = out[p]
          \/ pc'[p] = "report" /\ out'[p].kind \notin {"changed", "already"}
      <4>1. ReleaseValid(got[p], sigFile, Target(p)) => Released(Target(p))
        BY ReleaseValidReleased DEF TypeOK
      <4>2. Recovers(p) /\ Target(p) = seen[p] => Running(seen[p])
        BY <1>1, <3>1 DEF Target
      <4> QED
        BY <1>2, <2>1, <2>6, <4>1, <4>2
           DEF ReadSigAndCheck, Open, Unreleased, GateError, Conclude, Goto, TypeOK, Recovers
    <3>3. CASE pc'[p] = "from" /\ out'[p] = out[p] /\ Released(Target(p)) /\ Target(p) # seen[p]
      <4>1. ~Running(counter) /\ Released(counter + 1)
        BY <3>1, <3>3 DEF Target
      <4> QED
        BY <1>1, <2>1, <3>3, <4>1 DEF Quiet, Nothing
    <3>4. CASE /\ pc'[p] = "report" /\ out'[p] = [kind |-> "already", epoch |-> seen[p]]
               /\ op[p] = "recover" /\ Released(seen[p]) /\ Running(seen[p])
      <4>1. Running(counter) = WantRunning(p)
        BY <3>1, <3>4 DEF Running, WantRunning
      <4>2. Running(counter') = WantRunning(p)'
        BY <1>1, <4>1 DEF WantRunning
      <4>3. out'[p].kind = "already" => out'[p].epoch = counter'
        BY <1>1, <3>1, <3>4
      <4> QED
        BY <1>1, <2>1, <3>4, <4>2, <4>3 DEF Quiet
    <3> QED
      BY <2>2, <2>3, <3>2, <3>3, <3>4
  <2>7. ASSUME Certify(p)
        PROVE  Quiet(p)'
    BY <1>2, <2>1, <2>3, <2>7 DEF Certify, Conclude, Goto, TypeOK
  <2>8. Quiet(p)'
    BY <2>4, <2>5, <2>6, <2>7 DEF GateStep
  <2> QED
    BY <1>1, <1>2, <2>1, <2>8, CommandQuiet
<1>3. CASE p = Service
  <2>1. \A c \in Commands : Quiet(c)'
    BY <1>1, <1>3, QuietStays DEF LockInv, AllQuiet
  <2>2. ASSUME caller # Gateway, op[caller] = "trip"
        PROVE  pc'[p] \notin {"record", "sig"} /\ out'[p].kind # "allow"
    BY <1>1, <1>3, <2>2
       DEF GateStep, ReadCounter, ReadRecord, ReadSigAndCheck, Certify, Conclude, Goto,
           TypeOK, Recovers, AllQuiet, QuietAnswer
  <2>3. QuietAnswer'
    BY <1>1, <1>3, <2>2 DEF AllQuiet, QuietAnswer
  <2> QED
    BY <2>1, <2>3 DEF AllQuiet
<1> QED
  BY <1>2, <1>3 DEF Procs

LEMMA QuietService ==
  ASSUME TypeOK, SafeInv, LockInv, LockInv', AllQuiet,
         \/ ServiceStart \/ ServiceStop \/ RequestComplete \/ RequestEnds \/ Reply
         \/ \E who \in Commands \union {Gateway} : Accept(who)
  PROVE  AllQuiet'
<1> USE ServiceAssumption DEF Procs
<1>0. UNCHANGED <<index, counter>>
  BY DEF ServiceStart, ServiceStop, RequestComplete, RequestEnds, Reply, Accept, tpm
<1>1. CASE ServiceStart \/ RequestComplete \/ RequestEnds
  <2>1. /\ UNCHANGED <<caller, op>> /\ \A c \in Commands : Same(c)
        /\ pc'[Service] \notin {"record", "sig"}
        /\ out'[Service] = out[Service] \/ out'[Service].kind = "error"
    BY <1>1 DEF ServiceStart, RequestComplete, RequestEnds, Conclude, Goto, Same,
                TypeOK, admin, call
  <2>2. QuietAnswer'
    BY <1>0, <2>1 DEF AllQuiet, QuietAnswer
  <2> QED
    BY <1>0, <2>1, <2>2, QuietStays DEF LockInv, AllQuiet
<1>2. ASSUME NEW who \in Commands \union {Gateway}, Accept(who)
      PROVE  AllQuiet'
  <2>1. /\ UNCHANGED op /\ caller' = who /\ \A c \in Commands : Same(c)
        /\ pc'[Service] = "request" /\ out'[Service] = out[Service]
    BY <1>2 DEF Accept, Goto, Same, TypeOK, admin
  <2>2. out[Service].kind # "allow"
    BY <1>2 DEF Accept, SafeInv, ProcInv, Fresh, Nothing
  <2>3. who # Gateway /\ op[who] = "trip" => ~Running(counter)
    BY <1>2 DEF Accept, AllQuiet, Quiet
  <2>4. QuietAnswer'
    BY <1>0, <2>1, <2>2, <2>3 DEF QuietAnswer
  <2> QED
    BY <1>0, <2>1, <2>4, QuietStays DEF LockInv, AllQuiet
<1>3. CASE ServiceStop
  <2>1. caller' = Gateway /\ UNCHANGED <<lock, op, moved>>
    BY <1>3 DEF ServiceStop, admin
  <2>2. ASSUME NEW c \in Commands
        PROVE  Quiet(c)'
    <3>1. /\ pc'[c] = IF pc[c] = "asked" THEN "unanswered" ELSE pc[c]
          /\ seen'[c] = seen[c] /\ out'[c] = out[c] /\ moved'[c] = moved[c] /\ op'[c] = op[c]
      BY <1>3, <2>1 DEF ServiceStop, TypeOK
    <3> QED
      BY <1>0, <3>1 DEF AllQuiet, Quiet, Asked, WantRunning
  <2> QED
    BY <2>1, <2>2 DEF AllQuiet, QuietAnswer
<1>4. CASE Reply
  <2>1. caller' = Gateway
    BY <1>4 DEF Reply
  <2>2. ASSUME NEW c \in Commands
        PROVE  Quiet(c)'
    <3>1. CASE c = caller
      <4>1. pc'[c] = "idle"
        BY <1>4, <3>1 DEF Reply
      <4> QED
        BY <4>1, Calm DEF LockInv, Early
    <3>2. CASE c # caller
      <4>1. Same(c)
        BY <1>4, <3>2 DEF Reply, Same
      <4> QED
        BY <1>0, <4>1, QuietStays DEF LockInv, AllQuiet
    <3> QED
      BY <3>1, <3>2
  <2> QED
    BY <2>1, <2>2 DEF AllQuiet, QuietAnswer
<1> QED
  BY <1>1, <1>2, <1>3, <1>4

\* Nobody else moves the counter, but an increment left behind, and that one
\* only while nobody has the lock.
LEMMA QuietWorld ==
  ASSUME ~Outside, TypeOK, LockInv, LockInv', QuietInv, stray' # "landed",
         \/ OutsideIncrement \/ StrayIncrement \/ OwnerDelete
         \/ WriteRecord \/ WriteSig \/ UNCHANGED vars
  PROVE  AllQuiet'
<1>1. UNCHANGED <<lock, caller, op, moved, pc, seen, out>>
  BY DEF OutsideIncrement, StrayIncrement, OwnerDelete, WriteRecord, WriteSig,
         vars, tpm, admin, call
<1>2. AllQuiet /\ (UNCHANGED <<index, counter>> \/ lock = NoOne)
  BY DEF OutsideIncrement, StrayIncrement, OwnerDelete, WriteRecord, WriteSig,
         vars, tpm, QuietInv
<1>3. \A c \in Commands : Same(c)
  BY <1>1 DEF Same
<1>4. CASE UNCHANGED <<index, counter>>
  <2>1. QuietAnswer'
    BY <1>1, <1>2, <1>4, AnswerStays DEF AllQuiet
  <2> QED
    BY <1>2, <1>3, <1>4, <2>1, QuietStays DEF LockInv, AllQuiet
<1>5. CASE lock = NoOne
  <2>1. \A c \in Commands : pc[c] \in {"idle", "wait"}
    BY <1>5, ServiceAssumption DEF LockInv, CmdInv, Locked
  <2>2. caller = Gateway
    BY <2>1 DEF LockInv, CallerInv
  <2> QED
    BY <1>1, <2>1, <2>2, FreshQuiet DEF Early
<1> QED
  BY <1>2, <1>4, <1>5

LEMMA QuietCommand ==
  ASSUME ~Outside, TypeOK, LockInv, LockInv', QuietInv, stray' # "landed",
         NEW c \in Commands, CommandStep(c) \/ \E o \in Ops : Invoke(c, o)
  PROVE  AllQuiet'
<1> USE ServiceAssumption DEF Procs
<1>0. /\ CmdInv(c) /\ CallerInv /\ c \in Procs /\ Service \in Procs /\ c # Service
      /\ counter \in Nat /\ \A d \in Commands : d \in Procs
  BY DEF LockInv, TypeOK, Epochs
<1>1. CASE AdminLock(c) \/ Kill(c)
  <2>1. CASE stray = "landed"
    <3>1. /\ \A d \in Commands \ {c} : pc'[d] = pc[d] /\ ~Locked(d)
          /\ pc'[c] \in {"idle", "query", "verify"} /\ caller' = caller /\ pc[c] # "asked"
      BY <1>0, <1>1, <2>1 DEF AdminLock, Kill, Exit, Goto, TypeOK, call, LockInv, CmdInv, Locked
    <3>2. caller' = Gateway
      BY <1>0, <3>1 DEF CallerInv, Locked
    <3> QED
      BY <3>1, <3>2, FreshQuiet DEF Early, Locked
  <2>2. CASE stray # "landed" /\ AdminLock(c)
    <3>1. /\ \A d \in Commands \ {c} : Same(d)
          /\ UNCHANGED <<index, counter, caller>> /\ pc[c] = "wait"
          /\ pc'[c] \in {"query", "verify"}
          /\ pc'[Service] = pc[Service] /\ out'[Service] = out[Service]
      BY <1>0, <2>2 DEF AdminLock, Goto, Same, TypeOK, call
    <3>2. Quiet(c)'
      BY <3>1, Calm DEF LockInv, Early
    <3> QED
      BY <2>2, <3>1, <3>2, CommandQuiet DEF QuietInv
  <2>3. CASE stray # "landed" /\ Kill(c)
    <3>1. Exit(c) /\ UNCHANGED <<index, counter, caller>> /\ caller # c
      BY <1>0, <2>3 DEF Kill, call, CallerInv
    <3> QED
      BY <2>3, <3>1, ExitQuiet DEF QuietInv
  <2> QED
    BY <1>1, <2>1, <2>2, <2>3
<1>2. CASE ~AdminLock(c) /\ ~Kill(c)
  <2>0. AllQuiet
    BY <1>2 DEF QuietInv, CommandStep, Invoke, LockTimeout, VerifyStopCounter, QueryIndex,
                CreateIndex, FirstWrite, ReadFrom, Increment, ReadBack, ReadNow, Report,
                Connect, ProbeEnds, tpm
  <2>1. ASSUME Exit(c), UNCHANGED <<index, counter, caller>>, pc[c] # "asked"
        PROVE  AllQuiet'
    <3>1. caller # c
      BY <1>0, <2>1 DEF CallerInv
    <3> QED
      BY <2>0, <2>1, <3>1, ExitQuiet
  <2>2. ASSUME pc' = [pc EXCEPT ![c] = pc'[c]], out' = [out EXCEPT ![c] = out'[c]],
               seen' = [seen EXCEPT ![c] = seen'[c]], moved' = [moved EXCEPT ![c] = moved'[c]],
               UNCHANGED <<op, caller>>, pc[c] # "asked",
               Locked(c), Quiet(c)'
        PROVE  AllQuiet'
    <3>1. /\ \A d \in Commands \ {c} : Same(d)
          /\ pc'[Service] = pc[Service] /\ out'[Service] = out[Service]
      BY <1>0, <2>2 DEF Same, TypeOK
    <3> QED
      BY <2>0, <2>2, <3>1, CommandQuiet
  <2>3. CASE \E o \in Ops : Invoke(c, o)
    <3>1. /\ \A d \in Commands \ {c} : Same(d)
          /\ UNCHANGED <<caller, index, counter>> /\ pc[c] = "idle" /\ pc'[c] = "wait"
          /\ pc'[Service] = pc[Service] /\ out'[Service] = out[Service]
      BY <1>0, <2>3 DEF Invoke, Goto, Same, TypeOK, tpm, call
    <3>2. Quiet(c)'
      BY <3>1, Calm DEF LockInv, Early
    <3> QED
      BY <2>0, <3>1, <3>2, CommandQuiet
  <2>4. CASE LockTimeout(c)
    BY <2>1, <2>4 DEF LockTimeout, tpm, call
  <2>5. CASE VerifyStopCounter(c) \/ QueryIndex(c) \/ CreateIndex(c) \/ FirstWrite(c)
    <3>1. /\ pc[c] \in {"verify", "query", "create", "write"} /\ caller' = caller
          /\ \/ Exit(c) /\ UNCHANGED <<index, counter>>
             \/ /\ pc' = [pc EXCEPT ![c] = pc'[c]]
                /\ \/ pc'[c] \in {"read", "create", "write", "verify"}
                   \/ pc'[c] = "from" /\ op[c] # "recover"
                /\ UNCHANGED <<lock, op, moved, seen, out>>
      BY <1>0, <2>5 DEF VerifyStopCounter, QueryIndex, CreateIndex, FirstWrite, Goto,
                        TypeOK, tpm, call
    <3>2. CASE Exit(c) /\ UNCHANGED <<index, counter>>
      BY <2>1, <3>1, <3>2
    <3>3. CASE /\ pc' = [pc EXCEPT ![c] = pc'[c]]
               /\ \/ pc'[c] \in {"read", "create", "write", "verify"}
                  \/ pc'[c] = "from" /\ op[c] # "recover"
               /\ UNCHANGED <<lock, op, moved, seen, out>>
      <4>1. ASSUME pc'[c] = "from" /\ op[c] # "recover"
            PROVE  Quiet(c)'
        <5>1. moved[c] = NoEpoch /\ out[c] = Nothing
          BY <1>0, <3>1 DEF CmdInv, Moved, Ended
        <5> QED
          BY <3>3, <4>1, <5>1 DEF Quiet, Nothing
      <4>2. ASSUME pc'[c] # "from"
            PROVE  Quiet(c)'
        BY <3>3, <4>2, Calm DEF LockInv, Early
      <4>3. Locked(c)
        BY <3>1 DEF Locked
      <4>4. Quiet(c)'
        BY <3>3, <4>1, <4>2
      <4>5. out' = [out EXCEPT ![c] = out'[c]] /\ seen' = [seen EXCEPT ![c] = seen'[c]]
            /\ moved' = [moved EXCEPT ![c] = moved'[c]]
        BY <1>0, <3>3 DEF TypeOK
      <4> QED
        BY <2>2, <3>1, <3>3, <4>3, <4>4, <4>5
    <3> QED
      BY <3>1, <3>2, <3>3
  <2>6. CASE ReadFrom(c)
    <3>1. /\ pc[c] = "from" /\ UNCHANGED <<index, counter, op, moved, caller>>
          /\ pc' = [pc EXCEPT ![c] = pc'[c]] /\ out' = [out EXCEPT ![c] = out'[c]]
          /\ seen' = [seen EXCEPT ![c] = seen'[c]] /\ moved' = [moved EXCEPT ![c] = moved'[c]]
      BY <1>0, <2>6 DEF ReadFrom, Conclude, Goto, TypeOK, tpm, admin, call
    <3>2. \/ /\ index = "written" /\ Running(counter) # WantRunning(c)
             /\ pc'[c] = "increment" /\ out'[c] = out[c]
          \/ /\ pc'[c] = "report" /\ Running(counter) = WantRunning(c)
             /\ out'[c].kind = "already" /\ out'[c].epoch = counter
          \/ pc'[c] = "report" /\ out'[c].kind = "error"
      BY <1>0, <2>6 DEF ReadFrom, Conclude, Goto, TypeOK
    <3>3. moved[c] = NoEpoch /\ out[c] = Nothing /\ Quiet(c)
      BY <1>0, <2>0, <3>1 DEF CmdInv, Moved, Ended, AllQuiet
    <3>4. ASSUME /\ index = "written" /\ Running(counter) # WantRunning(c)
                 /\ pc'[c] = "increment" /\ out'[c] = out[c]
          PROVE  Quiet(c)'
      <4>1. Running(counter + 1) = WantRunning(c)
        BY <1>0, <3>4, Parity DEF Running, WantRunning
      <4>2. Asked(c, counter + 1)
        BY <3>1, <3>3, <4>1 DEF Asked, Quiet
      <4>3. Asked(c, counter + 1)'
        BY <3>1, <4>2 DEF Asked, WantRunning
      <4> QED
        BY <3>1, <3>3, <3>4, <4>3 DEF Quiet, Nothing
    <3>5. ASSUME /\ pc'[c] = "report" /\ Running(counter) = WantRunning(c)
                 /\ out'[c].kind = "already" /\ out'[c].epoch = counter
          PROVE  Quiet(c)'
      BY <3>1, <3>3, <3>5 DEF Quiet, WantRunning
    <3>6. ASSUME pc'[c] = "report" /\ out'[c].kind = "error"
          PROVE  Quiet(c)'
      BY <3>1, <3>3, <3>6 DEF Quiet
    <3>7. Quiet(c)' /\ Locked(c)
      BY <3>1, <3>2, <3>4, <3>5, <3>6 DEF Locked
    <3> QED
      BY <2>2, <3>1, <3>7
  <2>7. CASE Increment(c)
    <3>1. /\ pc[c] = "increment" /\ UNCHANGED <<op, seen, out, caller>>
          /\ pc' = [pc EXCEPT ![c] = pc'[c]] /\ pc'[c] \in {"back", "now"}
          /\ moved' = [moved EXCEPT ![c] = moved'[c]] /\ out' = [out EXCEPT ![c] = out'[c]]
          /\ seen' = [seen EXCEPT ![c] = seen'[c]]
          /\ \/ NvIncrement /\ moved'[c] = counter'
             \/ pc'[c] = "now" /\ UNCHANGED <<counter, moved>>
      BY <1>0, <2>7 DEF Increment, Goto, TypeOK, call
    <3>2. moved[c] = NoEpoch /\ out[c] = Nothing /\ Quiet(c)
      BY <1>0, <2>0, <3>1 DEF CmdInv, Moved, Ended, AllQuiet
    <3>3. ASSUME NvIncrement /\ moved'[c] = counter'
          PROVE  Quiet(c)'
      <4>1. counter' = counter + 1 /\ Asked(c, counter + 1)
        BY <3>1, <3>2, <3>3 DEF Quiet, NvIncrement
      <4>2. Asked(c, counter)'
        BY <3>1, <4>1 DEF Asked, WantRunning
      <4> QED
        BY <3>1, <3>2, <3>3, <4>2 DEF Quiet, Nothing
    <3>4. ASSUME pc'[c] = "now" /\ UNCHANGED <<counter, moved>>
          PROVE  Quiet(c)'
      BY <3>1, <3>2, <3>4 DEF Quiet, Nothing
    <3>5. Quiet(c)' /\ Locked(c)
      BY <3>1, <3>3, <3>4 DEF Locked
    <3> QED
      BY <2>2, <3>1, <3>5
  <2>8. CASE ReadBack(c) \/ ReadNow(c)
    <3>1. /\ pc[c] \in {"back", "now"} /\ UNCHANGED <<counter, op, moved, caller>>
          /\ pc' = [pc EXCEPT ![c] = pc'[c]] /\ out' = [out EXCEPT ![c] = out'[c]]
          /\ seen' = [seen EXCEPT ![c] = seen'[c]] /\ moved' = [moved EXCEPT ![c] = moved'[c]]
      BY <1>0, <2>8 DEF ReadBack, ReadNow, Conclude, Goto, TypeOK, tpm, admin, call
    <3>2. \/ pc'[c] = "now" /\ out'[c] = out[c]
          \/ pc'[c] = "report" /\ out'[c].kind = "error"
          \/ pc'[c] = "report" /\ out'[c].kind = "changed" /\ pc[c] = "back"
      BY <1>0, <2>8 DEF ReadBack, ReadNow, Conclude, Goto, TypeOK
    <3>3. /\ out[c] = Nothing /\ Quiet(c)
          /\ moved[c] # NoEpoch => moved[c] = counter /\ Asked(c, counter)
          /\ pc[c] = "back" => moved[c] # NoEpoch
      BY <1>0, <2>0, <3>1 DEF CmdInv, Moved, Ended, AllQuiet, Quiet
    <3>4. moved'[c] # NoEpoch => moved'[c] = counter' /\ Asked(c, counter)'
      BY <3>1, <3>3 DEF Asked, WantRunning
    <3>5. Quiet(c)'
      BY <3>1, <3>2, <3>3, <3>4 DEF Quiet, Nothing, Asked, WantRunning
    <3> QED
      BY <2>2, <3>1, <3>5 DEF Locked
  <2>9. CASE Report(c) \/ Connect(c)
    <3>1. /\ pc[c] \in {"report", "confirm"} /\ UNCHANGED <<index, counter, caller>>
          /\ \/ Exit(c)
             \/ /\ pc' = [pc EXCEPT ![c] = pc'[c]] /\ pc'[c] \in {"confirm", "asked"}
                /\ out[c].kind \in {"changed", "already"}
                /\ UNCHANGED <<lock, op, moved, seen, out>>
      BY <1>0, <2>0, <2>9 DEF Report, Connect, Goto, TypeOK, tpm, call, AllQuiet, Quiet
    <3>2. CASE Exit(c)
      BY <2>1, <3>1, <3>2
    <3>3. CASE /\ pc' = [pc EXCEPT ![c] = pc'[c]] /\ pc'[c] \in {"confirm", "asked"}
               /\ out[c].kind \in {"changed", "already"}
               /\ UNCHANGED <<lock, op, moved, seen, out>>
      <4>1. Quiet(c)' /\ Locked(c)
        BY <2>0, <3>1, <3>3 DEF AllQuiet, Quiet, Asked, WantRunning, Locked
      <4>2. out' = [out EXCEPT ![c] = out'[c]] /\ seen' = [seen EXCEPT ![c] = seen'[c]]
            /\ moved' = [moved EXCEPT ![c] = moved'[c]]
        BY <1>0, <3>3 DEF TypeOK
      <4> QED
        BY <2>2, <3>1, <3>3, <4>1, <4>2
    <3> QED
      BY <3>1, <3>2, <3>3
  <2>10. CASE ProbeEnds(c)
    BY <2>0, <2>10, ExitQuiet DEF ProbeEnds, Abandon, tpm
  <2> QED
    BY <1>2, <2>3, <2>4, <2>5, <2>6, <2>7, <2>8, <2>9, <2>10 DEF CommandStep
<1> QED
  BY <1>1, <1>2

-----------------------------------------------------------------------------
LEMMA QuietInit == Init => QuietInv
BY ServiceAssumption
   DEF Init, QuietInv, AllQuiet, QuietAnswer, Quiet, Procs, Nothing

LEMMA QuietStep ==
  ASSUME ~Outside
  PROVE  TypeOK /\ SafeInv /\ LockInv /\ LockInv' /\ QuietInv /\ [Next]_vars => QuietInv'
<1> SUFFICES ASSUME TypeOK, SafeInv, LockInv, LockInv', QuietInv, [Next]_vars,
                    stray' # "landed"
             PROVE  AllQuiet'
  BY DEF QuietInv
<1>1. ASSUME NEW p \in Procs, GateStep(p)
      PROVE  AllQuiet'
  <2>1. stray' = stray
    BY <1>1 DEF GateStep, ReadCounter, ReadRecord, ReadSigAndCheck, Certify, tpm
  <2> QED
    BY <1>1, <2>1, QuietGate DEF QuietInv
<1>2. ASSUME \/ ServiceStart \/ ServiceStop \/ RequestComplete \/ RequestEnds \/ Reply
             \/ \E who \in Commands \union {Gateway} : Accept(who)
      PROVE  AllQuiet'
  <2>1. stray' = stray
    BY <1>2 DEF ServiceStart, ServiceStop, RequestComplete, RequestEnds, Reply, Accept, tpm
  <2> QED
    BY <1>2, <2>1, QuietService DEF QuietInv
<1> QED
  BY <1>1, <1>2, QuietWorld, QuietCommand DEF Next

LEMMA QuietInvCorrect == ASSUME ~Outside PROVE Spec => []QuietInv
<1>1. TypeOK /\ SafeInv /\ LockInv /\ LockInv' /\ QuietInv /\ [Next]_vars => QuietInv'
  BY QuietStep
<1> QED
  BY <1>1, TypeCorrect, SafeInvCorrect, LockInvCorrect, QuietInit, PTL DEF Spec

\* While only tactiq-stop moves the counter, an increment lands where the
\* operator asked (core.rs trip, recover; main.rs admin_lock), unless one that
\* a killed command left behind took effect under the same lock.
THEOREM IncrementsLandAsAsked == ASSUME ~Outside PROVE Spec => []CommandsMoveAsAsked
<1>1. QuietInv => CommandsMoveAsAsked
  BY DEF QuietInv, AllQuiet, Quiet, Asked, CommandsMoveAsAsked
<1> QED
  BY <1>1, QuietInvCorrect, PTL

\* Nor is a trip then told that the service still allows calls (main.rs
\* confirm_through_service).
THEOREM TripIsConfirmed == ASSUME ~Outside PROVE Spec => []ProbeConfirmsTrip
<1>1. QuietInv => ProbeConfirmsTrip
  BY DEF QuietInv, AllQuiet, QuietAnswer, ProbeConfirmsTrip
<1> QED
  BY <1>1, QuietInvCorrect, PTL

\* And whatever epoch a recover reports it succeeded at is one the operator
\* released (core.rs recover).
THEOREM RecoversOnlyReleased == ASSUME ~Outside PROVE Spec => []RecoverSucceedsReleased
<1>1. TypeOK /\ LockInv /\ QuietInv => RecoverSucceedsReleased
  <2> SUFFICES ASSUME TypeOK, LockInv, QuietInv, stray # "landed", NEW c \in Commands,
                      op[c] = "recover", out[c].kind \in {"changed", "already"}
               PROVE  Released(out[c].epoch)
    BY DEF RecoverSucceedsReleased
  <2>1. CmdInv(c) /\ Quiet(c)
    BY DEF LockInv, QuietInv, AllQuiet
  <2>2. out[c].kind = "changed" => out[c].epoch = moved[c]
    BY <2>1 DEF CmdInv
  <2>3. CASE out[c].kind = "changed"
    <3>1. moved[c] # NoEpoch
      BY <2>1, <2>3 DEF CmdInv, TypeOK, Procs, Epochs, NoEpoch
    <3> QED
      BY <2>1, <2>2, <2>3, <3>1 DEF Quiet, Asked
  <2>4. CASE out[c].kind = "already"
    BY <2>1, <2>4 DEF Quiet
  <2> QED
    BY <2>1, <2>2, <2>3, <2>4
<1> QED
  BY <1>1, TypeCorrect, LockInvCorrect, QuietInvCorrect, PTL
-----------------------------------------------------------------------------
(***************************************************************************)
(* An index that was written stays so while only tactiq-stop is about, and *)
(* a define is past its first increment wherever it relies on one.         *)
(***************************************************************************)
GateLabels == {"read", "record", "sig", "certify"}
Finished == {"verify", "from", "increment", "back", "now", "report"}

Finish(c) ==
  /\ op[c] \in Definers => pc[c] \notin GateLabels
  /\ op[c] \in Definers /\ pc[c] \in Finished => index = "written"
  /\ pc[c] \in {"record", "sig"} => index = "written"
  /\ out[c].kind \in {"changed", "already"} => index = "written"

FinishInv == \A c \in Commands : Finish(c)

LEMMA FinishInit == Init => FinishInv
BY ServiceAssumption DEF Init, FinishInv, Finish, Definers, Nothing, Procs

\* Only the owner takes a written index away (main.rs, header).
LEMMA WrittenStays ==
  ASSUME ~Outside, TypeOK, [Next]_vars, index = "written"
  PROVE  index' = "written"
<1>1. ASSUME NEW c \in Commands, CommandStep(c)
      PROVE  index' = "written"
  BY <1>1 DEF CommandStep, AdminLock, LockTimeout, VerifyStopCounter, QueryIndex, CreateIndex,
              FirstWrite, ReadFrom, Increment, ReadBack, ReadNow, Report, Connect, ProbeEnds,
              Kill, NvIncrement, tpm
<1>2. ASSUME NEW p \in Procs, GateStep(p)
      PROVE  index' = "written"
  BY <1>2 DEF GateStep, ReadCounter, ReadRecord, ReadSigAndCheck, Certify, tpm
<1>3. CASE \/ ServiceStart \/ ServiceStop \/ RequestComplete \/ RequestEnds \/ Reply
           \/ \E who \in Commands \union {Gateway} : Accept(who)
           \/ \E c \in Commands, o \in Ops : Invoke(c, o)
  BY <1>3 DEF ServiceStart, ServiceStop, RequestComplete, RequestEnds, Reply, Accept, Invoke, tpm
<1>4. CASE \/ OutsideIncrement \/ StrayIncrement \/ OwnerDelete \/ WriteRecord \/ WriteSig
           \/ UNCHANGED vars
  BY <1>4 DEF OutsideIncrement, StrayIncrement, OwnerDelete, WriteRecord, WriteSig,
              NvIncrement, tpm, vars
<1> QED
  BY <1>1, <1>2, <1>3, <1>4 DEF Next

\* A command that goes on to no place that needs the index written.
LEMMA FinishStays ==
  ASSUME NEW c \in Commands, Finish(c), index = "written" => index' = "written",
         \/ pc'[c] = pc[c] /\ op'[c] = op[c]
         \/ pc'[c] \notin Finished \union GateLabels,
         out'[c] = out[c] \/ out'[c].kind \notin {"changed", "already"}
  PROVE  Finish(c)'
BY DEF Finish, Finished, GateLabels

LEMMA FinishStep == ASSUME ~Outside
                    PROVE  TypeOK /\ FinishInv /\ [Next]_vars => FinishInv'
<1> SUFFICES ASSUME TypeOK, FinishInv, [Next]_vars, NEW c \in Commands
             PROVE  Finish(c)'
  BY DEF FinishInv
<1> USE ServiceAssumption DEF Procs
<1>0. /\ Finish(c) /\ (index = "written" => index' = "written")
      /\ c \in Procs /\ c # Service
  BY WrittenStays DEF FinishInv
<1>1. CASE Same(c)
  BY <1>0, <1>1, FinishStays DEF Same
<1>2. CASE pc'[c] = "idle" /\ out'[c] = Nothing
  BY <1>0, <1>2, FinishStays DEF Finished, GateLabels, Nothing
<1>3. ASSUME NEW p \in Procs, GateStep(p)
      PROVE  Finish(c)'
  <2>1. UNCHANGED <<index, op>> /\ pc[p] \in GateLabels /\ (p # c => pc'[c] = pc[c] /\ out'[c] = out[c])
    BY <1>3 DEF GateStep, ReadCounter, ReadRecord, ReadSigAndCheck, Certify, Open, Unreleased,
                GateError, Conclude, Goto, TypeOK, tpm, admin, GateLabels
  <2>2. CASE p = c
    <3>1. op[c] \notin Definers
      BY <1>0, <2>1, <2>2 DEF Finish
    <3>2. \/ index = "written"
          \/ /\ pc'[c] \notin {"record", "sig"}
             /\ out'[c] = out[c] \/ out'[c].kind \notin {"changed", "already"}
      BY <1>0, <1>3, <2>2
         DEF GateStep, ReadCounter, ReadRecord, ReadSigAndCheck, Certify, Open, Unreleased,
             GateError, Conclude, Goto, TypeOK, Finish
    <3> QED
      BY <1>0, <2>1, <3>1, <3>2 DEF Finish
  <2>3. CASE p # c
    BY <1>0, <2>1, <2>3, FinishStays
  <2> QED
    BY <2>2, <2>3
<1>4. CASE \/ ServiceStart \/ RequestComplete \/ RequestEnds
           \/ \E who \in Commands \union {Gateway} : Accept(who)
           \/ OutsideIncrement \/ StrayIncrement \/ OwnerDelete \/ WriteRecord \/ WriteSig
           \/ UNCHANGED vars
  BY <1>0, <1>1, <1>4
     DEF ServiceStart, RequestComplete, RequestEnds, Accept, OutsideIncrement, StrayIncrement,
         OwnerDelete, WriteRecord, WriteSig, Conclude, Goto, TypeOK, Same, tpm, admin, call, vars
<1>5. CASE ServiceStop
  <2>1. /\ pc'[c] = (IF pc[c] = "asked" THEN "unanswered" ELSE pc[c])
        /\ out'[c] = out[c] /\ op'[c] = op[c]
    BY <1>0, <1>5 DEF ServiceStop, TypeOK, admin
  <2> QED
    BY <1>0, <2>1, FinishStays DEF Finished, GateLabels
<1>6. CASE Reply
  BY <1>0, <1>1, <1>2, <1>6 DEF Reply, Same
<1>7. ASSUME NEW d \in Commands, CommandStep(d) \/ \E o \in Ops : Invoke(d, o), d # c
      PROVE  Finish(c)'
  <2>1. pc'[c] = pc[c] /\ op'[c] = op[c] /\ out'[c] = out[c]
    BY <1>0, <1>7
       DEF CommandStep, Invoke, AdminLock, LockTimeout, VerifyStopCounter, QueryIndex, CreateIndex,
           FirstWrite, ReadFrom, Increment, ReadBack, ReadNow, Report, Connect, ProbeEnds,
           Kill, Exit, Conclude, Goto, TypeOK, admin
  <2> QED
    BY <1>0, <2>1, FinishStays
<1>8. CASE CommandStep(c) \/ \E o \in Ops : Invoke(c, o)
  <2>1. CASE Exit(c)
    BY <1>0, <1>2, <2>1 DEF Exit, Goto, TypeOK
  <2>2. CASE (\E o \in Ops : Invoke(c, o)) \/ QueryIndex(c) \/ CreateIndex(c) \/ Connect(c)
    <3>1. \/ Exit(c)
          \/ /\ pc'[c] \in {"wait", "create", "write", "asked"}
             /\ out'[c] = out[c]
      BY <1>0, <2>2 DEF Invoke, QueryIndex, CreateIndex, Connect, Goto, TypeOK
    <3> QED
      BY <1>0, <2>1, <3>1, FinishStays DEF Finished, GateLabels
  <2>3. CASE AdminLock(c)
    <3>1. /\ op'[c] = op[c] /\ out'[c] = out[c]
          /\ pc'[c] = IF op[c] \in Definers THEN "query" ELSE "verify"
      BY <1>0, <2>3 DEF AdminLock, Goto, TypeOK
    <3> QED
      BY <1>0, <3>1 DEF Finish, GateLabels, Finished
  <2>4. CASE VerifyStopCounter(c)
    <3>1. \/ Exit(c)
          \/ /\ op'[c] = op[c] /\ out'[c] = out[c] /\ pc[c] = "verify"
             /\ pc'[c] = IF op[c] \in {"recover", "status"} THEN "read" ELSE "from"
      BY <1>0, <2>4 DEF VerifyStopCounter, Goto, TypeOK
    <3> QED
      BY <1>0, <2>1, <3>1 DEF Finish, GateLabels, Finished, Definers
  <2>5. CASE FirstWrite(c)
    <3>1. \/ Exit(c)
          \/ op'[c] = op[c] /\ out'[c] = out[c] /\ pc'[c] = "verify" /\ index' = "written"
      BY <1>0, <2>5, CounterRises DEF FirstWrite, Goto, TypeOK
    <3> QED
      BY <1>0, <2>1, <3>1 DEF Finish, GateLabels, Finished
  <2>6. CASE ReadFrom(c) \/ Increment(c) \/ ReadBack(c) \/ ReadNow(c)
    <3>1. /\ op'[c] = op[c] /\ pc[c] \in Finished
          /\ pc'[c] \in {"increment", "back", "now", "report"}
          /\ index' = "written" \/ out'[c] = out[c] \/ out'[c].kind \notin {"changed", "already"}
      BY <1>0, <2>6
         DEF ReadFrom, Increment, ReadBack, ReadNow, Conclude, Goto, TypeOK, Finished, admin, tpm
    <3> QED
      BY <1>0, <3>1 DEF Finish, GateLabels, Finished
  <2>7. CASE Report(c)
    <3>1. Exit(c) \/ (pc'[c] = "confirm" /\ op'[c] = op[c] /\ out'[c] = out[c])
      BY <1>0, <2>7 DEF Report, Goto, TypeOK
    <3> QED
      BY <1>0, <2>1, <3>1, FinishStays DEF Finished, GateLabels
  <2> QED
    BY <1>8, <2>1, <2>2, <2>3, <2>4, <2>5, <2>6, <2>7
       DEF CommandStep, LockTimeout, ProbeEnds, Kill
<1> QED
  BY <1>3, <1>4, <1>5, <1>6, <1>7, <1>8 DEF Next

LEMMA FinishCorrect == ASSUME ~Outside PROVE Spec => []FinishInv
<1>1. TypeOK /\ FinishInv /\ [Next]_vars => FinishInv'
  BY FinishStep
<1> QED
  BY <1>1, TypeCorrect, FinishInit, PTL DEF Spec

\* A define leaves no index that nothing can read, and a success any command
\* reports is the counter's state while it has the lock (main.rs define,
\* core.rs move_to).
THEOREM CommandsEndAsReported == ASSUME ~Outside PROVE Spec => []EndsAsReported
<1>1. TypeOK /\ LockInv /\ QuietInv /\ FinishInv => EndsAsReported
  <2> SUFFICES ASSUME TypeOK, LockInv, QuietInv, FinishInv, NEW c \in Commands
               PROVE  /\ op[c] \in Definers /\ pc[c] = "report" => index = "written"
                      /\ stray # "landed" /\ out[c].kind \in {"changed", "already"} =>
                           /\ index = "written"
                           /\ counter = out[c].epoch
                           /\ Running(counter) = WantRunning(c)
    BY DEF EndsAsReported
  <2>1. Finish(c) /\ CmdInv(c) /\ (stray # "landed" => Quiet(c))
    BY DEF FinishInv, LockInv, QuietInv, AllQuiet
  <2>2. ASSUME stray # "landed", out[c].kind = "changed"
        PROVE  counter = out[c].epoch /\ Running(counter) = WantRunning(c)
    <3>1. out[c].epoch = moved[c] /\ moved[c] # NoEpoch
      BY <2>1, <2>2 DEF CmdInv, TypeOK, Procs, Epochs, NoEpoch
    <3> QED
      BY <2>1, <2>2, <3>1 DEF Quiet, Asked
  <2>3. ASSUME stray # "landed", out[c].kind = "already"
        PROVE  counter = out[c].epoch /\ Running(counter) = WantRunning(c)
    BY <2>1, <2>3 DEF Quiet
  <2> QED
    BY <2>1, <2>2, <2>3 DEF Finish, Finished
<1> QED
  BY <1>1, TypeCorrect, LockInvCorrect, QuietInvCorrect, FinishCorrect, PTL
=============================================================================
