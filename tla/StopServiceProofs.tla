-------------------------- MODULE StopServiceProofs --------------------------
(***************************************************************************)
(* Proofs about StopService, for every value of its constants: any number  *)
(* of operator commands, any releases, with other processes using the TPM  *)
(* and with faults.                                                        *)
(***************************************************************************)
EXTENDS StopService, TLAPS

\* The part of TypeOK about what a command's exit resets.
CommandTypes ==
  /\ lock \in Commands \union {NoOne}
  /\ op \in [Commands -> Operations \union {"none"}]
  /\ pc \in [Procs -> ServiceLabels \union CommandLabels]
  /\ pc[Service] \in ServiceLabels
  /\ \A c \in Commands : pc[c] \in CommandLabels
  /\ seen \in [Procs -> Epochs \union {NoEpoch}]
  /\ got \in [Procs -> Records \union {NoFile}]
  /\ out \in [Procs -> Outcomes]
  /\ moved \in [Commands -> Epochs \union {NoEpoch}]

\* A command that ends leaves everything it resets well typed.
LEMMA ExitTypes ==
  ASSUME CommandTypes, NEW c \in Commands, Exit(c)
  PROVE  CommandTypes'
<1>1. pc' \in [Procs -> ServiceLabels \union CommandLabels]
  BY DEF CommandTypes, Exit, Goto, CommandLabels, Procs
<1>2. pc'[Service] \in ServiceLabels
  BY ServiceAssumption DEF CommandTypes, Exit, Goto, Procs
<1>3. \A d \in Commands : pc'[d] \in CommandLabels
  BY DEF CommandTypes, Exit, Goto, Procs, CommandLabels
<1>4. lock' \in Commands \union {NoOne}
  BY DEF CommandTypes, Exit
<1>5. op' \in [Commands -> Operations \union {"none"}]
  BY DEF CommandTypes, Exit
<1>6. seen' \in [Procs -> Epochs \union {NoEpoch}]
  BY DEF CommandTypes, Exit, Procs
<1>7. got' \in [Procs -> Records \union {NoFile}]
  BY DEF CommandTypes, Exit, Procs
<1>8. out' \in [Procs -> Outcomes]
  BY DEF CommandTypes, Exit, Procs, Outcomes, Kinds, Nothing
<1>9. moved' \in [Commands -> Epochs \union {NoEpoch}]
  BY DEF CommandTypes, Exit
<1>10. QED
  BY <1>1, <1>2, <1>3, <1>4, <1>5, <1>6, <1>7, <1>8, <1>9 DEF CommandTypes

(***************************************************************************)
(* Every variable keeps its type and every process a label of its kind.    *)
(***************************************************************************)
THEOREM TypeCorrect == Spec => []TypeOK
<1> USE ReleaseAssumption, ServiceAssumption
    DEF TypeOK, Procs, Epochs, NoEpoch, Outcomes, Kinds, Nothing,
        ServiceLabels, CommandLabels, Operations, Definers
<1>1. Init => TypeOK
  BY DEF Init
<1>2. TypeOK /\ [Next]_vars => TypeOK'
  <2> SUFFICES ASSUME TypeOK, [Next]_vars PROVE TypeOK'
    OBVIOUS
  <2>0. ASSUME NEW c \in Commands, Exit(c) PROVE CommandTypes'
    BY <2>0, ExitTypes DEF CommandTypes
  <2> USE DEF tpm, files, admin, call, Goto, Conclude
  <2>1. ASSUME NEW p \in Procs, ReadCounter(p) PROVE TypeOK'
    BY <2>1 DEF ReadCounter
  <2>2. ASSUME NEW p \in Procs, ReadRecord(p) PROVE TypeOK'
    BY <2>2 DEF ReadRecord, Unreleased, GateError
  <2>3. ASSUME NEW p \in Procs, ReadSigAndCheck(p) PROVE TypeOK'
    BY <2>3, SMTT(20) DEF ReadSigAndCheck, Unreleased, GateError, Open, Recovers
  <2>4. ASSUME NEW p \in Procs, Certify(p) PROVE TypeOK'
    BY <2>4 DEF Certify
  <2>5. ASSUME ServiceStart PROVE TypeOK'
    BY <2>5 DEF ServiceStart
  <2>6. ASSUME ServiceStop PROVE TypeOK'
    BY <2>6 DEF ServiceStop
  <2>7. ASSUME Reply PROVE TypeOK'
    BY <2>7 DEF Reply
  <2>8. ASSUME NEW who \in Commands \union {Gateway}, Accept(who) PROVE TypeOK'
    BY <2>8 DEF Accept
  <2>9. ASSUME NEW c \in Commands, NEW o \in Ops, Invoke(c, o) PROVE TypeOK'
    BY <2>9 DEF Invoke
  <2>10. ASSUME NEW c \in Commands, AdminLock(c) PROVE TypeOK'
    BY <2>10 DEF AdminLock
  <2>11. ASSUME NEW c \in Commands, LockTimeout(c) PROVE TypeOK'
    BY <2>11, <2>0 DEF LockTimeout, CommandTypes
  <2>12. ASSUME NEW c \in Commands, VerifyStopCounter(c) PROVE TypeOK'
    <3>1. CASE Exit(c)
      BY <2>12, <3>1, <2>0 DEF VerifyStopCounter, CommandTypes
    <3>2. CASE ~Exit(c)
      BY <2>12, <3>2 DEF VerifyStopCounter
    <3>3. QED
      BY <3>1, <3>2
  <2>13. ASSUME NEW c \in Commands, QueryIndex(c) PROVE TypeOK'
    <3>1. CASE Exit(c)
      BY <2>13, <3>1, <2>0 DEF QueryIndex, CommandTypes
    <3>2. CASE ~Exit(c)
      BY <2>13, <3>2 DEF QueryIndex
    <3>3. QED
      BY <3>1, <3>2
  <2>14. ASSUME NEW c \in Commands, CreateIndex(c) PROVE TypeOK'
    <3>1. CASE Exit(c)
      BY <2>14, <3>1, <2>0 DEF CreateIndex, CommandTypes
    <3>2. CASE ~Exit(c)
      BY <2>14, <3>2 DEF CreateIndex
    <3>3. QED
      BY <3>1, <3>2
  <2>15. ASSUME NEW c \in Commands, FirstWrite(c) PROVE TypeOK'
    <3>1. CASE Exit(c)
      <4>1. index' \in {"absent", "unwritten", "written"} /\ counter' \in Epochs
        BY <2>15 DEF FirstWrite, NvIncrement
      <4>2. QED
        BY <2>15, <3>1, <4>1, <2>0 DEF FirstWrite, CommandTypes
    <3>2. CASE ~Exit(c)
      <4>1. index' = "written" /\ counter' \in Epochs
        BY <2>15, <3>2 DEF FirstWrite, NvIncrement
      <4>2. QED
        BY <2>15, <3>2, <4>1 DEF FirstWrite
    <3>3. QED
      BY <3>1, <3>2
  <2>16. ASSUME NEW c \in Commands, ReadFrom(c) PROVE TypeOK'
    <3>1. CASE Conclude(c, "already", counter) /\ seen' = [seen EXCEPT ![c] = counter]
      BY <2>16, <3>1 DEF ReadFrom
    <3>2. CASE Goto(c, "increment") /\ out' = out /\ seen' = [seen EXCEPT ![c] = counter]
      BY <2>16, <3>2 DEF ReadFrom
    <3>3. CASE Conclude(c, "error", NoEpoch) /\ seen' = seen
      BY <2>16, <3>3 DEF ReadFrom
    <3>4. QED
      BY <2>16, <3>1, <3>2, <3>3, Zenon DEF ReadFrom
  <2>17. ASSUME NEW c \in Commands, Increment(c) PROVE TypeOK'
    <3>1. CASE NvIncrement
      <4>1. index' = "written" /\ counter' \in Epochs
        BY <3>1 DEF NvIncrement
      <4>2. moved' \in [Commands -> Epochs \union {NoEpoch}]
        BY <2>17, <4>1 DEF Increment
      <4>3. QED
        BY <2>17, <4>1, <4>2 DEF Increment
    <3>2. CASE UNCHANGED <<index, counter, moved>>
      BY <2>17, <3>2 DEF Increment
    <3>3. QED
      BY <2>17, <3>1, <3>2 DEF Increment
  <2>18. ASSUME NEW c \in Commands, ReadBack(c) PROVE TypeOK'
    <3>1. pc' \in [Procs -> ServiceLabels \union CommandLabels]
      BY <2>18 DEF ReadBack
    <3>2. pc'[Service] = pc[Service] /\ \A d \in Commands : pc'[d] \in CommandLabels
      BY <2>18 DEF ReadBack
    <3>3. out' \in [Procs -> Outcomes]
      BY <2>18 DEF ReadBack
    <3>4. QED
      BY <2>18, <3>1, <3>2, <3>3 DEF ReadBack
  <2>19. ASSUME NEW c \in Commands, ReadNow(c) PROVE TypeOK'
    <3>1. pc' \in [Procs -> ServiceLabels \union CommandLabels]
      BY <2>19 DEF ReadNow
    <3>2. pc'[Service] = pc[Service] /\ \A d \in Commands : pc'[d] \in CommandLabels
      BY <2>19 DEF ReadNow
    <3>3. out' \in [Procs -> Outcomes]
      BY <2>19 DEF ReadNow
    <3>4. QED
      BY <2>19, <3>1, <3>2, <3>3 DEF ReadNow
  <2>20. ASSUME NEW c \in Commands, Report(c) PROVE TypeOK'
    <3>1. CASE Exit(c)
      BY <2>20, <3>1, <2>0 DEF Report, CommandTypes
    <3>2. CASE ~Exit(c)
      BY <2>20, <3>2, SMTT(20) DEF Report
    <3>3. QED
      BY <3>1, <3>2
  <2>21. ASSUME NEW c \in Commands, Connect(c) PROVE TypeOK'
    <3>1. CASE Exit(c)
      BY <2>21, <3>1, <2>0 DEF Connect, CommandTypes
    <3>2. CASE ~Exit(c)
      BY <2>21, <3>2 DEF Connect
    <3>3. QED
      BY <3>1, <3>2
  <2>22. ASSUME NEW c \in Commands, ProbeEnds(c) PROVE TypeOK'
    BY <2>22, <2>0 DEF ProbeEnds, CommandTypes, Abandon
  <2>23. ASSUME NEW c \in Commands, Kill(c) PROVE TypeOK'
    BY <2>23, <2>0 DEF Kill, CommandTypes
  <2>24. ASSUME OutsideIncrement PROVE TypeOK'
    BY <2>24 DEF OutsideIncrement, NvIncrement
  <2>25. ASSUME OwnerDelete PROVE TypeOK'
    BY <2>25 DEF OwnerDelete
  <2>26. ASSUME WriteRecord PROVE TypeOK'
    BY <2>26 DEF WriteRecord
  <2>27. ASSUME WriteSig PROVE TypeOK'
    BY <2>27 DEF WriteSig
  <2>28. CASE UNCHANGED vars
    BY <2>28 DEF vars
  <2>30. ASSUME RequestComplete \/ RequestEnds PROVE TypeOK'
    BY <2>30 DEF RequestComplete, RequestEnds
  <2>31. ASSUME StrayIncrement PROVE TypeOK'
    BY <2>31 DEF StrayIncrement, NvIncrement
  <2>32. QED
    BY <2>1, <2>2, <2>3, <2>4, <2>5, <2>6, <2>7, <2>8, <2>9, <2>10, <2>11,
       <2>12, <2>13, <2>14, <2>15, <2>16, <2>17, <2>18, <2>19, <2>20, <2>21,
       <2>22, <2>23, <2>24, <2>25, <2>26, <2>27, <2>28, <2>30, <2>31
       DEF Next, GateStep, CommandStep
<1>3. QED
  BY <1>1, <1>2, PTL DEF Spec

-----------------------------------------------------------------------------
(***************************************************************************)
(* The inductive invariant behind what a passing call means. Everything    *)
(* rests on the counter going only up: whatever a process has seen, said   *)
(* or been told of, the counter has reached.                               *)
(***************************************************************************)
\* Labels at which a process holds no release record and no answer yet.
Fresh == {"down", "idle", "request", "wait", "verify", "query", "create", "write",
          "read", "record"}

ProcInv(p) ==
  /\ seen[p] <= counter
  /\ out[p].epoch <= counter
  /\ pc[p] \in Fresh => got[p] = NoFile /\ out[p] = Nothing
  /\ pc[p] = "certify" /\ got[p] # NoFile =>
       Running(seen[p]) /\ Released(seen[p])
  /\ out[p].kind \in {"allow", "running"} =>
       Running(out[p].epoch) /\ Released(out[p].epoch)

ToldInv ==
  /\ told <= counter
  /\ ~Running(told)
  /\ floor <= told
  /\ ~Running(floor)
  /\ pc[Service] \in {"record", "sig", "certify"} => floor <= seen[Service]
  /\ out[Service].kind = "allow" => floor <= out[Service].epoch

SafeInv == ToldInv /\ \A p \in Procs : ProcInv(p)

\* What a later value of the counter does not disturb.
LEMMA ProcStays ==
  ASSUME TypeOK, TypeOK', counter' >= counter, NEW q \in Procs, ProcInv(q),
         pc'[q] = pc[q], seen'[q] = seen[q], got'[q] = got[q], out'[q] = out[q]
  PROVE  ProcInv(q)'
<1>1. seen[q] \in Int /\ out[q].epoch \in Int /\ counter \in Int /\ counter' \in Int
  BY DEF TypeOK, Epochs, NoEpoch, Outcomes
<1>2. QED
  BY <1>1 DEF ProcInv

LEMMA ToldStays ==
  ASSUME TypeOK, TypeOK', counter' >= counter, ToldInv,
         told' = told, floor' = floor, pc'[Service] = pc[Service],
         seen'[Service] = seen[Service], out'[Service] = out[Service]
  PROVE  ToldInv'
<1>1. told \in Int /\ counter \in Int /\ counter' \in Int
  BY DEF TypeOK, Epochs, NoEpoch
<1>2. QED
  BY <1>1 DEF ToldInv

\* A process with no record and no answer.
LEMMA CleanProc ==
  ASSUME TypeOK', NEW q \in Procs, seen'[q] = NoEpoch, got'[q] = NoFile,
         out'[q] = Nothing
  PROVE  ProcInv(q)'
<1>1. counter' \in Int /\ counter' >= 0 /\ MaxEpoch \in Int
  BY ReleaseAssumption DEF TypeOK, Epochs
<1>2. QED
  BY <1>1 DEF ProcInv, Nothing, NoEpoch

\* Steps of one operator command that reach no new value: they end it, or
\* move it on with what it holds.
LEMMA CommandKeeps ==
  ASSUME TypeOK, TypeOK', SafeInv, counter' >= counter, NEW c \in Commands,
         told' = told, floor' = floor,
         \A q \in Procs \ {c} : /\ pc'[q] = pc[q] /\ seen'[q] = seen[q]
                                /\ got'[q] = got[q] /\ out'[q] = out[q],
         ProcInv(c)'
  PROVE  SafeInv'
<1>1. Service \in Procs \ {c} /\ c \in Procs
  BY ServiceAssumption DEF Procs
<1>2. ToldInv'
  BY <1>1, ToldStays DEF SafeInv
<1>3. ASSUME NEW q \in Procs PROVE ProcInv(q)'
  BY <1>3, ProcStays DEF SafeInv
<1>4. QED
  BY <1>2, <1>3 DEF SafeInv

\* A release that checks names an even epoch the operator released.
LEMMA ReleaseValidReleased ==
  ASSUME NEW r, NEW s \in Signed \union {NoFile}, NEW e, ReleaseValid(r, s, e)
  PROVE  Running(e) /\ Released(e)
BY DEF ReleaseValid, Released

LEMMA SafeInvStep == TypeOK /\ TypeOK' /\ SafeInv /\ [Next]_vars => SafeInv'
<1> SUFFICES ASSUME TypeOK, TypeOK', SafeInv, [Next]_vars PROVE SafeInv'
  OBVIOUS
<1> USE ReleaseAssumption, ServiceAssumption
<1>0. /\ counter \in Int /\ counter' \in Int /\ Service \in Procs
      /\ \A c \in Commands : c \in Procs /\ c # Service
  BY DEF TypeOK, Epochs, Procs
<1>1. ASSUME NEW c \in Commands, Exit(c), counter' = counter, told' = told,
             floor' = floor
      PROVE  SafeInv'
  <2>1. \A q \in Procs \ {c} : /\ pc'[q] = pc[q] /\ seen'[q] = seen[q]
                              /\ got'[q] = got[q] /\ out'[q] = out[q]
    BY <1>1 DEF Exit, Goto, TypeOK
  <2>2. seen'[c] = NoEpoch /\ got'[c] = NoFile /\ out'[c] = Nothing
    BY <1>0, <1>1 DEF Exit, TypeOK
  <2>3. ProcInv(c)'
    BY <1>0, <2>2, CleanProc
  <2>4. QED
    BY <1>0, <1>1, <2>1, <2>3, CommandKeeps
<1>2. ASSUME NEW p \in Procs, ReadCounter(p) PROVE SafeInv'
  <2>1. ASSUME NEW q \in Procs, q # p PROVE ProcInv(q)'
    BY <1>0, <1>2, <2>1, ProcStays
       DEF ReadCounter, Conclude, Goto, SafeInv, TypeOK, tpm
  <2>2. ProcInv(p)'
    BY <1>0, <1>2
       DEF ReadCounter, Conclude, Goto, SafeInv, ProcInv, Fresh, TypeOK, tpm,
           Nothing, NoEpoch, Epochs, Outcomes
  <2>3. ToldInv'
    <3>1. CASE p = Service
      BY <1>0, <1>2, <3>1
         DEF ReadCounter, Conclude, Goto, SafeInv, ToldInv, TypeOK, tpm, admin,
             call, Nothing, NoEpoch, Epochs, Outcomes
    <3>2. CASE p # Service
      BY <1>0, <1>2, <3>2, ToldStays
         DEF ReadCounter, Conclude, Goto, SafeInv, TypeOK, tpm, admin, call
    <3>3. QED
      BY <3>1, <3>2
  <2>4. QED
    BY <2>1, <2>2, <2>3 DEF SafeInv
<1>3. ASSUME NEW p \in Procs, ReadRecord(p) PROVE SafeInv'
  <2>1. ASSUME NEW q \in Procs, q # p PROVE ProcInv(q)'
    BY <1>0, <1>3, <2>1, ProcStays
       DEF ReadRecord, Unreleased, GateError, Conclude, Goto, SafeInv, TypeOK, tpm
  <2>2. ProcInv(p)'
    BY <1>0, <1>3
       DEF ReadRecord, Unreleased, GateError, Conclude, Goto, SafeInv, ProcInv,
           Fresh, TypeOK, tpm, Nothing, NoEpoch, Epochs, Outcomes
  <2>3. ToldInv'
    <3>1. CASE p = Service
      BY <1>0, <1>3, <3>1
         DEF ReadRecord, Unreleased, GateError, Recovers, Conclude, Goto, SafeInv,
             ToldInv, TypeOK, tpm, admin, call, Nothing, NoEpoch, Epochs, Outcomes
    <3>2. CASE p # Service
      BY <1>0, <1>3, <3>2, ToldStays
         DEF ReadRecord, Unreleased, GateError, Conclude, Goto, SafeInv, TypeOK,
             tpm, admin, call
    <3>3. QED
      BY <3>1, <3>2
  <2>4. QED
    BY <2>1, <2>2, <2>3 DEF SafeInv
<1>4. ASSUME NEW p \in Procs, ReadSigAndCheck(p) PROVE SafeInv'
  <2>1. ASSUME NEW q \in Procs, q # p PROVE ProcInv(q)'
    BY <1>0, <1>4, <2>1, ProcStays
       DEF ReadSigAndCheck, Open, Unreleased, GateError, Conclude, Goto, SafeInv,
           TypeOK, tpm
  <2>2. ProcInv(p)'
    <3>1. ReleaseValid(got[p], sigFile, Target(p)) /\ ~Recovers(p) =>
            Running(seen[p]) /\ Released(seen[p])
      BY ReleaseValidReleased DEF TypeOK, Target
    <3>2. QED
      BY <1>0, <1>4, <3>1
         DEF ReadSigAndCheck, Open, Unreleased, GateError, Recovers, Conclude,
             Goto, SafeInv, ProcInv, Fresh, TypeOK, tpm, Nothing, NoEpoch,
             Epochs, Outcomes
  <2>3. ToldInv'
    <3>1. CASE p = Service
      BY <1>0, <1>4, <3>1
         DEF ReadSigAndCheck, Open, Unreleased, GateError, Recovers, Conclude,
             Goto, SafeInv, ToldInv, TypeOK, tpm, admin, call, Nothing, NoEpoch,
             Epochs, Outcomes
    <3>2. CASE p # Service
      BY <1>0, <1>4, <3>2, ToldStays
         DEF ReadSigAndCheck, Open, Unreleased, GateError, Conclude, Goto, SafeInv,
             TypeOK, tpm, admin, call
    <3>3. QED
      BY <3>1, <3>2
  <2>4. QED
    BY <2>1, <2>2, <2>3 DEF SafeInv
<1>5. ASSUME NEW p \in Procs, Certify(p) PROVE SafeInv'
  <2>1. ASSUME NEW q \in Procs, q # p PROVE ProcInv(q)'
    BY <1>0, <1>5, <2>1, ProcStays
       DEF Certify, Conclude, Goto, SafeInv, TypeOK, tpm
  <2>2. ProcInv(p)'
    BY <1>0, <1>5
       DEF Certify, Conclude, Goto, SafeInv, ProcInv, Fresh, TypeOK, tpm, Nothing,
           NoEpoch, Epochs, Outcomes
  <2>3. ToldInv'
    <3>1. CASE p = Service
      BY <1>0, <1>5, <3>1
         DEF Certify, Conclude, Goto, SafeInv, ToldInv, TypeOK, tpm, admin, call,
             Nothing, NoEpoch, Epochs, Outcomes
    <3>2. CASE p # Service
      BY <1>0, <1>5, <3>2, ToldStays
         DEF Certify, Conclude, Goto, SafeInv, TypeOK, tpm, admin, call
    <3>3. QED
      BY <3>1, <3>2
  <2>4. QED
    BY <2>1, <2>2, <2>3 DEF SafeInv
<1>6. ASSUME ServiceStart PROVE SafeInv'
  BY <1>0, <1>6 DEF ServiceStart, Goto, SafeInv, ToldInv, ProcInv, Fresh, TypeOK,
                    tpm, admin, call
<1>7. ASSUME ServiceStop PROVE SafeInv'
  <2>1. ASSUME NEW q \in Procs, q # Service PROVE ProcInv(q)'
    BY <1>0, <1>7, <2>1 DEF ServiceStop, SafeInv, ProcInv, Fresh, TypeOK, tpm
  <2>2. ProcInv(Service)'
    BY <1>0, <1>7, CleanProc DEF ServiceStop, TypeOK
  <2>3. ToldInv'
    BY <1>0, <1>7 DEF ServiceStop, SafeInv, ToldInv, TypeOK, tpm, admin, Nothing,
                      NoEpoch, Running, Epochs
  <2>4. QED
    BY <2>1, <2>2, <2>3 DEF SafeInv
<1>8. ASSUME Reply PROVE SafeInv'
  <2>1. ASSUME NEW q \in Procs PROVE ProcInv(q)'
    <3>1. CASE q = Service \/ q = caller
      BY <1>0, <1>8, <3>1, CleanProc DEF Reply
    <3>2. CASE ~(q = Service \/ q = caller)
      BY <1>0, <1>8, <3>2, ProcStays DEF Reply, SafeInv, tpm
    <3>3. QED
      BY <3>1, <3>2
  <2>2. ToldInv'
    BY <1>0, <1>8 DEF Reply, SafeInv, ToldInv, TypeOK, tpm, Nothing, NoEpoch,
                      Running, Epochs
  <2>3. QED
    BY <2>1, <2>2 DEF SafeInv
<1>9. ASSUME NEW who \in Commands \union {Gateway}, Accept(who) PROVE SafeInv'
  <2>1. ASSUME NEW q \in Procs PROVE ProcInv(q)'
    BY <1>0, <1>9, <2>1 DEF Accept, Conclude, Goto, SafeInv, ProcInv, Fresh,
       TypeOK, tpm, NoEpoch, Epochs, Outcomes
  <2>2. ToldInv'
    BY <1>0, <1>9 DEF Accept, Conclude, Goto, SafeInv, ToldInv, ProcInv, Fresh,
       Nothing, TypeOK, tpm, admin, Epochs, NoEpoch
  <2>3. QED
    BY <2>1, <2>2 DEF SafeInv
<1>10. ASSUME NEW c \in Commands, NEW o \in Ops, Invoke(c, o) PROVE SafeInv'
  <2>1. \A q \in Procs \ {c} : /\ pc'[q] = pc[q] /\ seen'[q] = seen[q]
                              /\ got'[q] = got[q] /\ out'[q] = out[q]
    BY <1>0, <1>10 DEF Invoke, Goto, TypeOK
  <2>2. ProcInv(c)'
    BY <1>0, <1>10
       DEF Invoke, Goto, SafeInv, ProcInv, Fresh, TypeOK, tpm, Nothing, NoEpoch,
           Epochs, Outcomes
  <2>3. QED
    BY <1>0, <1>10, <2>1, <2>2, CommandKeeps DEF Invoke, tpm, call, admin, Epochs
<1>11. ASSUME NEW c \in Commands, AdminLock(c) PROVE SafeInv'
  <2>1. \A q \in Procs \ {c} : /\ pc'[q] = pc[q] /\ seen'[q] = seen[q]
                              /\ got'[q] = got[q] /\ out'[q] = out[q]
    BY <1>0, <1>11 DEF AdminLock, Goto, TypeOK
  <2>2. ProcInv(c)'
    BY <1>0, <1>11
       DEF AdminLock, Goto, SafeInv, ProcInv, Fresh, TypeOK, tpm, Nothing, NoEpoch,
           Epochs, Outcomes
  <2>3. QED
    BY <1>0, <1>11, <2>1, <2>2, CommandKeeps DEF AdminLock, tpm, call, admin, Epochs
<1>12. ASSUME NEW c \in Commands, LockTimeout(c) PROVE SafeInv'
  BY <1>1, <1>12 DEF LockTimeout, tpm, call
<1>13. ASSUME NEW c \in Commands, VerifyStopCounter(c) PROVE SafeInv'
  <2>1. CASE Exit(c)
    BY <1>1, <1>13, <2>1 DEF VerifyStopCounter, tpm, call
  <2>2. CASE ~Exit(c)
    <3>1. \A q \in Procs \ {c} : /\ pc'[q] = pc[q] /\ seen'[q] = seen[q]
                                /\ got'[q] = got[q] /\ out'[q] = out[q]
      BY <1>0, <1>13, <2>2 DEF VerifyStopCounter, Goto, TypeOK
    <3>2. ProcInv(c)'
      BY <1>0, <1>13, <2>2
         DEF VerifyStopCounter, Goto, SafeInv, ProcInv, Fresh, TypeOK, tpm, Nothing, NoEpoch,
             Epochs, Outcomes
    <3>3. QED
      BY <1>0, <1>13, <2>2, <3>1, <3>2, CommandKeeps DEF VerifyStopCounter, tpm, call, Epochs
  <2>3. QED
    BY <2>1, <2>2
<1>14. ASSUME NEW c \in Commands, QueryIndex(c) PROVE SafeInv'
  <2>1. CASE Exit(c)
    BY <1>1, <1>14, <2>1 DEF QueryIndex, tpm, call
  <2>2. CASE ~Exit(c)
    <3>1. \A q \in Procs \ {c} : /\ pc'[q] = pc[q] /\ seen'[q] = seen[q]
                                /\ got'[q] = got[q] /\ out'[q] = out[q]
      BY <1>0, <1>14, <2>2 DEF QueryIndex, Goto, TypeOK
    <3>2. ProcInv(c)'
      BY <1>0, <1>14, <2>2
         DEF QueryIndex, Goto, SafeInv, ProcInv, Fresh, TypeOK, tpm, Nothing, NoEpoch,
             Epochs, Outcomes
    <3>3. QED
      BY <1>0, <1>14, <2>2, <3>1, <3>2, CommandKeeps DEF QueryIndex, tpm, call, Epochs
  <2>3. QED
    BY <2>1, <2>2
<1>15. ASSUME NEW c \in Commands, CreateIndex(c) PROVE SafeInv'
  <2>1. CASE Exit(c)
    BY <1>1, <1>15, <2>1 DEF CreateIndex, tpm, call
  <2>2. CASE ~Exit(c)
    <3>1. \A q \in Procs \ {c} : /\ pc'[q] = pc[q] /\ seen'[q] = seen[q]
                                /\ got'[q] = got[q] /\ out'[q] = out[q]
      BY <1>0, <1>15, <2>2 DEF CreateIndex, Goto, TypeOK
    <3>2. ProcInv(c)'
      BY <1>0, <1>15, <2>2
         DEF CreateIndex, Goto, SafeInv, ProcInv, Fresh, TypeOK, tpm, Nothing, NoEpoch,
             Epochs, Outcomes
    <3>3. QED
      BY <1>0, <1>15, <2>2, <3>1, <3>2, CommandKeeps DEF CreateIndex, tpm, call, Epochs
  <2>3. QED
    BY <2>1, <2>2
<1>16. ASSUME NEW c \in Commands, FirstWrite(c) PROVE SafeInv'
  <2>1. CASE Exit(c)
    <3>1. UNCHANGED <<index, counter>>
      BY <1>0, <1>16, <2>1 DEF FirstWrite, Exit, Goto, TypeOK, tpm
    <3>2. QED
      BY <1>1, <1>16, <2>1, <3>1 DEF FirstWrite, call
  <2>2. CASE ~Exit(c)
    <3>1. \A q \in Procs \ {c} : /\ pc'[q] = pc[q] /\ seen'[q] = seen[q]
                                /\ got'[q] = got[q] /\ out'[q] = out[q]
      BY <1>0, <1>16, <2>2 DEF FirstWrite, Goto, TypeOK, NvIncrement
    <3>2. ProcInv(c)'
      BY <1>0, <1>16, <2>2
         DEF FirstWrite, Goto, SafeInv, ProcInv, Fresh, TypeOK, tpm, Nothing, NoEpoch,
             Epochs, Outcomes, NvIncrement
    <3>3. QED
      BY <1>0, <1>16, <2>2, <3>1, <3>2, CommandKeeps DEF FirstWrite, tpm, call, Epochs, NvIncrement
  <2>3. QED
    BY <2>1, <2>2
<1>17. ASSUME NEW c \in Commands, ReadFrom(c) PROVE SafeInv'
  <2>1. \A q \in Procs \ {c} : /\ pc'[q] = pc[q] /\ seen'[q] = seen[q]
                              /\ got'[q] = got[q] /\ out'[q] = out[q]
    BY <1>0, <1>17 DEF ReadFrom, Goto, TypeOK, Conclude
  <2>2. ProcInv(c)'
    BY <1>0, <1>17
       DEF ReadFrom, Goto, SafeInv, ProcInv, Fresh, TypeOK, tpm, Nothing, NoEpoch,
           Epochs, Outcomes, Conclude
  <2>3. QED
    BY <1>0, <1>17, <2>1, <2>2, CommandKeeps DEF ReadFrom, tpm, call, admin, Epochs, Conclude
<1>18. ASSUME NEW c \in Commands, Increment(c) PROVE SafeInv'
  <2>1. \A q \in Procs \ {c} : /\ pc'[q] = pc[q] /\ seen'[q] = seen[q]
                              /\ got'[q] = got[q] /\ out'[q] = out[q]
    BY <1>0, <1>18 DEF Increment, Goto, TypeOK, NvIncrement
  <2>2. ProcInv(c)'
    BY <1>0, <1>18
       DEF Increment, Goto, SafeInv, ProcInv, Fresh, TypeOK, tpm, Nothing, NoEpoch,
           Epochs, Outcomes, NvIncrement
  <2>3. QED
    BY <1>0, <1>18, <2>1, <2>2, CommandKeeps DEF Increment, tpm, call, admin, Epochs, NvIncrement
<1>19. ASSUME NEW c \in Commands, ReadBack(c) PROVE SafeInv'
  <2>1. \A q \in Procs \ {c} : /\ pc'[q] = pc[q] /\ seen'[q] = seen[q]
                              /\ got'[q] = got[q] /\ out'[q] = out[q]
    BY <1>0, <1>19 DEF ReadBack, Goto, TypeOK, Conclude
  <2>2. ProcInv(c)'
    BY <1>0, <1>19
       DEF ReadBack, Goto, SafeInv, ProcInv, Fresh, TypeOK, tpm, Nothing, NoEpoch,
           Epochs, Outcomes, Conclude
  <2>3. QED
    BY <1>0, <1>19, <2>1, <2>2, CommandKeeps DEF ReadBack, tpm, call, admin, Epochs, Conclude
<1>20. ASSUME NEW c \in Commands, ReadNow(c) PROVE SafeInv'
  <2>1. \A q \in Procs \ {c} : /\ pc'[q] = pc[q] /\ seen'[q] = seen[q]
                              /\ got'[q] = got[q] /\ out'[q] = out[q]
    BY <1>0, <1>20 DEF ReadNow, Goto, TypeOK, Conclude
  <2>2. ProcInv(c)'
    BY <1>0, <1>20
       DEF ReadNow, Goto, SafeInv, ProcInv, Fresh, TypeOK, tpm, Nothing, NoEpoch,
           Epochs, Outcomes, Conclude
  <2>3. QED
    BY <1>0, <1>20, <2>1, <2>2, CommandKeeps DEF ReadNow, tpm, call, admin, Epochs, Conclude
<1>21. ASSUME NEW c \in Commands, Report(c) PROVE SafeInv'
  <2>1. told' <= counter /\ told <= told' /\ ~Running(told') /\ told \in Int /\ told' \in Int
    BY <1>0, <1>21 DEF Report, SafeInv, ToldInv, ProcInv, TypeOK, Epochs, NoEpoch,
                       Outcomes
  <2>2. /\ pc'[Service] = pc[Service] /\ seen'[Service] = seen[Service]
        /\ out'[Service] = out[Service]
    BY <1>0, <1>21 DEF Report, Exit, Goto, TypeOK
  <2>3. ToldInv'
    BY <1>0, <1>21, <2>1, <2>2 DEF Report, SafeInv, ToldInv, TypeOK, tpm, call,
                                   Epochs, NoEpoch
  <2>4. ASSUME NEW q \in Procs PROVE ProcInv(q)'
    <3>1. CASE q # c
      BY <1>0, <1>21, <3>1, ProcStays DEF Report, Exit, Goto, SafeInv, TypeOK, tpm
    <3>2. CASE q = c /\ Exit(c)
      BY <1>0, <3>2, CleanProc DEF Exit, TypeOK
    <3>3. CASE q = c /\ ~Exit(c)
      BY <1>0, <1>21, <3>3 DEF Report, Goto, SafeInv, ProcInv, Fresh, TypeOK, tpm
    <3>4. QED
      BY <3>1, <3>2, <3>3
  <2>5. QED
    BY <2>3, <2>4 DEF SafeInv
<1>22. ASSUME NEW c \in Commands, Connect(c) PROVE SafeInv'
  <2>1. CASE Exit(c)
    BY <1>1, <1>22, <2>1 DEF Connect, tpm, call
  <2>2. CASE ~Exit(c)
    <3>1. \A q \in Procs \ {c} : /\ pc'[q] = pc[q] /\ seen'[q] = seen[q]
                                /\ got'[q] = got[q] /\ out'[q] = out[q]
      BY <1>0, <1>22, <2>2 DEF Connect, Goto, TypeOK
    <3>2. ProcInv(c)'
      BY <1>0, <1>22, <2>2
         DEF Connect, Goto, SafeInv, ProcInv, Fresh, TypeOK, tpm, Nothing, NoEpoch,
             Epochs, Outcomes
    <3>3. QED
      BY <1>0, <1>22, <2>2, <3>1, <3>2, CommandKeeps DEF Connect, tpm, call, Epochs
  <2>3. QED
    BY <2>1, <2>2
<1>23. ASSUME NEW c \in Commands, ProbeEnds(c) PROVE SafeInv'
  BY <1>1, <1>23 DEF ProbeEnds, tpm, call
<1>24. ASSUME NEW c \in Commands, Kill(c) PROVE SafeInv'
  BY <1>1, <1>24 DEF Kill, tpm, call
<1>25. ASSUME OutsideIncrement PROVE SafeInv'
  <2>1. counter' >= counter /\ UNCHANGED <<pc, seen, got, out, told, floor>>
    BY <1>0, <1>25 DEF OutsideIncrement, tpm, admin, call, Epochs, NvIncrement
  <2>2. QED
    BY <1>0, <2>1, ProcStays, ToldStays DEF SafeInv
<1>26. ASSUME OwnerDelete PROVE SafeInv'
  <2>1. counter' >= counter /\ UNCHANGED <<pc, seen, got, out, told, floor>>
    BY <1>0, <1>26 DEF OwnerDelete, tpm, admin, call, Epochs
  <2>2. QED
    BY <1>0, <2>1, ProcStays, ToldStays DEF SafeInv
<1>27. ASSUME WriteRecord PROVE SafeInv'
  <2>1. counter' >= counter /\ UNCHANGED <<pc, seen, got, out, told, floor>>
    BY <1>0, <1>27 DEF WriteRecord, tpm, admin, call, Epochs
  <2>2. QED
    BY <1>0, <2>1, ProcStays, ToldStays DEF SafeInv
<1>28. ASSUME WriteSig PROVE SafeInv'
  <2>1. counter' >= counter /\ UNCHANGED <<pc, seen, got, out, told, floor>>
    BY <1>0, <1>28 DEF WriteSig, tpm, admin, call, Epochs
  <2>2. QED
    BY <1>0, <2>1, ProcStays, ToldStays DEF SafeInv
<1>29. CASE UNCHANGED vars
  BY <1>0, <1>29, ProcStays, ToldStays DEF SafeInv, vars
<1>31. ASSUME RequestComplete \/ RequestEnds PROVE SafeInv'
  <2>1. ASSUME NEW q \in Procs PROVE ProcInv(q)'
    BY <1>0, <1>31, <2>1 DEF RequestComplete, RequestEnds, Conclude, Goto,
       SafeInv, ProcInv, Fresh, TypeOK, tpm, NoEpoch, Epochs, Outcomes
  <2>2. ToldInv'
    BY <1>0, <1>31 DEF RequestComplete, RequestEnds, Conclude, Goto, SafeInv,
       ToldInv, TypeOK, tpm, admin, call, Epochs, NoEpoch
  <2>3. QED
    BY <2>1, <2>2 DEF SafeInv
<1>32. ASSUME StrayIncrement PROVE SafeInv'
  <2>1. counter' >= counter /\ UNCHANGED <<pc, seen, got, out, told, floor>>
    BY <1>0, <1>32 DEF StrayIncrement, tpm, admin, call, Epochs, NvIncrement
  <2>2. QED
    BY <1>0, <2>1, ProcStays, ToldStays DEF SafeInv
<1>33. QED
  BY <1>2, <1>3, <1>4, <1>5, <1>6, <1>7, <1>8, <1>9, <1>10, <1>11, <1>12,
     <1>13, <1>14, <1>15, <1>16, <1>17, <1>18, <1>19, <1>20, <1>21, <1>22,
     <1>23, <1>24, <1>25, <1>26, <1>27, <1>28, <1>29, <1>31, <1>32
     DEF Next, GateStep, CommandStep

LEMMA SafeInvCorrect == Spec => []SafeInv
<1>1. Init => SafeInv
  BY ReleaseAssumption, ServiceAssumption
     DEF Init, SafeInv, ToldInv, ProcInv, Fresh, Procs, Nothing, NoEpoch, Running,
         Epochs
<1>2. QED
  BY <1>1, SafeInvStep, TypeCorrect, PTL DEF Spec

(***************************************************************************)
(* A call passes, and a status receipt says Running, only at an even epoch *)
(* the operator released for this device.                                  *)
(***************************************************************************)
THEOREM PassesOnlyReleased == Spec => []RunsOnlyReleased
<1>1. SafeInv => RunsOnlyReleased
  BY DEF SafeInv, ProcInv, RunsOnlyReleased
<1>2. QED
  BY <1>1, SafeInvCorrect, PTL

(***************************************************************************)
(* Once an operator has been told of a stop, no question that arrives      *)
(* later is allowed at that epoch or an earlier one.                       *)
(***************************************************************************)
THEOREM StopHoldsOnceTold == Spec => []ToldStopHolds
<1>1. TypeOK /\ SafeInv => ToldStopHolds
  <2> SUFFICES ASSUME TypeOK, SafeInv, out[Service].kind = "allow"
               PROVE  out[Service].epoch > floor
    BY DEF ToldStopHolds
  <2>1. Running(out[Service].epoch) /\ ~Running(floor) /\ floor <= out[Service].epoch
    BY DEF SafeInv, ProcInv, ToldInv, Procs
  <2>2. out[Service].epoch \in Int /\ floor \in Int
    BY DEF TypeOK, Procs, Outcomes, Epochs, NoEpoch
  <2>3. out[Service].epoch # floor
    BY <2>1
  <2>4. QED
    BY <2>1, <2>2, <2>3
<1>2. QED
  BY <1>1, TypeCorrect, SafeInvCorrect, PTL

-----------------------------------------------------------------------------
(***************************************************************************)
(* StopService implements StopPromise, for every value of the constants:   *)
(* each step of the service, of a command or of the world around them is a *)
(* step of the promise or leaves it unchanged.                             *)
(***************************************************************************)
\* What the service holds between questions, and when it comes to sign.
QuestionInv ==
  /\ pc[Service] \in {"down", "idle"} =>
       /\ seen[Service] = NoEpoch
       /\ floor = NoEpoch
       /\ out[Service] = Nothing
  /\ pc[Service] \in {"request", "read"} =>
       seen[Service] = NoEpoch /\ out[Service] = Nothing
  /\ pc[Service] = "certify" => got[Service] = NoFile

\* What the promise is about: nothing else in the model shows in it.
shown == <<counter, told, floor, pc[Service], seen[Service], out[Service], got[Service]>>

\* Every step that shows in the promise.
ShownNext ==
  \/ GateStep(Service) \/ ServiceStart \/ ServiceStop \/ Reply
  \/ RequestComplete \/ RequestEnds
  \/ \E who \in Commands \union {Gateway} : Accept(who)
  \/ /\ counter' > counter
     /\ UNCHANGED <<told, floor, pc[Service], seen[Service], out[Service], got[Service]>>
  \/ /\ told' \in 0..counter /\ ~Running(told') /\ told' > told
     /\ UNCHANGED <<counter, floor, pc[Service], seen[Service], out[Service], got[Service]>>
  \/ UNCHANGED shown

\* The steps of a command show only as a higher counter or a stop told.
LEMMA ShownSteps == TypeOK /\ TypeOK' /\ SafeInv /\ [Next]_vars => ShownNext
<1> SUFFICES ASSUME TypeOK, TypeOK', SafeInv, [Next]_vars PROVE ShownNext
  OBVIOUS
<1> USE ReleaseAssumption, ServiceAssumption
<1>0. /\ Service \in Procs /\ counter \in Int /\ counter' \in Int
      /\ \A c \in Commands : c \in Procs /\ c # Service
      /\ \A p \in Procs : p # Service => p \in Commands
  BY DEF TypeOK, Epochs, Procs
<1>1. ASSUME NEW p \in Procs, p # Service, GateStep(p) PROVE UNCHANGED shown
  BY <1>0, <1>1 DEF GateStep, ReadCounter, ReadRecord, ReadSigAndCheck, Certify,
     Open, Unreleased, GateError, Conclude, Goto, TypeOK, tpm, admin, call, shown
<1>2. ASSUME NEW c \in Commands, NEW o \in Ops, Invoke(c, o) PROVE UNCHANGED shown
  BY <1>0, <1>2 DEF Invoke, Goto, TypeOK, tpm, call, shown
<1>3. ASSUME NEW c \in Commands,
             \/ AdminLock(c) \/ LockTimeout(c) \/ VerifyStopCounter(c)
             \/ QueryIndex(c) \/ CreateIndex(c) \/ ReadFrom(c) \/ ReadBack(c)
             \/ ReadNow(c) \/ Connect(c) \/ ProbeEnds(c) \/ Kill(c)
      PROVE  UNCHANGED shown
  <2> USE DEF Goto, Exit, Conclude, TypeOK, tpm, call, admin, shown
  <2>1. CASE AdminLock(c) \/ LockTimeout(c)
    BY <1>0, <2>1 DEF AdminLock, LockTimeout
  <2>2. CASE VerifyStopCounter(c) \/ QueryIndex(c) \/ CreateIndex(c)
    BY <1>0, <2>2 DEF VerifyStopCounter, QueryIndex, CreateIndex
  <2>3. CASE ReadFrom(c) \/ ReadBack(c) \/ ReadNow(c)
    BY <1>0, <2>3 DEF ReadFrom, ReadBack, ReadNow
  <2>4. CASE Connect(c) \/ ProbeEnds(c) \/ Kill(c)
    BY <1>0, <2>4 DEF Connect, ProbeEnds, Kill
  <2>5. QED
    BY <1>3, <2>1, <2>2, <2>3, <2>4
<1>4. ASSUME NEW c \in Commands, FirstWrite(c) \/ Increment(c)
      PROVE  /\ counter' >= counter
             /\ UNCHANGED <<told, floor, pc[Service], seen[Service], out[Service],
                            got[Service]>>
  BY <1>0, <1>4 DEF FirstWrite, Increment, NvIncrement, Goto, Exit, TypeOK, tpm,
                    call, Epochs
<1>5. ASSUME NEW c \in Commands, Report(c)
      PROVE  /\ told' = told \/ (told' \in 0..counter /\ ~Running(told') /\ told' > told)
             /\ UNCHANGED <<counter, floor, pc[Service], seen[Service], out[Service],
                            got[Service]>>
  <2>1. UNCHANGED <<counter, floor, pc[Service], seen[Service], out[Service],
                    got[Service]>>
    BY <1>0, <1>5 DEF Report, Goto, Exit, TypeOK, tpm, call
  <2>2. out[c].epoch \in Int /\ out[c].epoch <= counter /\ told \in Int /\ told >= -1
    BY <1>0 DEF SafeInv, ProcInv, TypeOK, Outcomes, Epochs, NoEpoch
  <2>3. QED
    BY <1>5, <2>1, <2>2 DEF Report
<1>6. ASSUME OutsideIncrement \/ StrayIncrement
      PROVE  /\ counter' >= counter
             /\ UNCHANGED <<told, floor, pc[Service], seen[Service], out[Service],
                            got[Service]>>
  BY <1>0, <1>6 DEF OutsideIncrement, StrayIncrement, NvIncrement, TypeOK, admin, call, Epochs
<1>7. ASSUME OwnerDelete \/ WriteRecord \/ WriteSig \/ UNCHANGED vars
      PROVE  UNCHANGED shown
  BY <1>7 DEF OwnerDelete, WriteRecord, WriteSig, vars, tpm, admin, call, shown
<1>8. CASE \E p \in Procs : GateStep(p)
  BY <1>1, <1>8 DEF ShownNext
<1>9. CASE \E c \in Commands : CommandStep(c)
  <2> PICK c \in Commands : CommandStep(c)
    BY <1>9
  <2>1. CASE FirstWrite(c) \/ Increment(c)
    BY <1>0, <1>4, <2>1 DEF ShownNext, shown
  <2>2. CASE Report(c)
    BY <1>5, <2>2 DEF ShownNext, shown
  <2>3. CASE ~(FirstWrite(c) \/ Increment(c) \/ Report(c))
    BY <1>3, <2>3 DEF CommandStep, ShownNext
  <2>4. QED
    BY <2>1, <2>2, <2>3
<1>10. CASE OutsideIncrement \/ StrayIncrement
  BY <1>0, <1>6, <1>10 DEF ShownNext, shown
<1>11. QED
  BY <1>2, <1>7, <1>8, <1>9, <1>10 DEF Next, ShownNext

LEMMA QuestionInvCorrect == Spec => []QuestionInv
<1> USE ReleaseAssumption, ServiceAssumption
<1>1. Init => QuestionInv
  BY DEF Init, QuestionInv, Procs
<1>2. TypeOK /\ SafeInv /\ ShownNext /\ QuestionInv => QuestionInv'
  <2> SUFFICES ASSUME TypeOK, SafeInv, ShownNext, QuestionInv PROVE QuestionInv'
    OBVIOUS
  <2>0. Service \in Procs /\ Service \notin Commands
    BY DEF Procs
  <2> USE <2>0 DEF QuestionInv, TypeOK, Goto, Conclude, Recovers, Unreleased, GateError
  <2>1. CASE ReadCounter(Service)
    BY <2>1 DEF ReadCounter, SafeInv, ProcInv, Fresh
  <2>2. CASE ReadRecord(Service)
    BY <2>2 DEF ReadRecord, SafeInv, ProcInv, Fresh
  <2>3. CASE ReadSigAndCheck(Service)
    BY <2>3 DEF ReadSigAndCheck, Open
  <2>4. CASE Certify(Service)
    BY <2>4 DEF Certify
  <2>5. CASE ServiceStart \/ ServiceStop \/ Reply
    BY <2>5 DEF ServiceStart, ServiceStop, Reply, call
  <2>6. CASE \E who \in Commands \union {Gateway} : Accept(who)
    BY <2>6 DEF Accept
  <2>7. CASE RequestComplete \/ RequestEnds
    BY <2>7 DEF RequestComplete, RequestEnds, call
  <2>8. QED
    BY <2>1, <2>2, <2>3, <2>4, <2>5, <2>6, <2>7 DEF ShownNext, GateStep, shown
<1>3. QED
  BY <1>1, <1>2, ShownSteps, TypeCorrect, SafeInvCorrect, PTL DEF Spec

LEMMA StageOf ==
  \A label \in ServiceLabels :
    /\ label \in {"down", "idle"} <=> Stage(label) = "idle"
    /\ label \in {"request", "read"} <=> Stage(label) = "open"
    /\ label = "reply" <=> Stage(label) = "answered"
    /\ label \in {"record", "sig", "certify"} <=> Stage(label) = "looked"
BY DEF Stage, ServiceLabels

\* Each step that shows is one action of the promise, or changes nothing
\* the promise speaks of.
LEMMA PromiseStep ==
  ASSUME TypeOK, TypeOK', SafeInv, QuestionInv, ShownNext
  PROVE  [Promise!PromiseNext]_Promise!promiseVars
<1> USE ReleaseAssumption, ServiceAssumption
<1> DEFINE s  == Stage(pc[Service])
           s1 == Stage(pc'[Service])
<1>0. /\ Service \in Procs /\ Service \notin Commands
      /\ ~Recovers(Service) /\ Target(Service) = seen[Service]
      /\ counter \in Int /\ seen[Service] \in Int /\ floor \in Int
  BY DEF Procs, Recovers, Target, TypeOK, Epochs, NoEpoch
<1>1. /\ pc[Service] \in {"down", "idle"} <=> s = "idle"
      /\ pc[Service] \in {"request", "read"} <=> s = "open"
      /\ pc[Service] = "reply" <=> s = "answered"
      /\ pc[Service] \in {"record", "sig", "certify"} <=> s = "looked"
  BY StageOf DEF TypeOK
<1>2. /\ pc'[Service] \in {"down", "idle"} <=> s1 = "idle"
      /\ pc'[Service] \in {"request", "read"} <=> s1 = "open"
      /\ pc'[Service] = "reply" <=> s1 = "answered"
      /\ pc'[Service] \in {"record", "sig", "certify"} <=> s1 = "looked"
  BY StageOf DEF TypeOK
<1> HIDE DEF s, s1
<1> USE <1>0, <1>1, <1>2 DEF Goto, Conclude, tpm, admin, call, TypeOK
\* The disjuncts of the promise, in the terms of this module.
<1> DEFINE same == counter' = counter /\ told' = told
           still == floor' = floor /\ seen'[Service] = seen[Service]
           kind == out'[Service].kind
<1>3. ASSUME GateStep(Service)
      PROVE  /\ same
             /\ still \/ (floor' = floor /\ s = "open")
             /\ \/ s = "open" /\ s1 = "looked" /\ seen'[Service] = counter
                   /\ kind = out[Service].kind
                \/ s \in {"open", "looked"} /\ s1 = "answered" /\ kind = "error" /\ still
                \/ s = "looked" /\ s1 = "answered" /\ kind = "allow" /\ still
                   /\ Running(seen[Service]) /\ Released(seen[Service])
                   /\ seen[Service] > floor
                \/ s = "looked" /\ s1 = "answered" /\ kind = "stopped" /\ still
                   /\ seen[Service] = counter
                \/ s = "looked" /\ s1 = "looked" /\ kind = out[Service].kind /\ still
  <2>1. CASE ReadCounter(Service)
    BY <2>1 DEF ReadCounter
  <2>2. CASE ReadRecord(Service)
    BY <2>2 DEF ReadRecord, Unreleased, GateError
  <2>3. CASE ReadSigAndCheck(Service)
    <3>1. ReleaseValid(got[Service], sigFile, seen[Service]) =>
            /\ Running(seen[Service]) /\ Released(seen[Service])
            /\ seen[Service] > floor
      <4>1. floor <= seen[Service] /\ ~Running(floor)
        BY <2>3 DEF ReadSigAndCheck, SafeInv, ToldInv
      <4>2. ReleaseValid(got[Service], sigFile, seen[Service]) =>
              Running(seen[Service]) /\ Released(seen[Service])
        BY ReleaseValidReleased
      <4>3. Running(seen[Service]) => seen[Service] # floor
        BY <4>1, Zenon
      <4>4. /\ seen[Service] \in Int /\ floor \in Int
            /\ floor <= seen[Service]
        BY <4>1
      <4>5. seen[Service] # floor => seen[Service] > floor
        BY ONLY <4>4, SMT
      <4>6. QED
        BY ONLY <4>2, <4>3, <4>5, Zenon
    <3>2. QED
      BY <2>3, <3>1 DEF ReadSigAndCheck, Open, Unreleased, GateError
  <2>4. CASE Certify(Service)
    BY <2>4 DEF Certify, QuestionInv
  <2>5. QED
    BY <1>3, <2>1, <2>2, <2>3, <2>4 DEF GateStep
<1>4. ASSUME GateStep(Service) PROVE [Promise!PromiseNext]_Promise!promiseVars
  <2>1. CASE s = "open" /\ s1 = "looked" /\ seen'[Service] = counter
             /\ kind = out[Service].kind
    <3>1. Promise!Look
      BY <1>3, <1>4, <2>1 DEF s, s1, Promise!Look
    <3>2. QED
      BY <3>1 DEF Promise!PromiseNext
  <2>2. CASE s \in {"open", "looked"} /\ s1 = "answered" /\ kind = "error" /\ still
    <3>1. Promise!Deny
      BY <1>3, <1>4, <2>2 DEF s, s1, Promise!Deny
    <3>2. QED
      BY <3>1 DEF Promise!PromiseNext
  <2>3. CASE s = "looked" /\ s1 = "answered" /\ kind = "allow" /\ still
             /\ Running(seen[Service]) /\ Released(seen[Service])
             /\ seen[Service] > floor
    <3>1. Promise!Allow
      BY <1>3, <1>4, <2>3 DEF s, s1, Promise!Allow, Promise!Running,
         Promise!Released, Running, Released
    <3>2. QED
      BY <3>1 DEF Promise!PromiseNext
  <2>4. CASE s = "looked" /\ s1 = "answered" /\ kind = "stopped" /\ still
             /\ seen[Service] = counter
    <3>1. Promise!Refuse
      BY <1>3, <1>4, <2>4 DEF s, s1, Promise!Refuse
    <3>2. QED
      BY <3>1 DEF Promise!PromiseNext
  <2>5. CASE s = "looked" /\ s1 = "looked" /\ kind = out[Service].kind /\ still
    <3>1. UNCHANGED Promise!promiseVars
      BY <1>3, <1>4, <2>5 DEF s, s1, Promise!promiseVars, Promise!question
    <3>2. QED
      BY <3>1
  <2>6. QED
    BY <1>3, <1>4, <2>1, <2>2, <2>3, <2>4, <2>5
<1>5. ASSUME NEW who \in Commands \union {Gateway}, Accept(who)
      PROVE  [Promise!PromiseNext]_Promise!promiseVars
  <2>1. Promise!Ask
    BY <1>5 DEF Accept, QuestionInv, s, s1, Promise!Ask, Nothing
  <2>2. QED
    BY <2>1 DEF Promise!PromiseNext
<1>6. ASSUME ServiceStart PROVE UNCHANGED Promise!promiseVars
  BY <1>6 DEF ServiceStart, s, s1, Promise!promiseVars, Promise!question
<1>7. ASSUME ServiceStop \/ Reply
      PROVE  [Promise!PromiseNext]_Promise!promiseVars
  <2>1. /\ same /\ s1 = "idle" /\ kind = "none"
        /\ floor' = NoEpoch /\ seen'[Service] = NoEpoch
    BY <1>7 DEF ServiceStop, Reply, Nothing
  <2>2. CASE s # "idle"
    <3>1. Promise!Close
      BY <2>1, <2>2 DEF s, s1, Promise!Close, Promise!NoEpoch, NoEpoch
    <3>2. QED
      BY <3>1 DEF Promise!PromiseNext
  <2>3. CASE s = "idle"
    <3>1. UNCHANGED Promise!promiseVars
      BY <2>1, <2>3 DEF QuestionInv, Nothing, s, s1, Promise!promiseVars,
                        Promise!question
    <3>2. QED
      BY <3>1
  <2>4. QED
    BY <2>2, <2>3
<1>8. ASSUME counter' > counter,
             UNCHANGED <<told, floor, pc[Service], seen[Service], out[Service],
                         got[Service]>>
      PROVE  [Promise!PromiseNext]_Promise!promiseVars
  <2>1. Promise!Advance
    BY <1>8 DEF Promise!Advance, Promise!question, Promise!Epochs, Epochs
  <2>2. QED
    BY <2>1 DEF Promise!PromiseNext
<1>9. ASSUME told' \in 0..counter, ~Running(told'), told' > told,
             UNCHANGED <<counter, floor, pc[Service], seen[Service], out[Service],
                         got[Service]>>
      PROVE  [Promise!PromiseNext]_Promise!promiseVars
  <2>1. Promise!Tell
    BY <1>9 DEF Promise!Tell, Promise!question, Promise!Running, Running
  <2>2. QED
    BY <2>1 DEF Promise!PromiseNext
<1>10. ASSUME UNCHANGED shown PROVE UNCHANGED Promise!promiseVars
  BY <1>10 DEF shown, Promise!promiseVars, Promise!question
<1>11. ASSUME RequestEnds PROVE [Promise!PromiseNext]_Promise!promiseVars
  <2>1. Promise!Deny
    BY <1>11 DEF RequestEnds, s, s1, Promise!Deny
  <2>2. QED
    BY <2>1 DEF Promise!PromiseNext
<1>12. ASSUME RequestComplete PROVE UNCHANGED Promise!promiseVars
  BY <1>12 DEF RequestComplete, s, s1, Promise!promiseVars, Promise!question
<1>13. QED
  BY <1>4, <1>5, <1>6, <1>7, <1>8, <1>9, <1>10, <1>11, <1>12 DEF ShownNext

(***************************************************************************)
(* The service with its commands, files and lock implements the promise    *)
(* StopPromise states: every answer is one value of the counter, looked at *)
(* while the question was open, and passes only if the operator released   *)
(* that value and it lies beyond every stop told before the question.      *)
(***************************************************************************)
THEOREM ServiceKeepsPromise == Spec => KeepsPromise
<1>1. Init => Promise!PromiseInit
  BY ServiceAssumption, ReleaseAssumption
     DEF Init, Promise!PromiseInit, Procs, Stage, Nothing, NoEpoch,
         Promise!NoEpoch, Promise!Epochs, Epochs
<1>2. TypeOK /\ TypeOK' /\ SafeInv /\ QuestionInv /\ [Next]_vars =>
        [Promise!PromiseNext]_Promise!promiseVars
  BY ShownSteps, PromiseStep
<1>3. QED
  BY <1>1, <1>2, TypeCorrect, SafeInvCorrect, QuestionInvCorrect, PTL
     DEF Spec, KeepsPromise, Promise!PromiseSpec
=============================================================================
