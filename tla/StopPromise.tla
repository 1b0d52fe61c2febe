----------------------------- MODULE StopPromise -----------------------------
(***************************************************************************)
(* What tactiq-stop promises, without its steps: the stop counter is one   *)
(* number that only goes up; a question looks at it once, at an instant    *)
(* while the question is open; it is allowed only if that value is one the *)
(* operator released; a refusal is signed only if the counter still stands *)
(* there; and an operator told of a stop is told an odd value the counter  *)
(* has reached. README.md and the head of crates/stop/src/main.rs.         *)
(***************************************************************************)
EXTENDS StopGate

VARIABLES
  epoch,   \* the stop counter
  told,    \* the highest stop an operator has been told of
  stage,   \* of the question the service has: "idle", "open", "looked", "answered"
  floor,   \* `told` when the question arrived
  sample,  \* the value it looked at
  answer   \* "none", "allow", "stopped" or "error"

question == <<stage, floor, sample, answer>>
promiseVars == <<epoch, told, stage, floor, sample, answer>>

PromiseInit ==
  /\ epoch \in Epochs
  /\ told = NoEpoch /\ floor = NoEpoch /\ sample = NoEpoch
  /\ stage = "idle"
  /\ answer = "none"

\* Someone moves the counter on.
Advance ==
  /\ epoch' \in Epochs
  /\ epoch' > epoch
  /\ UNCHANGED <<told, question>>

\* An operator is told of a stop: an odd value the counter has reached.
Tell ==
  /\ told' \in 0..epoch
  /\ ~Running(told')
  /\ told' > told
  /\ UNCHANGED <<epoch, question>>

Ask ==
  /\ stage = "idle"
  /\ stage' = "open"
  /\ floor' = told
  /\ UNCHANGED <<epoch, told, sample, answer>>

Look ==
  /\ stage = "open"
  /\ stage' = "looked"
  /\ sample' = epoch
  /\ UNCHANGED <<epoch, told, floor, answer>>

\* The only way a call passes: past every stop told before it was asked, at
\* a value the operator released.
Allow ==
  /\ stage = "looked"
  /\ Running(sample) /\ Released(sample)
  /\ sample > floor
  /\ stage' = "answered"
  /\ answer' = "allow"
  /\ UNCHANGED <<epoch, told, floor, sample>>

\* A signed refusal: the counter has not moved since it was looked at.
Refuse ==
  /\ stage = "looked"
  /\ sample = epoch
  /\ stage' = "answered"
  /\ answer' = "stopped"
  /\ UNCHANGED <<epoch, told, floor, sample>>

\* No decision, so no call: an unsigned denial.
Deny ==
  /\ stage \in {"open", "looked"}
  /\ stage' = "answered"
  /\ answer' = "error"
  /\ UNCHANGED <<epoch, told, floor, sample>>

\* The answer is sent, or the service stops and the gateway denies.
Close ==
  /\ stage # "idle"
  /\ stage' = "idle"
  /\ answer' = "none"
  /\ floor' = NoEpoch
  /\ sample' = NoEpoch
  /\ UNCHANGED <<epoch, told>>

PromiseNext ==
  Advance \/ Tell \/ Ask \/ Look \/ Allow \/ Refuse \/ Deny \/ Close

PromiseSpec == PromiseInit /\ [][PromiseNext]_promiseVars
=============================================================================
