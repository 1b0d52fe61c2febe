------------------------- MODULE EpochCounterProofs -------------------------
(***************************************************************************)
(* Proofs about EpochCounter: type correctness for any number of agents,    *)
(* and for one agent that its counters rise, for every size of the epoch    *)
(* and of the NV counter and whatever else advances it.                    *)
(***************************************************************************)
EXTENDS EpochCounter, TLAPS

\* One epoch's counters lie below the next epoch's.
LEMMA EpochsApart ==
  ASSUME NEW e \in Nat, NEW n \in Nat, e < n, NEW s \in Nat, s < SeqLimit
  PROVE  Compose(e, s) < Compose(n, 0) /\ Compose(e, s) \in Nat
<1> USE EpochAssumption
<1>1. SeqLimit \in Nat /\ n - e - 1 \in Nat
  OBVIOUS
<1>2. (n - e - 1) * SeqLimit >= 0 /\ e * SeqLimit >= 0
  BY <1>1
<1>3. n * SeqLimit = e * SeqLimit + SeqLimit + (n - e - 1) * SeqLimit
  BY <1>1
<1>4. e * SeqLimit \in Int /\ n * SeqLimit \in Int /\ (n - e - 1) * SeqLimit \in Int
  BY <1>1
<1> QED
  BY <1>1, <1>2, <1>3, <1>4 DEF Compose

LEMMA EpochsOrdered ==
  ASSUME NEW e \in Nat, NEW n \in Nat, e <= n
  PROVE  Compose(e, 0) <= Compose(n, 0)
<1>1. CASE e = n
  BY <1>1, EpochAssumption DEF Compose
<1>2. CASE e < n
  <2>1. Compose(e, 0) < Compose(n, 0)
    BY <1>2, EpochsApart, EpochAssumption
  <2>2. Compose(e, 0) \in Int /\ Compose(n, 0) \in Int
    BY EpochAssumption DEF Compose
  <2> QED
    BY <2>1, <2>2
<1> QED
  BY <1>1, <1>2

\* A counter that is handed out is one of Counters.
LEMMA FitsCounters ==
  ASSUME NEW e \in Nat, NEW s \in Nat, Fits(e, s)
  PROVE  Compose(e, s) \in Counters
<1>1. Compose(e, s) < Compose(EpochLimit, 0) /\ Compose(e, s) \in Nat
  BY EpochsApart, EpochAssumption DEF Fits
<1>2. Compose(EpochLimit, 0) \in Int
  BY EpochAssumption DEF Compose
<1> QED
  BY <1>1, <1>2 DEF Counters

\* A process that is not running has no epoch, one that composes or uses a
\* counter has one, and one that loads the file finds a value in it.
HasEpoch ==
  \A a \in Agents :
    /\ pc[a] = "off" => epoch[a] = NoEpoch
    /\ pc[a] \in {"compose", "cycle"} => epoch[a] # NoEpoch
    /\ pc[a] = "write" => tool[a] # NoEpoch
    /\ pc[a] = "load" => file # NoEpoch

Typed == TypeOK /\ HasEpoch

LEMMA TypedInit == Init => Typed
BY EpochAssumption DEF Init, Typed, TypeOK, HasEpoch, Labels, NoEpoch

LEMMA TypedStep == Typed /\ [Next]_vars => Typed'
<1> SUFFICES ASSUME Typed, [Next]_vars
             PROVE  Typed'
  OBVIOUS
<1> USE EpochAssumption DEF Typed, TypeOK, HasEpoch, Labels, NoEpoch, Goto,
        alloc, wear
<1>1. CASE OutsideIncrement
  BY <1>1 DEF OutsideIncrement
<1>2. ASSUME NEW a \in Agents, Step(a)
      PROVE  Typed'
  <2>1. CASE Start(a)
    BY <2>1 DEF Start
  <2>2. CASE NextCounter(a)
    BY <2>2 DEF NextCounter
  <2>3. CASE NvIncrement(a)
    BY <2>3 DEF NvIncrement
  <2>4. CASE NvRead(a)
    BY <2>4 DEF NvRead
  <2>5. CASE NvReadWrites(a)
    BY <2>5 DEF NvReadWrites
  <2>6. CASE LoadEpoch(a)
    BY <2>6 DEF LoadEpoch
  <2>7. CASE HandOut(a)
    <3>1. epoch[a] \in Nat /\ seq[a] \in Nat /\ seq[a] < SeqLimit
      BY <2>7 DEF HandOut, Fits
    <3>2. Compose(epoch[a], seq[a]) \in Counters
      BY <2>7, <3>1, FitsCounters DEF HandOut
    <3>3. handed[Compose(epoch[a], seq[a])] + 1 \in Nat
      BY <3>2
    <3>4. handed' \in [Counters -> Nat]
      BY <2>7, <3>2, <3>3 DEF HandOut
    <3>5. seq' \in [Agents -> 0..SeqLimit] /\ given' \in [Agents -> Nat]
      BY <2>7, <3>1 DEF HandOut
    <3> QED
      BY <2>7, <3>4, <3>5 DEF HandOut
  <2>8. CASE NextCycle(a)
    BY <2>8 DEF NextCycle
  <2>9. CASE Stop(a)
    BY <2>9 DEF Stop
  <2> QED
    BY <1>2, <2>1, <2>2, <2>3, <2>4, <2>5, <2>6, <2>7, <2>8, <2>9 DEF Step
<1>3. CASE UNCHANGED vars
  BY <1>3 DEF vars
<1> QED
  BY <1>1, <1>2, <1>3 DEF Next

\* Every variable keeps its type, in particular no counter outside the 64
\* bits is handed out (prover main.rs compose_counter).
THEOREM CounterTypes == Spec => []TypeOK
<1>1. Typed => TypeOK
  BY DEF Typed
<1> QED
  BY TypedInit, TypedStep, <1>1, PTL DEF Spec

-----------------------------------------------------------------------------
\* Every counter handed out so far is below x.
Below(x) == \A c \in Counters : handed[c] > 0 => c < x

\* The inductive invariant of one agent `a`: where the counters handed out
\* stand against the value that travels from the TPM through the tool and the
\* file into the allocator.
RiseInv(a) ==
  /\ Below(Compose(nv + 1, 0))
  /\ pc[a] = "read" => Below(Compose(nv, 0))
  /\ pc[a] = "write" => tool[a] <= nv /\ Below(Compose(tool[a], 0))
  /\ pc[a] = "load" => file <= nv /\ Below(Compose(file, 0))
  /\ epoch[a] # NoEpoch => epoch[a] <= nv
  /\ pc[a] \in {"next", "compose", "cycle"} /\ epoch[a] # NoEpoch =>
       Below(Compose(epoch[a], seq[a]))

\* Below is monotone.
LEMMA BelowMore ==
  ASSUME NEW x \in Int, NEW y \in Int, x <= y, Below(x), Typed
  PROVE  Below(y)
<1>1. Counters \subseteq Int
  BY DEF Counters
<1> QED
  BY <1>1 DEF Below

LEMMA ComposeInt ==
  ASSUME NEW e \in Int, NEW s \in Int
  PROVE  Compose(e, s) \in Int
BY EpochAssumption DEF Compose

LEMMA RiseInit ==
  ASSUME NEW a \in Agents, Init
  PROVE  RiseInv(a)
BY DEF Init, RiseInv, Below, NoEpoch

\* The counter an agent is handed is above every earlier one, and those
\* handed out then are below the next.
LEMMA HandOutAbove ==
  ASSUME NEW a \in Agents, Typed, RiseInv(a), HandOut(a)
  PROVE  /\ Below(Compose(epoch[a], seq[a]))
         /\ Compose(epoch[a], seq[a]) \in Counters
         /\ Below(Compose(epoch[a], seq[a]))'
         /\ Below(Compose(nv + 1, 0))'
<1> DEFINE c == Compose(epoch[a], seq[a])
<1>1. /\ epoch[a] \in Nat /\ seq[a] \in Nat /\ seq[a] < SeqLimit
      /\ epoch[a] # NoEpoch /\ epoch[a] <= nv /\ nv \in Nat
      /\ seq'[a] = seq[a] + 1 /\ epoch' = epoch /\ nv' = nv
  BY EpochAssumption
     DEF HandOut, Fits, Typed, TypeOK, HasEpoch, RiseInv, NoEpoch
<1>2. Below(c)
  BY <1>1 DEF RiseInv, HandOut
<1>3. c \in Counters
  BY <1>1, FitsCounters DEF HandOut
<1>4. \A d \in Counters : handed'[d] > 0 => d = c \/ handed[d] > 0
  BY <1>3 DEF HandOut, Typed, TypeOK
<1>5. Compose(epoch[a], seq[a] + 1) = c + 1
  BY <1>1, EpochAssumption DEF Compose
<1>6. c < Compose(nv + 1, 0)
  <2>1. nv + 1 \in Nat /\ epoch[a] < nv + 1
    BY <1>1
  <2> QED
    BY <1>1, <2>1, EpochsApart
<1>7. c \in Int /\ Compose(nv + 1, 0) \in Int /\ Counters \subseteq Int
  <2>1. epoch[a] \in Int /\ seq[a] \in Int /\ nv + 1 \in Int /\ 0 \in Int
    BY <1>1
  <2>2. c \in Int
    BY <2>1, ComposeInt
  <2>3. Compose(nv + 1, 0) \in Int
    BY <2>1, ComposeInt
  <2>4. Counters \subseteq Int
    BY DEF Counters
  <2> QED
    BY <2>2, <2>3, <2>4
<1> HIDE DEF c
<1>8. \A d \in Counters : handed'[d] > 0 => d < c + 1
  BY <1>2, <1>4, <1>7 DEF Below
<1>9. \A d \in Counters : handed'[d] > 0 => d < Compose(nv + 1, 0)
  BY <1>6, <1>7, <1>8
<1>10. Compose(epoch'[a], seq'[a]) = c + 1
  BY <1>1, <1>5 DEF c
<1>11. Compose(nv' + 1, 0) = Compose(nv + 1, 0)
  BY <1>1
<1>12. Below(Compose(epoch[a], seq[a]))'
  BY <1>8, <1>10 DEF Below
<1>13. Below(Compose(nv + 1, 0))'
  BY <1>9, <1>11 DEF Below
<1> QED
  BY <1>2, <1>3, <1>12, <1>13 DEF c

\* One agent's step keeps the invariant.
LEMMA RiseStep ==
  ASSUME NEW a, Agents = {a}, Typed, Typed', RiseInv(a), [Next]_vars
  PROVE  RiseInv(a)'
<1> USE EpochAssumption DEF Goto, alloc, wear, NoEpoch
<1>1. nv \in Nat /\ nv' \in Nat /\ a \in Agents
  BY DEF Typed, TypeOK
<1>2. /\ Compose(nv, 0) <= Compose(nv + 1, 0)
      /\ Compose(nv, 0) \in Int /\ Compose(nv + 1, 0) \in Int
      /\ Compose(nv + 2, 0) \in Int
      /\ Compose(nv + 1, 0) <= Compose(nv + 2, 0)
  <2>1. nv + 1 \in Nat /\ nv + 2 \in Nat /\ nv <= nv + 1 /\ nv + 1 <= nv + 2
    BY <1>1
  <2>2. nv \in Int /\ nv + 1 \in Int /\ nv + 2 \in Int /\ 0 \in Int
    BY <1>1
  <2> QED
    BY <1>1, <2>1, <2>2, EpochsOrdered, ComposeInt
<1>3. nv' = nv + 1 /\ handed' = handed => Below(Compose(nv + 1, 0))'
  <2>1. Below(Compose(nv + 2, 0))
    BY <1>2, BelowMore DEF RiseInv
  <2> QED
    BY <1>1, <2>1 DEF Below
<1>4. CASE OutsideIncrement
  <2>1. nv' = nv + 1 /\ handed' = handed
    BY <1>4 DEF OutsideIncrement
  <2>2. pc[a] = "read" => Below(Compose(nv', 0))
    BY <1>1, <2>1 DEF RiseInv
  <2> QED
    BY <1>1, <1>3, <1>4, <2>1, <2>2
       DEF OutsideIncrement, RiseInv, Below, Typed, TypeOK
<1>5. ASSUME Step(a)
      PROVE  RiseInv(a)'
  <2>1. CASE Start(a)
    BY <1>1, <2>1 DEF Start, RiseInv, Below, Typed, TypeOK, HasEpoch
  <2>2. CASE NextCounter(a)
    BY <1>1, <2>2 DEF NextCounter, RiseInv, Below, Typed, TypeOK
  <2>3. CASE NvIncrement(a)
    <3>1. nv' = nv + 1 /\ handed' = handed /\ pc'[a] = "read"
      BY <1>1, <2>3 DEF NvIncrement, Typed, TypeOK
    <3>2. Below(Compose(nv, 0))'
      BY <1>1, <3>1 DEF RiseInv, Below
    <3> QED
      BY <1>1, <1>3, <2>3, <3>1, <3>2 DEF NvIncrement, RiseInv, Typed, TypeOK
  <2>4. CASE NvRead(a)
    BY <1>1, <2>4 DEF NvRead, RiseInv, Below, Typed, TypeOK
  <2>5. CASE NvReadWrites(a)
    BY <1>1, <2>5 DEF NvReadWrites, RiseInv, Below, Typed, TypeOK
  <2>6. CASE LoadEpoch(a)
    BY <1>1, <2>6 DEF LoadEpoch, RiseInv, Below, Typed, TypeOK
  <2>7. CASE HandOut(a)
    <3>1. /\ Below(Compose(epoch[a], seq[a]))'
          /\ Below(Compose(nv + 1, 0))'
      BY <1>1, <2>7, HandOutAbove
    <3>2. /\ pc'[a] = "cycle" /\ seq'[a] = seq[a] + 1
          /\ epoch' = epoch /\ nv' = nv
      BY <1>1, <2>7 DEF HandOut, Typed, TypeOK
    <3>3. epoch'[a] # NoEpoch => epoch'[a] <= nv'
      BY <3>2 DEF RiseInv
    <3> QED
      BY <3>1, <3>2, <3>3 DEF RiseInv
  <2>8. CASE NextCycle(a)
    BY <1>1, <2>8 DEF NextCycle, RiseInv, Below, Typed, TypeOK
  <2>9. CASE Stop(a)
    BY <1>1, <2>9 DEF Stop, RiseInv, Below, Typed, TypeOK
  <2> QED
    BY <1>5, <2>1, <2>2, <2>3, <2>4, <2>5, <2>6, <2>7, <2>8, <2>9 DEF Step
<1>6. CASE UNCHANGED vars
  BY <1>1, <1>6 DEF vars, RiseInv, Below
<1> QED
  BY <1>4, <1>5, <1>6 DEF Next

\* With one agent every counter handed out is above every earlier one, in
\* whatever process and whenever the earlier ones died (prover main.rs
\* CounterAlloc::next).
THEOREM OneAgentRises ==
  ASSUME NEW a, Agents = {a}
  PROVE  Spec => CountersRise
<1> DEFINE Rise == \A c, d \in Counters :
                     handed'[c] > handed[c] /\ handed[d] > 0 => d < c
<1>1. a \in Agents
  OBVIOUS
<1>2. Init => Typed /\ RiseInv(a)
  BY <1>1, TypedInit, RiseInit
<1>3. Typed /\ RiseInv(a) /\ [Next]_vars => (Typed /\ RiseInv(a))'
  BY TypedStep, RiseStep
<1>4. Typed /\ RiseInv(a) /\ [Next]_vars => [Rise]_vars
  <2> SUFFICES ASSUME Typed, RiseInv(a), Next
               PROVE  Rise
    BY DEF vars
  <2>1. CASE HandOut(a)
    <3>1. /\ Below(Compose(epoch[a], seq[a]))
          /\ Compose(epoch[a], seq[a]) \in Counters
      BY <1>1, <2>1, HandOutAbove
    <3>2. \A c \in Counters : handed'[c] > handed[c] =>
            c = Compose(epoch[a], seq[a])
      BY <2>1, <3>1 DEF HandOut, Typed, TypeOK
    <3> QED
      BY <3>1, <3>2 DEF Below
  <2>2. CASE handed' = handed
    BY <2>2 DEF Typed, TypeOK
  <2>3. HandOut(a) \/ handed' = handed
    BY DEF Next, Step, OutsideIncrement, Start, NextCounter, NvIncrement,
           NvRead, NvReadWrites, LoadEpoch, NextCycle, Stop
  <2> QED
    BY <2>1, <2>2, <2>3
<1> QED
  BY <1>2, <1>3, <1>4, PTL DEF Spec, CountersRise

-----------------------------------------------------------------------------
\* Where a process has used up `used` counters of its present epoch and made
\* w increments, it was given so many.
Given(w, used) == (w - 1) * SeqLimit + used

\* What each place implies about the increments made and the counters given:
\* none of either before the first increment, then whole epochs but for the
\* present one; a process increments again when that is used up.
WearInv ==
  \A a \in Agents :
    /\ writes[a] = 0 => /\ given[a] = 0
                        /\ pc[a] \in {"off", "next", "increment"}
                        /\ pc[a] = "next" => epoch[a] = NoEpoch
    /\ writes[a] # 0 => /\ pc[a] # "off"
                        /\ pc[a] = "next" => epoch[a] # NoEpoch
                        /\ pc[a] = "increment" => seq[a] = SeqLimit
                        /\ given[a] = IF pc[a] \in {"read", "write", "load"}
                                      THEN Given(writes[a], 0)
                                      ELSE Given(writes[a], seq[a])

LEMMA GivenSteps ==
  ASSUME NEW w \in Nat, NEW used \in Nat
  PROVE  /\ Given(w, used) + 1 = Given(w, used + 1)
         /\ Given(w, SeqLimit) = Given(w + 1, 0)
         /\ Given(1, 0) = 0
  <1>1. SeqLimit \in Int
    BY EpochAssumption
  <1>2. (w - 1) * SeqLimit \in Int /\ (w - 1) * SeqLimit + SeqLimit = w * SeqLimit
    BY <1>1
  <1>3. (w + 1) - 1 = w /\ 1 - 1 = 0 /\ 0 * SeqLimit = 0
    BY <1>1
  <1> QED
    BY <1>1, <1>2, <1>3 DEF Given

LEMMA WearInit == Init => WearInv
BY DEF Init, WearInv

LEMMA WearStep == Typed /\ Typed' /\ WearInv /\ [Next]_vars => WearInv'
<1> SUFFICES ASSUME Typed, Typed', WearInv, [Next]_vars
             PROVE  WearInv'
  OBVIOUS
<1> USE EpochAssumption DEF WearInv, Goto, alloc, wear
<1>1. CASE OutsideIncrement \/ UNCHANGED vars
  BY <1>1 DEF OutsideIncrement, vars
<1>2. ASSUME NEW a \in Agents, Step(a)
      PROVE  WearInv'
  <2> USE DEF Typed, TypeOK
  <2>1. CASE Start(a)
    BY <2>1 DEF Start, HasEpoch
  <2>2. CASE NextCounter(a)
    <3>1. /\ pc[a] = "next" /\ UNCHANGED <<epoch, seq, writes, given>>
          /\ pc' = [pc EXCEPT ![a] = IF epoch[a] = NoEpoch \/ seq[a] >= SeqLimit
                                     THEN "increment" ELSE "compose"]
      BY <2>2 DEF NextCounter
    <3>2. seq[a] >= SeqLimit => seq[a] = SeqLimit
      OBVIOUS
    <3> QED
      BY <3>1, <3>2
  <2>3. CASE NvIncrement(a)
    <3>1. /\ pc[a] = "increment" /\ pc' = [pc EXCEPT ![a] = "read"]
          /\ writes' = [writes EXCEPT ![a] = @ + 1] /\ UNCHANGED <<epoch, seq, given>>
      BY <2>3 DEF NvIncrement
    <3>2. given[a] = Given(writes[a] + 1, 0)
      <4>1. writes[a] \in Nat /\ seq[a] \in Nat /\ pc[a] = "increment"
        BY <3>1
      <4>2. Given(writes[a], SeqLimit) = Given(writes[a] + 1, 0) /\ Given(1, 0) = 0
        BY <4>1, GivenSteps
      <4> QED
        BY <4>1, <4>2
    <3>3. writes'[a] = writes[a] + 1 /\ writes'[a] # 0
      BY <3>1
    <3> QED
      BY <3>1, <3>2, <3>3
  <2>4. CASE NvRead(a)
    BY <2>4 DEF NvRead
  <2>5. CASE NvReadWrites(a)
    BY <2>5 DEF NvReadWrites
  <2>6. CASE LoadEpoch(a)
    BY <2>6 DEF LoadEpoch
  <2>7. CASE HandOut(a)
    <3>1. /\ pc[a] = "compose" /\ pc' = [pc EXCEPT ![a] = "cycle"]
          /\ seq' = [seq EXCEPT ![a] = @ + 1] /\ given' = [given EXCEPT ![a] = @ + 1]
          /\ UNCHANGED <<epoch, writes>>
      BY <2>7 DEF HandOut
    <3>2. given[a] + 1 = Given(writes[a], seq[a] + 1)
      <4>1. writes[a] \in Nat /\ seq[a] \in Nat
        BY <3>1
      <4>2. Given(writes[a], seq[a]) + 1 = Given(writes[a], seq[a] + 1)
        BY <4>1, GivenSteps
      <4> QED
        BY <3>1, <4>2
    <3> QED
      BY <3>1, <3>2
  <2>8. CASE NextCycle(a)
    BY <2>8 DEF NextCycle, HasEpoch
  <2>9. CASE Stop(a)
    BY <2>9 DEF Stop
  <2> QED
    BY <1>2, <2>1, <2>2, <2>3, <2>4, <2>5, <2>6, <2>7, <2>8, <2>9 DEF Step
<1> QED
  BY <1>1, <1>2 DEF Next

\* As many whole epochs as were used up fit into the counters given.
LEMMA EpochsUsed ==
  ASSUME NEW w \in Nat, NEW g \in Nat, NEW used \in Nat, g = Given(w, used)
  PROVE  w <= 1 + g \div SeqLimit
<1> DEFINE k == SeqLimit
           q == g \div k
<1>1. k \in Nat /\ k > 0
  BY EpochAssumption
<1>2. q \in Int /\ g < (q + 1) * k
  BY <1>1
<1>3. (w - 1) * k <= g
  BY <1>1 DEF Given
<1> HIDE DEF q, k
<1>4. (w - 1) * k < (q + 1) * k
  BY <1>1, <1>2, <1>3
<1>5. w - 1 < q + 1
  BY <1>1, <1>2, <1>4
<1> QED
  BY <1>2, <1>5 DEF q, k

\* "One NV increment per epoch, not per envelope" (prover main.rs
\* CounterAlloc), for any number of processes and every size of an epoch.
THEOREM WearIsBounded == Spec => []WearBounded
<1>1. Typed /\ WearInv => WearBounded
  <2> SUFFICES ASSUME Typed, WearInv, NEW a \in Agents
               PROVE  writes[a] <= 1 + given[a] \div SeqLimit
    BY DEF WearBounded
  <2>1. writes[a] \in Nat /\ given[a] \in Nat /\ seq[a] \in Nat /\ 0 \in Nat
    BY EpochAssumption DEF Typed, TypeOK
  <2>2. CASE writes[a] = 0
    <3>1. 0 \div SeqLimit = 0
      BY EpochAssumption
    <3> QED
      BY <2>2, <3>1 DEF WearInv
  <2>3. CASE writes[a] # 0
    <3>1. PICK used \in Nat : given[a] = Given(writes[a], used)
      BY <2>1, <2>3 DEF WearInv
    <3> QED
      BY <2>1, <3>1, EpochsUsed
  <2> QED
    BY <2>2, <2>3
<1>2. Init => Typed /\ WearInv
  BY TypedInit, WearInit
<1>3. Typed /\ WearInv /\ [Next]_vars => (Typed /\ WearInv)'
  BY TypedStep, WearStep
<1> QED
  BY <1>1, <1>2, <1>3, PTL DEF Spec
=============================================================================
