-------------------------- MODULE AgentCycleProofs --------------------------
(***************************************************************************)
(* Proofs about AgentCycle: its cycles take their counters as EpochCounter *)
(* says, its types, and that an accepted envelope describes an enrolled    *)
(* state the device was in after the envelope's counter was handed out,    *)
(* for any number of processes, states, selections and reference sets.     *)
(***************************************************************************)
EXTENDS AgentCycle, EpochCounterProofs, SequenceTheorems

-----------------------------------------------------------------------------
(***************************************************************************)
(* Every step of the cycle is a step of EpochCounter or leaves its         *)
(* variables alone, so what is proved of EpochCounter holds here.          *)
(***************************************************************************)
LEMMA CycleStepsEpochs == [CycleNext]_cycleVars => [Next]_vars
<1> SUFFICES ASSUME [CycleNext]_cycleVars
             PROVE  [Next]_vars
  OBVIOUS
<1>1. ASSUME NEW a \in Agents, CycleStep(a)
      PROVE  Step(a) \/ UNCHANGED vars
  <2>1. CASE TakeCounter(a)
    BY <2>1 DEF TakeCounter, Step
  <2>2. CASE BeginCycle(a)
    BY <2>2 DEF BeginCycle, Step
  <2>3. CASE PcrRead(a) \/ PcrReadWrites(a) \/ BuildMessage(a) \/ QuoteMessage(a)
    BY <2>3 DEF PcrRead, PcrReadWrites, BuildMessage, QuoteMessage
  <2>4. CASE EndCycle(a)
    BY <2>4 DEF EndCycle, Step
  <2>5. CASE StopCycle(a)
    BY <2>5 DEF StopCycle, Step
  <2> QED
    BY <1>1, <2>1, <2>2, <2>3, <2>4, <2>5 DEF CycleStep
<1>2. CASE PcrsChange \/ SignReceipt
  BY <1>2 DEF PcrsChange, SignReceipt
<1>3. CASE OthersIncrement
  BY <1>3 DEF OthersIncrement, Next
<1>4. CASE UNCHANGED cycleVars
  BY <1>4 DEF cycleVars
<1> QED
  BY <1>1, <1>2, <1>3, <1>4 DEF CycleNext, Next

\* main.rs cmd_attest around CounterAlloc: measuring, quoting and signing
\* receipts do not disturb how counters are handed out.
THEOREM CycleIsEpochs == CycleSpec => Spec
<1>1. CycleInit => Init
  BY DEF CycleInit
<1> QED
  BY <1>1, CycleStepsEpochs, PTL DEF CycleSpec, Spec

-----------------------------------------------------------------------------
\* The counter of the cycle a process has under way.
Mine(a) == Compose(epoch[a], seq[a] - 1)

\* The device is now in a state that counts as held since c was handed out.
Running(c) == c \in Counters /\ pcrs \in since[c]

Shapes ==
  /\ pcrs \in States
  /\ stage \in [Agents -> Stages]
  /\ read \in [Agents -> Digests \union {None}]
  /\ pcrfile \in Digests \union {None}
  /\ DOMAIN built = Agents
  /\ \A a \in Agents : built[a] = None \/ built[a] \in MessageSet
  /\ msgs \subseteq MessageSet
  /\ quotes \subseteq QuoteSet
  /\ since \in [Counters -> SUBSET States]

\* A cycle under way has its counter, and what the next step needs of it.
UnderWay ==
  \A a \in Agents :
    /\ stage[a] # "none" => pc[a] = "cycle" /\ Running(Mine(a))
    /\ stage[a] = "pcr_write" => read[a] \in Digests
    /\ stage[a] = "pcr_load" => pcrfile \in Digests
    /\ stage[a] = "quote" => built[a] \in MessageSet /\ built[a].counter = Mine(a)

\* What the TPM quoted for a counter was held since it was handed out.
QuotesHeld ==
  \A q \in AgentQuotes :
    /\ q.extra.msg.counter \in Counters
    /\ \E s \in since[q.extra.msg.counter] : q.digest = Composite[q.selection][s]

CycleInv == Typed /\ Shapes /\ UnderWay /\ QuotesHeld

LEMMA CycleInvInit == CycleInit => CycleInv
<1> SUFFICES ASSUME CycleInit
             PROVE  CycleInv
  OBVIOUS
<1>1. Typed
  BY TypedInit DEF CycleInit
<1>2. Shapes
  BY DEF CycleInit, Shapes, Stages
<1>3. UnderWay
  BY DEF CycleInit, UnderWay
<1>4. QuotesHeld
  BY DEF CycleInit, QuotesHeld, AgentQuotes
<1> QED
  BY <1>1, <1>2, <1>3, <1>4 DEF CycleInv

\* A quote of the PCRs as they are is a quote of a state held since any
\* counter that is running.
LEMMA QuoteKeeps ==
  ASSUME CycleInv, NEW m \in MessageSet, NEW sel \in Selections,
         NEW domain \in {"envelope", "stop"},
         domain = "envelope" => Running(m.counter),
         quotes' = quotes \union {Quoted(domain, m, sel)}, UNCHANGED since
  PROVE  quotes' \subseteq QuoteSet /\ QuotesHeld'
<1> DEFINE new == Quoted(domain, m, sel)
<1>1. /\ new.extra.domain = domain /\ new.extra.msg = m
      /\ new.selection = sel /\ new.digest = Composite[sel][pcrs]
  BY DEF Quoted, Qualifying
<1>2. Composite[sel][pcrs] \in Digests
  BY CycleAssumption DEF CycleInv, Shapes
<1>3. new \in QuoteSet
  BY <1>2 DEF Quoted, Qualifying, QuoteSet
<1>4. ASSUME NEW q \in quotes', q.extra.domain = "envelope"
      PROVE  /\ q.extra.msg.counter \in Counters
             /\ \E s \in since[q.extra.msg.counter] : q.digest = Composite[q.selection][s]
  <2>1. CASE q \in quotes
    BY <1>4, <2>1 DEF CycleInv, QuotesHeld, AgentQuotes
  <2>2. CASE q = new
    BY <1>1, <1>4, <2>2 DEF Running
  <2> QED
    BY <2>1, <2>2
<1> HIDE DEF new
<1>5. quotes' \subseteq QuoteSet
  BY <1>3 DEF new, CycleInv, Shapes
<1>6. QuotesHeld'
  BY <1>4 DEF QuotesHeld, AgentQuotes
<1> QED
  BY <1>5, <1>6

-----------------------------------------------------------------------------
\* The steps of one process.
LEMMA CycleStepKeeps ==
  ASSUME CycleInv, Typed', NEW a \in Agents, CycleStep(a)
  PROVE  Shapes' /\ UnderWay' /\ QuotesHeld'
<1> USE DEF ToStage, Stages
<1>0. Typed /\ Shapes /\ UnderWay /\ QuotesHeld
  BY DEF CycleInv
<1>1. CASE TakeCounter(a)
  <2>1. pc[a] # "cycle" /\ UNCHANGED <<pcrs, stage, read, pcrfile, built, msgs, quotes, since>>
    BY <1>1 DEF TakeCounter, Start, NextCounter, NvIncrement, NvRead, NvReadWrites,
                LoadEpoch, cycle, artifacts
  <2>2. \A b \in Agents \ {a} :
          pc'[b] = pc[b] /\ epoch'[b] = epoch[b] /\ seq'[b] = seq[b]
    BY <1>0, <1>1 DEF TakeCounter, Start, NextCounter, NvIncrement, NvRead, NvReadWrites,
                LoadEpoch, alloc, Goto, Typed, TypeOK
  <2>3. Shapes'
    BY <1>0, <2>1 DEF Shapes
  <2>4. UnderWay'
    BY <1>0, <2>1, <2>2 DEF UnderWay, Running, Mine
  <2>5. QuotesHeld'
    BY <1>0, <2>1 DEF QuotesHeld, AgentQuotes
  <2> QED
    BY <2>3, <2>4, <2>5
<1>2. CASE BeginCycle(a)
  <2> DEFINE c == Compose(epoch[a], seq[a])
  <2>1. c \in Counters
    BY <1>0, <1>2, FitsCounters, EpochAssumption
       DEF BeginCycle, HandOut, Fits, Typed, TypeOK, HasEpoch, NoEpoch
  <2>2. /\ since' = [since EXCEPT ![c] = @ \union {pcrs}]
        /\ UNCHANGED <<pcrs, read, pcrfile, built, msgs, quotes>>
        /\ stage' = [stage EXCEPT ![a] = "pcr_read"]
    BY <1>2 DEF BeginCycle, artifacts
  <2>3. /\ epoch' = epoch /\ seq' = [seq EXCEPT ![a] = @ + 1]
        /\ pc' = [pc EXCEPT ![a] = "cycle"]
    BY <1>2 DEF BeginCycle, HandOut, Goto
  <2>4. Mine(a)' = c
    BY <1>0, <2>3, EpochAssumption DEF Mine, Typed, TypeOK
  <2>5. \A d \in Counters : since[d] \subseteq since'[d]
    BY <1>0, <2>1, <2>2 DEF Shapes
  <2>6. pcrs' \in since'[c]
    BY <1>0, <2>1, <2>2 DEF Shapes
  <2>7. Shapes'
    <3>1. since' \in [Counters -> SUBSET States]
      BY <1>0, <2>1, <2>2 DEF Shapes
    <3> QED
      BY <1>0, <2>2, <3>1 DEF Shapes
  <2>8. ASSUME NEW b \in Agents
        PROVE  /\ stage'[b] # "none" => pc'[b] = "cycle" /\ Running(Mine(b))'
               /\ stage'[b] = "pcr_write" => read'[b] \in Digests
               /\ stage'[b] = "pcr_load" => pcrfile' \in Digests
               /\ stage'[b] = "quote" => built'[b] \in MessageSet /\ built'[b].counter = Mine(b)'
    <3>1. CASE b = a
      <4>1. stage'[b] = "pcr_read" /\ pc'[b] = "cycle"
        BY <1>0, <2>2, <2>3, <3>1 DEF Shapes, Typed, TypeOK
      <4>2. Running(Mine(b))'
        BY <2>1, <2>4, <2>6, <3>1 DEF Running
      <4> QED
        BY <4>1, <4>2
    <3>2. CASE b # a
      <4>1. /\ stage'[b] = stage[b] /\ pc'[b] = pc[b] /\ Mine(b)' = Mine(b)
        BY <1>0, <2>2, <2>3, <3>2 DEF Shapes, Typed, TypeOK, Mine
      <4>2. Running(Mine(b)) => Running(Mine(b))'
        BY <2>2, <2>5, <4>1 DEF Running
      <4> QED
        BY <1>0, <2>2, <4>1, <4>2 DEF UnderWay
    <3> QED
      BY <3>1, <3>2
  <2>9. UnderWay'
    BY <2>8 DEF UnderWay
  <2>10. QuotesHeld'
    BY <1>0, <2>2, <2>5 DEF QuotesHeld, AgentQuotes
  <2> QED
    BY <2>7, <2>9, <2>10
<1>3. CASE PcrRead(a)
  <2>1. Composite[SpecOf[a]][pcrs] \in Digests
    BY <1>0, CycleAssumption DEF Shapes
  <2>2. Shapes'
    BY <1>0, <1>3, <2>1 DEF PcrRead, artifacts, Shapes
  <2>3. UnderWay'
    BY <1>0, <1>3, <2>1 DEF PcrRead, UnderWay, Running, Mine, Shapes, vars, alloc
  <2>4. QuotesHeld'
    BY <1>0, <1>3 DEF PcrRead, QuotesHeld, AgentQuotes, artifacts
  <2> QED
    BY <2>2, <2>3, <2>4
<1>4. CASE PcrReadWrites(a)
  <2>1. read[a] \in Digests
    BY <1>0, <1>4 DEF PcrReadWrites, UnderWay
  <2>2. Shapes'
    BY <1>0, <1>4, <2>1 DEF PcrReadWrites, artifacts, Shapes
  <2>3. UnderWay'
    BY <1>0, <1>4, <2>1 DEF PcrReadWrites, UnderWay, Running, Mine, Shapes, vars, alloc
  <2>4. QuotesHeld'
    BY <1>0, <1>4 DEF PcrReadWrites, QuotesHeld, AgentQuotes, artifacts
  <2> QED
    BY <2>2, <2>3, <2>4
<1>5. CASE BuildMessage(a)
  <2> DEFINE m == Message(Mine(a), SpecOf[a], pcrfile, NoEvidence)
  <2>1. /\ built' = [built EXCEPT ![a] = m] /\ msgs' = msgs \union {m}
        /\ stage' = [stage EXCEPT ![a] = "quote"]
        /\ UNCHANGED <<pcrs, read, pcrfile, quotes, since, pc, epoch, seq>>
    BY <1>5 DEF BuildMessage, Mine, vars, alloc
  <2>2. m \in MessageSet /\ m.counter = Mine(a)
    BY <1>0, <1>5, CycleAssumption DEF BuildMessage, UnderWay, Running, Message, MessageSet
  <2> HIDE DEF m
  <2>3. Shapes'
    BY <1>0, <2>1, <2>2 DEF Shapes
  <2>4. UnderWay'
    BY <1>0, <1>5, <2>1, <2>2 DEF BuildMessage, UnderWay, Running, Mine, Shapes
  <2>5. QuotesHeld'
    BY <1>0, <2>1 DEF QuotesHeld, AgentQuotes
  <2> QED
    BY <2>3, <2>4, <2>5
<1>6. CASE QuoteMessage(a)
  <2>1. /\ quotes' = quotes \union {Quoted("envelope", built[a], SpecOf[a])}
        /\ stage' = [stage EXCEPT ![a] = "publish"]
        /\ UNCHANGED <<pcrs, read, pcrfile, built, msgs, since, pc, epoch, seq>>
    BY <1>6 DEF QuoteMessage, vars, alloc
  <2>2. built[a] \in MessageSet /\ Running(built[a].counter)
    BY <1>0, <1>6 DEF QuoteMessage, UnderWay
  <2>3. quotes' \subseteq QuoteSet /\ QuotesHeld'
    BY <2>1, <2>2, QuoteKeeps, CycleAssumption
  <2>4. Shapes'
    BY <1>0, <2>1, <2>3 DEF Shapes
  <2>5. UnderWay'
    BY <1>0, <1>6, <2>1 DEF QuoteMessage, UnderWay, Running, Mine, Shapes
  <2> QED
    BY <2>3, <2>4, <2>5
<1>7. CASE EndCycle(a) \/ StopCycle(a)
  <2>1. /\ stage' = [stage EXCEPT ![a] = "none"]
        /\ read' = [read EXCEPT ![a] = None] /\ built' = [built EXCEPT ![a] = None]
        /\ UNCHANGED <<pcrs, pcrfile, msgs, quotes, since>>
    BY <1>7 DEF EndCycle, StopCycle, ForgetCycle, artifacts
  <2>2. \A b \in Agents \ {a} :
          pc'[b] = pc[b] /\ epoch'[b] = epoch[b] /\ seq'[b] = seq[b]
    BY <1>0, <1>7 DEF EndCycle, StopCycle, NextCycle, Stop, Goto, alloc, Typed, TypeOK
  <2>3. Shapes'
    BY <1>0, <2>1 DEF Shapes
  <2>4. UnderWay'
    BY <1>0, <2>1, <2>2 DEF UnderWay, Running, Mine, Shapes
  <2>5. QuotesHeld'
    BY <1>0, <2>1 DEF QuotesHeld, AgentQuotes
  <2> QED
    BY <2>3, <2>4, <2>5
<1> QED
  BY <1>1, <1>2, <1>3, <1>4, <1>5, <1>6, <1>7 DEF CycleStep

-----------------------------------------------------------------------------
\* The steps of the rest of the world.
LEMMA WorldKeeps ==
  ASSUME CycleInv, PcrsChange \/ SignReceipt \/ OthersIncrement
  PROVE  Shapes' /\ UnderWay' /\ QuotesHeld'
<1>0. Typed /\ Shapes /\ UnderWay /\ QuotesHeld
  BY DEF CycleInv
<1>1. CASE PcrsChange
  <2>1. /\ pcrs' \in States
        /\ since' = [c \in Counters |->
                       IF since[c] = {} THEN {} ELSE since[c] \union {pcrs'}]
        /\ UNCHANGED <<stage, read, pcrfile, built, msgs, quotes, pc, epoch, seq>>
    BY <1>1 DEF PcrsChange, cycle, artifacts, vars, alloc
  <2>2. \A c \in Counters :
          since[c] \subseteq since'[c] /\ (pcrs \in since[c] => pcrs' \in since'[c])
    BY <2>1
  <2>3. Shapes'
    <3>1. since' \in [Counters -> SUBSET States]
      BY <1>0, <2>1 DEF Shapes
    <3> QED
      BY <1>0, <2>1, <3>1 DEF Shapes
  <2>4. UnderWay'
    BY <1>0, <2>1, <2>2 DEF UnderWay, Running, Mine
  <2>5. QuotesHeld'
    BY <1>0, <2>1, <2>2 DEF QuotesHeld, AgentQuotes
  <2> QED
    BY <2>3, <2>4, <2>5
<1>2. CASE SignReceipt
  <2>1. PICK n \in StopEpochs :
          LET m == Message(n, StopSpec, Composite[StopSpec][pcrs], StopBundle)
          IN  /\ msgs' = msgs \union {m}
              /\ quotes' = quotes \union {Quoted("stop", m, StopSpec)}
    BY <1>2 DEF SignReceipt
  <2> DEFINE m == Message(n, StopSpec, Composite[StopSpec][pcrs], StopBundle)
  <2>2. UNCHANGED <<pcrs, stage, read, pcrfile, built, since, pc, epoch, seq>>
    BY <1>2 DEF SignReceipt, cycle, vars, alloc
  <2>3. Composite[StopSpec][pcrs] \in Digests
    BY <1>0, CycleAssumption DEF Shapes
  <2>4. m \in MessageSet
    BY <2>3, CycleAssumption DEF Message, MessageSet
  <2>5. msgs' = msgs \union {m} /\ quotes' = quotes \union {Quoted("stop", m, StopSpec)}
    BY <2>1
  <2> HIDE DEF m
  <2>6. quotes' \subseteq QuoteSet /\ QuotesHeld'
    BY <2>2, <2>4, <2>5, QuoteKeeps, CycleAssumption
  <2>7. Shapes'
    BY <1>0, <2>2, <2>4, <2>5, <2>6 DEF Shapes
  <2>8. UnderWay'
    BY <1>0, <2>2 DEF UnderWay, Running, Mine
  <2> QED
    BY <2>6, <2>7, <2>8
<1>3. CASE OthersIncrement
  <2>1. UNCHANGED <<pcrs, stage, read, pcrfile, built, msgs, quotes, since, pc, epoch, seq>>
    BY <1>3 DEF OthersIncrement, OutsideIncrement, cycle, artifacts, alloc
  <2> QED
    BY <1>0, <2>1 DEF Shapes, UnderWay, Running, Mine, QuotesHeld, AgentQuotes
<1> QED
  BY <1>1, <1>2, <1>3

LEMMA CycleInvStep == CycleInv /\ [CycleNext]_cycleVars => CycleInv'
<1> SUFFICES ASSUME CycleInv, [CycleNext]_cycleVars
             PROVE  CycleInv'
  OBVIOUS
<1>1. Typed'
  BY CycleStepsEpochs, TypedStep DEF CycleInv
<1>2. ASSUME NEW a \in Agents, CycleStep(a)
      PROVE  CycleInv'
  BY <1>1, <1>2, CycleStepKeeps DEF CycleInv
<1>3. CASE PcrsChange \/ SignReceipt \/ OthersIncrement
  BY <1>1, <1>3, WorldKeeps DEF CycleInv
<1>4. CASE UNCHANGED cycleVars
  <2>1. UNCHANGED <<pcrs, stage, read, pcrfile, built, msgs, quotes, since, pc, epoch, seq>>
    BY <1>4 DEF cycleVars, cycle, artifacts, vars, alloc
  <2>2. Shapes' /\ UnderWay' /\ QuotesHeld'
    BY <2>1 DEF CycleInv, Shapes, UnderWay, Running, Mine, QuotesHeld, AgentQuotes
  <2> QED
    BY <1>1, <2>2 DEF CycleInv
<1> QED
  BY <1>2, <1>3, <1>4 DEF CycleNext

\* Type correctness, and that only a process in a cycle has one under way
\* (main.rs cmd_attest, cmd_run).
THEOREM CycleTypes == CycleSpec => []CycleTypeOK
<1>1. CycleInv => CycleTypeOK
  BY DEF CycleInv, CycleTypeOK, Typed, Shapes, UnderWay
<1> QED
  BY <1>1, CycleInvInit, CycleInvStep, PTL DEF CycleSpec

-----------------------------------------------------------------------------
\* What passes gate 1 is an agent's quote under the AK, and its own message.
LEMMA AuthenticatedIsQuoted ==
  ASSUME CycleInv, NEW e \in Assembled,
         NEW form \in {"ak", "legacy"}, NEW key \in {Ak, Legacy},
         Gate1(e, Trust(form, key)) = "Authenticated"
  PROVE  /\ form = "ak" /\ key = Ak
         /\ e.attest \in quotes /\ Commits(e.attest, e.msg)
<1> DEFINE entry == [form |-> form, key |-> key]
<1>1. e.msg \in MessageSet /\ e.msg.device_id = DeviceId
  BY DEF CycleInv, Shapes, Assembled, MessageSet
<1>2. Trust(form, key)[e.msg.device_id] = entry
  BY <1>1 DEF Trust
<1>3. /\ FormMatches(e, entry) /\ Verifies(e, key)
      /\ e.attest # NoQuote => Commits(e.attest, e.msg)
  BY <1>2 DEF Gate1
<1>4. PICK q \in quotes : e.sig = [key |-> Ak, over |-> q]
  BY DEF Assembled
<1>5. e.sig = [key |-> key, over |-> SignedObject(e)]
  BY <1>3 DEF Verifies
<1>6. key = Ak /\ q = SignedObject(e)
  BY <1>4, <1>5
<1>7. e.attest # NoQuote
  <2> SUFFICES ASSUME e.attest = NoQuote
               PROVE  FALSE
    OBVIOUS
  <2>1. q = e.msg
    BY <1>6 DEF SignedObject
  <2>2. q \in QuoteSet
    BY DEF CycleInv, Shapes
  <2>3. "extra" \in DOMAIN q
    BY <2>2 DEF QuoteSet
  <2>4. "extra" \notin DOMAIN e.msg
    BY <1>1 DEF MessageSet
  <2> QED
    BY <2>1, <2>3, <2>4
<1>8. e.attest \in quotes
  BY <1>7 DEF Assembled
<1> QED
  BY <1>3, <1>6, <1>7, <1>8 DEF FormMatches

\* appraisal.rs:29-33: Accept means the device was in an enrolled state after
\* the envelope's counter was handed out.
THEOREM AcceptMeansHeld == CycleSpec => []AcceptedWasSo
<1>1. CycleInv => AcceptedWasSo
  <2> SUFFICES ASSUME CycleInv, NEW e \in Assembled,
                      NEW form \in {"ak", "legacy"}, NEW key \in {Ak, Legacy},
                      Gate1(e, Trust(form, key)) = "Authenticated"
               PROVE  /\ form = "ak" /\ key = Ak
                      /\ \A refs \in Refs :
                           Appraise(e.msg, e.evidence, refs) = Accepted =>
                             /\ e.msg.counter \in Counters
                             /\ \E s \in since[e.msg.counter] :
                                  Composite[refs.selection][s] \in refs.allowed
    BY DEF AcceptedWasSo
  <2>1. /\ form = "ak" /\ key = Ak
        /\ e.attest \in quotes /\ Commits(e.attest, e.msg)
    BY AuthenticatedIsQuoted
  <2>2. /\ e.attest.extra.domain = "envelope" /\ e.attest.extra.msg = e.msg
        /\ e.attest.selection = e.msg.pcr_selection /\ e.attest.digest = e.msg.pcr_hash
    BY <2>1 DEF Commits, Qualifying
  <2>3. /\ e.msg.counter \in Counters
        /\ \E s \in since[e.msg.counter] : e.msg.pcr_hash = Composite[e.msg.pcr_selection][s]
    BY <2>1, <2>2 DEF CycleInv, QuotesHeld, AgentQuotes
  <2>4. ASSUME NEW refs \in Refs, Appraise(e.msg, e.evidence, refs) = Accepted
        PROVE  Recognized(e.msg, refs)
    BY <2>4 DEF Appraise, Accepted, Says
  <2> QED
    BY <2>1, <2>3, <2>4 DEF Recognized
<1> QED
  BY <1>1, CycleInvInit, CycleInvStep, PTL DEF CycleSpec

-----------------------------------------------------------------------------
(***************************************************************************)
(* One state under one counter: whoever shares a counter with another, or  *)
(* uses it twice, was handed it twice.                                     *)
(***************************************************************************)
Measuring(a) == stage[a] \notin {"none", "publish"}

HandedInv ==
  /\ \A a \in Agents : stage[a] # "none" => handed[Mine(a)] >= 1
  /\ \A a, b \in Agents :
       a # b /\ stage[a] # "none" /\ stage[b] # "none" /\ Mine(a) = Mine(b) =>
         handed[Mine(a)] >= 2
  /\ \A q \in AgentQuotes : handed[q.extra.msg.counter] >= 1
  /\ \A q \in AgentQuotes, a \in Agents :
       Measuring(a) /\ Mine(a) = q.extra.msg.counter => handed[Mine(a)] >= 2
  /\ \A q, r \in AgentQuotes :
       q.extra.msg.counter = r.extra.msg.counter /\ q.extra.msg # r.extra.msg =>
         handed[q.extra.msg.counter] >= 2

LEMMA HandedInit == CycleInit => HandedInv
BY DEF CycleInit, HandedInv, AgentQuotes, Measuring

\* Nothing is handed out, no cycle begins, none goes back to measuring.
LEMMA HandedQuiet ==
  ASSUME CycleInv, HandedInv,
         AgentQuotes' = AgentQuotes, UNCHANGED handed,
         \A a \in Agents : stage'[a] # "none" =>
           stage[a] # "none" /\ Mine(a)' = Mine(a) /\ (Measuring(a)' => Measuring(a))
  PROVE  HandedInv'
<1>1. \A a \in Agents : Measuring(a)' => stage'[a] # "none"
  BY DEF Measuring
<1> QED
  BY <1>1 DEF HandedInv

LEMMA HandedBegin ==
  ASSUME CycleInv, HandedInv, NEW a \in Agents, BeginCycle(a)
  PROVE  HandedInv'
<1> DEFINE c == Compose(epoch[a], seq[a])
<1>0. Typed /\ Shapes /\ UnderWay /\ QuotesHeld
  BY DEF CycleInv
<1>1. /\ handed' = [handed EXCEPT ![c] = @ + 1]
      /\ stage' = [stage EXCEPT ![a] = "pcr_read"]
      /\ epoch' = epoch /\ seq' = [seq EXCEPT ![a] = @ + 1]
      /\ quotes' = quotes
  BY DEF BeginCycle, HandOut, ToStage, artifacts
<1>2. c \in Counters
  BY <1>0, FitsCounters, EpochAssumption
     DEF BeginCycle, HandOut, Fits, Typed, TypeOK, HasEpoch, NoEpoch
<1>3. Mine(a)' = c
  BY <1>0, <1>1, EpochAssumption DEF Mine, Typed, TypeOK
<1>4. \A b \in Agents \ {a} : stage'[b] = stage[b] /\ Mine(b)' = Mine(b)
  BY <1>0, <1>1 DEF Mine, Shapes, Typed, TypeOK
<1>5. \A d \in Counters : handed[d] \in Nat /\ handed'[d] \in Nat /\ handed'[d] >= handed[d]
  BY <1>0, <1>1, <1>2 DEF Typed, TypeOK
<1>6. \A d \in Counters : d = c => handed'[d] = handed[d] + 1
  BY <1>0, <1>1, <1>2 DEF Typed, TypeOK
<1>7. \A b \in Agents : stage[b] # "none" => Mine(b) \in Counters
  BY <1>0 DEF UnderWay, Running
<1>8. \A q \in AgentQuotes : q.extra.msg.counter \in Counters
  BY <1>0 DEF QuotesHeld
<1>9. AgentQuotes' = AgentQuotes
  BY <1>1 DEF AgentQuotes
<1> HIDE DEF c
<1>10. \A b \in Agents : stage'[b] # "none" => handed'[Mine(b)'] >= 1
  BY <1>2, <1>3, <1>4, <1>5, <1>6, <1>7 DEF HandedInv
<1>11. ASSUME NEW x \in Agents, NEW y \in Agents, x # y,
              stage'[x] # "none", stage'[y] # "none", Mine(x)' = Mine(y)'
       PROVE  handed'[Mine(x)'] >= 2
  <2>1. CASE x # a /\ y # a
    BY <1>4, <1>5, <1>7, <1>11, <2>1 DEF HandedInv
  <2>2. CASE x = a \/ y = a
    <3>1. PICK z \in Agents \ {a} : stage[z] # "none" /\ Mine(z) = c
      BY <1>3, <1>4, <1>11, <2>2
    <3>2. handed[c] >= 1
      BY <3>1 DEF HandedInv
    <3>3. Mine(x)' = c
      BY <1>3, <1>11, <2>2
    <3> QED
      BY <1>2, <1>5, <1>6, <3>2, <3>3
  <2> QED
    BY <2>1, <2>2
<1>12. \A q \in AgentQuotes' : handed'[q.extra.msg.counter] >= 1
  BY <1>5, <1>8, <1>9 DEF HandedInv
<1>13. ASSUME NEW q \in AgentQuotes, NEW b \in Agents, Measuring(b)',
              Mine(b)' = q.extra.msg.counter
       PROVE  handed'[Mine(b)'] >= 2
  <2>1. CASE b = a
    BY <1>2, <1>3, <1>5, <1>6, <1>13, <2>1 DEF HandedInv
  <2>2. CASE b # a
    <3>1. Measuring(b) /\ stage[b] # "none"
      BY <1>4, <1>13, <2>2 DEF Measuring
    <3>2. handed[Mine(b)] >= 2 /\ Mine(b) \in Counters
      BY <1>4, <1>7, <1>13, <2>2, <3>1 DEF HandedInv
    <3> QED
      BY <1>4, <1>5, <2>2, <3>2
  <2> QED
    BY <2>1, <2>2
<1>14. \A q, r \in AgentQuotes' :
         q.extra.msg.counter = r.extra.msg.counter /\ q.extra.msg # r.extra.msg =>
           handed'[q.extra.msg.counter] >= 2
  BY <1>5, <1>8, <1>9 DEF HandedInv
<1> QED
  BY <1>9, <1>10, <1>11, <1>12, <1>13, <1>14 DEF HandedInv

LEMMA HandedQuote ==
  ASSUME CycleInv, HandedInv, NEW a \in Agents, QuoteMessage(a)
  PROVE  HandedInv'
<1> DEFINE new == Quoted("envelope", built[a], SpecOf[a])
<1>0. Typed /\ Shapes /\ UnderWay /\ QuotesHeld
  BY DEF CycleInv
<1>1. /\ stage[a] = "quote" /\ stage' = [stage EXCEPT ![a] = "publish"]
      /\ UNCHANGED <<handed, epoch, seq>> /\ quotes' = quotes \union {new}
  BY DEF QuoteMessage, ToStage, vars, alloc
<1>2. new.extra.msg = built[a] /\ new.extra.domain = "envelope"
  BY DEF Quoted, Qualifying
<1>3. built[a].counter = Mine(a)
  BY <1>0, <1>1 DEF UnderWay
<1> HIDE DEF new
<1>4. AgentQuotes' = AgentQuotes \union {new}
  BY <1>1, <1>2 DEF AgentQuotes
<1>5. \A b \in Agents : Mine(b)' = Mine(b)
  BY <1>1 DEF Mine
<1>6. \A b \in Agents : /\ stage'[b] # "none" => stage[b] # "none"
                        /\ Measuring(b)' => b # a /\ Measuring(b) /\ stage[b] # "none"
  BY <1>0, <1>1 DEF Measuring, Shapes
<1>7. stage[a] # "none" /\ Measuring(a)
  BY <1>1 DEF Measuring
<1>8. \A q \in AgentQuotes' : handed'[q.extra.msg.counter] >= 1
  BY <1>1, <1>2, <1>3, <1>4, <1>7 DEF HandedInv
<1>9. ASSUME NEW q \in AgentQuotes', NEW b \in Agents, Measuring(b)',
             Mine(b)' = q.extra.msg.counter
      PROVE  handed'[Mine(b)'] >= 2
  <2>1. CASE q = new
    BY <1>1, <1>2, <1>3, <1>5, <1>6, <1>7, <1>9, <2>1 DEF HandedInv
  <2>2. CASE q \in AgentQuotes
    BY <1>1, <1>5, <1>6, <1>9, <2>2 DEF HandedInv
  <2> QED
    BY <1>4, <2>1, <2>2
<1>10. ASSUME NEW q \in AgentQuotes', NEW r \in AgentQuotes',
              q.extra.msg.counter = r.extra.msg.counter, q.extra.msg # r.extra.msg
       PROVE  handed'[q.extra.msg.counter] >= 2
  <2>1. CASE q = new \/ r = new
    <3>1. PICK o \in AgentQuotes : o.extra.msg.counter = Mine(a)
      BY <1>2, <1>3, <1>4, <1>10, <2>1
    <3>2. handed[Mine(a)] >= 2
      BY <1>7, <3>1 DEF HandedInv
    <3>3. q.extra.msg.counter = Mine(a)
      BY <1>2, <1>3, <1>10, <2>1
    <3> QED
      BY <1>1, <3>2, <3>3
  <2>2. CASE q # new /\ r # new
    BY <1>1, <1>4, <1>10, <2>2 DEF HandedInv
  <2> QED
    BY <2>1, <2>2
<1>11. /\ \A b \in Agents : stage'[b] # "none" => handed'[Mine(b)'] >= 1
       /\ \A x, y \in Agents :
            x # y /\ stage'[x] # "none" /\ stage'[y] # "none" /\ Mine(x)' = Mine(y)' =>
              handed'[Mine(x)'] >= 2
  BY <1>1, <1>5, <1>6 DEF HandedInv
<1> QED
  BY <1>8, <1>9, <1>10, <1>11 DEF HandedInv

LEMMA HandedStep == CycleInv /\ HandedInv /\ [CycleNext]_cycleVars => HandedInv'
<1> SUFFICES ASSUME CycleInv, HandedInv, [CycleNext]_cycleVars
             PROVE  HandedInv'
  OBVIOUS
<1> USE DEF ToStage
<1>0. Typed /\ Shapes /\ UnderWay
  BY DEF CycleInv
<1>1. ASSUME NEW a \in Agents, CycleStep(a)
      PROVE  HandedInv'
  <2>1. CASE TakeCounter(a)
    <3>1. pc[a] # "cycle" /\ UNCHANGED <<stage, quotes, handed>>
      BY <2>1 DEF TakeCounter, Start, NextCounter, NvIncrement, NvRead, NvReadWrites,
                  LoadEpoch, cycle, artifacts, wear
    <3>2. \A b \in Agents \ {a} : epoch'[b] = epoch[b] /\ seq'[b] = seq[b]
      BY <1>0, <2>1 DEF TakeCounter, Start, NextCounter, NvIncrement, NvRead, NvReadWrites,
                  LoadEpoch, alloc, Typed, TypeOK
    <3>3. \A b \in Agents : stage[b] # "none" => b # a
      BY <1>0, <3>1 DEF UnderWay
    <3>4. AgentQuotes' = AgentQuotes
      BY <3>1 DEF AgentQuotes
    <3> QED
      BY <3>1, <3>2, <3>3, <3>4, HandedQuiet DEF Mine, Measuring
  <2>2. CASE BeginCycle(a)
    BY <2>2, HandedBegin
  <2>3. CASE PcrRead(a) \/ PcrReadWrites(a) \/ BuildMessage(a)
    <3>1. UNCHANGED <<handed, epoch, seq, quotes>>
      BY <2>3 DEF PcrRead, PcrReadWrites, BuildMessage, vars, alloc, artifacts
    <3>2. \A b \in Agents : stage'[b] # "none" => stage[b] # "none" /\ (Measuring(b)' => Measuring(b))
      BY <1>0, <2>3 DEF PcrRead, PcrReadWrites, BuildMessage, Measuring, Shapes
    <3> QED
      BY <3>1, <3>2, HandedQuiet DEF Mine, AgentQuotes
  <2>4. CASE QuoteMessage(a)
    BY <2>4, HandedQuote
  <2>5. CASE EndCycle(a) \/ StopCycle(a)
    <3>1. UNCHANGED <<handed, quotes>> /\ stage' = [stage EXCEPT ![a] = "none"]
      BY <2>5 DEF EndCycle, StopCycle, NextCycle, Stop, ForgetCycle, artifacts, wear
    <3>2. \A b \in Agents \ {a} : epoch'[b] = epoch[b] /\ seq'[b] = seq[b]
      BY <1>0, <2>5 DEF EndCycle, StopCycle, NextCycle, Stop, alloc, Typed, TypeOK
    <3>3. \A b \in Agents : stage'[b] # "none" => b # a /\ stage'[b] = stage[b]
      BY <1>0, <3>1 DEF Shapes
    <3> QED
      BY <3>1, <3>2, <3>3, HandedQuiet DEF Mine, Measuring, AgentQuotes
  <2> QED
    BY <1>1, <2>1, <2>2, <2>3, <2>4, <2>5 DEF CycleStep
<1>2. CASE PcrsChange \/ SignReceipt \/ OthersIncrement
  <2>1. UNCHANGED <<handed, epoch, seq, stage>>
    BY <1>2 DEF PcrsChange, SignReceipt, OthersIncrement, OutsideIncrement, vars, alloc, cycle
  <2>2. AgentQuotes' = AgentQuotes
    <3>1. CASE PcrsChange \/ OthersIncrement
      BY <3>1 DEF PcrsChange, OthersIncrement, artifacts, AgentQuotes
    <3>2. CASE SignReceipt
      <4>1. PICK m : quotes' = quotes \union {Quoted("stop", m, StopSpec)}
        BY <3>2 DEF SignReceipt
      <4>2. Quoted("stop", m, StopSpec).extra.domain # "envelope"
        BY DEF Quoted, Qualifying
      <4> QED
        BY <4>1, <4>2 DEF AgentQuotes
    <3> QED
      BY <1>2, <3>1, <3>2
  <2> QED
    BY <2>1, <2>2, HandedQuiet DEF Mine, Measuring
<1>3. CASE UNCHANGED cycleVars
  <2>1. UNCHANGED <<handed, epoch, seq, stage, quotes>>
    BY <1>3 DEF cycleVars, vars, alloc, cycle, artifacts
  <2> QED
    BY <2>1, HandedQuiet DEF Mine, Measuring, AgentQuotes
<1> QED
  BY <1>1, <1>2, <1>3 DEF CycleNext

\* main.rs:359-363: no two envelopes that pass gate 1 describe different states
\* under a counter that was handed out once.
THEOREM CounterMeansState == CycleSpec => []OneStatePerCounter
<1>1. CycleInv /\ HandedInv => OneStatePerCounter
  <2> SUFFICES ASSUME CycleInv, HandedInv, NEW m \in msgs, NEW n \in msgs,
                      m.counter = n.counter, handed[m.counter] = 1,
                      NEW q \in quotes, NEW r \in quotes, Commits(q, m), Commits(r, n)
               PROVE  m = n
    BY DEF OneStatePerCounter
  <2>1. q \in AgentQuotes /\ r \in AgentQuotes /\ q.extra.msg = m /\ r.extra.msg = n
    BY DEF Commits, Qualifying, AgentQuotes
  <2>2. m # n => handed[m.counter] >= 2
    BY <2>1 DEF HandedInv
  <2> QED
    BY <2>2
<1> QED
  BY <1>1, CycleInvInit, CycleInvStep, HandedInit, HandedStep, PTL DEF CycleSpec

-----------------------------------------------------------------------------
(***************************************************************************)
(* One agent: the order of its counters is the order of its quotes.        *)
(***************************************************************************)
\* The cycle under way has the newest counter of all.
LEMMA MineIsNewest ==
  ASSUME NEW a \in Agents, CycleInv, RiseInv(a), stage[a] # "none",
         NEW c \in Counters, handed[c] > 0
  PROVE  c <= Mine(a)
<1>1. pc[a] = "cycle" /\ epoch[a] # NoEpoch
  BY DEF CycleInv, UnderWay, Typed, HasEpoch
<1>2. c < Compose(epoch[a], seq[a])
  BY <1>1 DEF RiseInv, Below
<1>3. epoch[a] \in Int /\ seq[a] \in Int /\ SeqLimit \in Int /\ c \in Int
  BY EpochAssumption DEF CycleInv, Typed, TypeOK, NoEpoch, Counters
<1>4. Compose(epoch[a], seq[a]) = Mine(a) + 1 /\ Mine(a) \in Int
  BY <1>3 DEF Mine, Compose
<1> QED
  BY <1>2, <1>3, <1>4

\* A quote is made for the newest counter there is, so a higher counter is a
\* later state, wherever the agent was killed and restarted before (main.rs
\* cmd_attest, CounterAlloc::next).
THEOREM CountersOrderStates ==
  ASSUME NEW a, Agents = {a}
  PROVE  CycleSpec => CounterOrderIsStateOrder
<1> DEFINE Newest == \A q \in quotes' \ quotes :
                       q.extra.domain = "envelope" =>
                         \A c \in Counters : handed[c] > 0 => c <= q.extra.msg.counter
<1>1. a \in Agents
  OBVIOUS
<1>2. CycleInit => RiseInv(a)
  BY <1>1, RiseInit DEF CycleInit
<1>3. CycleInv /\ RiseInv(a) /\ [CycleNext]_cycleVars => (CycleInv /\ RiseInv(a))'
  BY CycleInvStep, CycleStepsEpochs, RiseStep DEF CycleInv
<1>4. CycleInv /\ RiseInv(a) /\ [CycleNext]_cycleVars => [Newest]_cycleVars
  <2> SUFFICES ASSUME CycleInv, RiseInv(a), CycleNext
               PROVE  Newest
    BY DEF cycleVars
  <2>1. CASE QuoteMessage(a)
    <3>1. /\ stage[a] = "quote"
          /\ quotes' = quotes \union {Quoted("envelope", built[a], SpecOf[a])}
      BY <2>1 DEF QuoteMessage
    <3>2. built[a].counter = Mine(a)
      BY <1>1, <3>1 DEF CycleInv, UnderWay
    <3>3. \A q \in quotes' \ quotes : q.extra.msg = built[a]
      BY <3>1 DEF Quoted, Qualifying
    <3> QED
      BY <1>1, <3>1, <3>2, <3>3, MineIsNewest
  <2>2. CASE SignReceipt
    BY <2>2 DEF SignReceipt, Quoted, Qualifying
  <2>3. CASE quotes' = quotes
    BY <2>3
  <2>4. QuoteMessage(a) \/ SignReceipt \/ quotes' = quotes
    BY DEF CycleNext, CycleStep, TakeCounter, BeginCycle, PcrRead, PcrReadWrites,
           BuildMessage, EndCycle, StopCycle, ForgetCycle, PcrsChange,
           OthersIncrement, artifacts
  <2> QED
    BY <2>1, <2>2, <2>3, <2>4
<1> QED
  BY <1>2, <1>3, <1>4, CycleInvInit, PTL DEF CycleSpec, CounterOrderIsStateOrder

-----------------------------------------------------------------------------
(***************************************************************************)
(* One agent: a message and its quote are both of states held since the    *)
(* message's counter, so they agree where there is but one.                *)
(***************************************************************************)
\* The digest is that of a state held since the counter was handed out.
Held(digest, selection, c) ==
  \E s \in since[c] : digest = Composite[selection][s]

\* A message as the agent builds it.
Measured(m) ==
  m.evidence = NoEvidence /\ Held(m.pcr_hash, m.pcr_selection, m.counter)

SteadyInv(a) ==
  /\ stage[a] = "pcr_write" => Held(read[a], SpecOf[a], Mine(a))
  /\ stage[a] = "pcr_load" => Held(pcrfile, SpecOf[a], Mine(a))
  /\ stage[a] = "quote" => Measured(built[a]) /\ built[a].pcr_selection = SpecOf[a]
  /\ \A q \in AgentQuotes :
       Measured(q.extra.msg) /\ q.selection = q.extra.msg.pcr_selection

LEMMA SteadyInit ==
  ASSUME NEW a \in Agents, CycleInit
  PROVE  SteadyInv(a)
BY DEF CycleInit, SteadyInv, AgentQuotes

\* What was held stays held: nothing leaves the history of a counter.
LEMMA HeldStays ==
  ASSUME CycleInv, CycleInv', [CycleNext]_cycleVars
  PROVE  \A c \in Counters : since[c] \subseteq since'[c]
<1> USE DEF CycleInv, Shapes
<1>1. CASE PcrsChange
  BY <1>1 DEF PcrsChange
<1>2. ASSUME NEW a \in Agents, BeginCycle(a)
      PROVE  \A c \in Counters : since[c] \subseteq since'[c]
  BY <1>2 DEF BeginCycle
<1>3. CASE since' = since
  BY <1>3
<1>4. PcrsChange \/ (\E a \in Agents : BeginCycle(a)) \/ since' = since
  BY DEF CycleNext, CycleStep, TakeCounter, PcrRead, PcrReadWrites, BuildMessage,
         QuoteMessage, EndCycle, StopCycle, ForgetCycle, SignReceipt,
         OthersIncrement, cycleVars
<1> QED
  BY <1>1, <1>2, <1>3, <1>4

LEMMA SteadyStep ==
  ASSUME NEW a, Agents = {a}, CycleInv, CycleInv', SteadyInv(a),
         [CycleNext]_cycleVars
  PROVE  SteadyInv(a)'
<1> USE DEF ToStage
<1>0. /\ a \in Agents
      /\ Typed /\ Shapes /\ UnderWay /\ QuotesHeld
  BY DEF CycleInv
<1>1. \A c \in Counters : since[c] \subseteq since'[c]
  BY HeldStays
<1>2. \A d, sel : \A c \in Counters : Held(d, sel, c) => Held(d, sel, c)'
  BY <1>1 DEF Held
<1>3. stage[a] # "none" => Mine(a) \in Counters /\ pcrs \in since[Mine(a)]
  BY <1>0 DEF UnderWay, Running
<1>4. \A q \in AgentQuotes : q.extra.msg.counter \in Counters
  BY <1>0 DEF QuotesHeld
<1>5. \A m : m.counter \in Counters /\ Measured(m) => Measured(m)'
  BY <1>2 DEF Measured
<1>6. AgentQuotes' = AgentQuotes =>
        \A q \in AgentQuotes' :
          Measured(q.extra.msg)' /\ q.selection = q.extra.msg.pcr_selection
  BY <1>4, <1>5 DEF SteadyInv
<1>7. CASE PcrRead(a)
  <2>1. /\ read'[a] = Composite[SpecOf[a]][pcrs] /\ stage'[a] = "pcr_write"
        /\ Mine(a)' = Mine(a) /\ UNCHANGED <<since, quotes>> /\ stage[a] = "pcr_read"
    BY <1>0, <1>7 DEF PcrRead, Mine, Shapes, vars, alloc, artifacts
  <2>2. Held(read[a], SpecOf[a], Mine(a))'
    BY <1>3, <2>1 DEF Held
  <2> QED
    BY <1>6, <2>1, <2>2 DEF SteadyInv, AgentQuotes
<1>8. CASE PcrReadWrites(a)
  <2>1. /\ pcrfile' = read[a] /\ stage'[a] = "pcr_load" /\ stage[a] = "pcr_write"
        /\ Mine(a)' = Mine(a) /\ UNCHANGED <<since, quotes>>
    BY <1>0, <1>8 DEF PcrReadWrites, Mine, Shapes, vars, alloc, artifacts
  <2>2. Held(pcrfile, SpecOf[a], Mine(a))'
    BY <2>1 DEF SteadyInv, Held
  <2> QED
    BY <1>6, <2>1, <2>2 DEF SteadyInv, AgentQuotes
<1>9. CASE BuildMessage(a)
  <2>0. PICK m : m = Message(Mine(a), SpecOf[a], pcrfile, NoEvidence)
    OBVIOUS
  <2>1. /\ built'[a] = m /\ stage'[a] = "quote" /\ stage[a] = "pcr_load"
        /\ UNCHANGED <<since, quotes>>
    BY <1>0, <1>9, <2>0 DEF BuildMessage, Mine, Shapes
  <2>2. /\ m.counter = Mine(a) /\ m.pcr_selection = SpecOf[a]
        /\ m.pcr_hash = pcrfile /\ m.evidence = NoEvidence
    BY <2>0 DEF Message
  <2>3. Measured(m)'
    BY <2>1, <2>2 DEF SteadyInv, Held, Measured
  <2>4. Measured(built[a])' /\ built'[a].pcr_selection = SpecOf[a]
    BY <2>1, <2>2, <2>3 DEF Measured, Held
  <2> QED
    BY <1>6, <2>1, <2>4 DEF SteadyInv, AgentQuotes
<1>10. CASE QuoteMessage(a)
  <2>0. PICK m, new : m = built[a] /\ new = Quoted("envelope", m, SpecOf[a])
    OBVIOUS
  <2>1. /\ quotes' = quotes \union {new} /\ stage[a] = "quote"
        /\ stage'[a] = "publish" /\ since' = since
    BY <1>0, <1>10, <2>0 DEF QuoteMessage, Shapes
  <2>2. new.extra.msg = m /\ new.selection = SpecOf[a]
    BY <2>0 DEF Quoted, Qualifying
  <2>3. Measured(m)' /\ m.pcr_selection = SpecOf[a]
    BY <2>0, <2>1 DEF SteadyInv, Measured, Held
  <2>4. ASSUME NEW q \in AgentQuotes'
        PROVE  Measured(q.extra.msg)' /\ q.selection = q.extra.msg.pcr_selection
    <3>1. CASE q = new
      BY <2>2, <2>3, <3>1
    <3>2. CASE q \in AgentQuotes
      BY <1>4, <1>5, <3>2 DEF SteadyInv
    <3> QED
      BY <2>1, <3>1, <3>2 DEF AgentQuotes
  <2> QED
    BY <2>1, <2>4 DEF SteadyInv
<1>11. CASE SignReceipt
  <2>1. UNCHANGED <<stage, read, pcrfile, built, since, epoch, seq>>
    BY <1>11 DEF SignReceipt, cycle, vars, alloc
  <2>2. AgentQuotes' = AgentQuotes
    BY <1>11 DEF SignReceipt, AgentQuotes, Quoted, Qualifying
  <2> QED
    BY <1>6, <2>1, <2>2 DEF SteadyInv, Held, Measured, Mine
<1>12. CASE PcrsChange \/ OthersIncrement \/ UNCHANGED cycleVars
  <2>1. UNCHANGED <<stage, read, pcrfile, built, quotes, epoch, seq>>
    BY <1>12 DEF PcrsChange, OthersIncrement, OutsideIncrement, cycleVars, cycle,
                 artifacts, vars, alloc
  <2>2. Mine(a)' = Mine(a) /\ AgentQuotes' = AgentQuotes
    BY <2>1 DEF Mine, AgentQuotes
  <2>3. stage[a] = "quote" => built[a].counter \in Counters
    BY <1>0, <1>3 DEF UnderWay
  <2>4. stage'[a] = "pcr_write" => Held(read[a], SpecOf[a], Mine(a))'
    BY <1>2, <1>3, <2>1, <2>2 DEF SteadyInv, Held
  <2>5. stage'[a] = "pcr_load" => Held(pcrfile, SpecOf[a], Mine(a))'
    BY <1>2, <1>3, <2>1, <2>2 DEF SteadyInv, Held
  <2>6. stage'[a] = "quote" => Measured(built[a])' /\ built'[a].pcr_selection = SpecOf[a]
    BY <1>5, <2>1, <2>3 DEF SteadyInv, Measured, Held
  <2> QED
    BY <1>6, <2>2, <2>4, <2>5, <2>6 DEF SteadyInv
<1>13. CASE TakeCounter(a) \/ BeginCycle(a) \/ EndCycle(a) \/ StopCycle(a)
  <2>1. stage'[a] \in {"none", "pcr_read"} /\ quotes' = quotes
    <3>1. CASE TakeCounter(a)
      <4>1. pc[a] # "cycle" /\ stage' = stage /\ quotes' = quotes
        BY <3>1 DEF TakeCounter, Start, NextCounter, NvIncrement, NvRead,
                    NvReadWrites, LoadEpoch, cycle, artifacts
      <4> QED
        BY <1>0, <4>1 DEF UnderWay
    <3>2. CASE BeginCycle(a) \/ EndCycle(a) \/ StopCycle(a)
      BY <1>0, <3>2 DEF BeginCycle, EndCycle, StopCycle, ForgetCycle, artifacts, Shapes
    <3> QED
      BY <1>13, <3>1, <3>2
  <2> QED
    BY <1>6, <2>1 DEF SteadyInv, AgentQuotes
<1> QED
  BY <1>0, <1>7, <1>8, <1>9, <1>10, <1>11, <1>12, <1>13 DEF CycleNext, CycleStep

\* An agent's own envelope passes gate 1 when message and quote agree.
LEMMA OwnPasses ==
  ASSUME CycleInv, NEW q \in AgentQuotes, Commits(q, q.extra.msg),
         q.extra.msg.evidence = NoEvidence
  PROVE  Gate1(Own(q), Trust("ak", Ak)) = "Authenticated"
<1> DEFINE e == Own(q)
           entry == [form |-> "ak", key |-> Ak]
<1>1. /\ e.msg = q.extra.msg /\ e.attest = q /\ e.evidence = NoEvidence
      /\ e.sig = [key |-> Ak, over |-> q]
  BY DEF Own
<1>2. q \in QuoteSet /\ e.msg \in MessageSet /\ e.msg.device_id = DeviceId
  BY <1>1 DEF CycleInv, Shapes, AgentQuotes, QuoteSet, MessageSet
<1>3. q # Garbled /\ q # NoQuote /\ e.msg # Garbled /\ entry # NoEntry
  BY <1>2, VerifierAssumption
<1>4. Trust("ak", Ak)[e.msg.device_id] = entry
  BY <1>2 DEF Trust
<1>5. entry.form = "ak" /\ entry.key = Ak
  OBVIOUS
<1> HIDE DEF e, entry
<1>6. FormMatches(e, entry) /\ Verifies(e, entry.key)
  BY <1>1, <1>3, <1>5 DEF FormMatches, Verifies, SignedObject
<1>7. Commits(e.attest, e.msg) /\ e.evidence = e.msg.evidence
  BY <1>1
<1>8. Gate1(e, Trust("ak", Ak)) = "Authenticated"
  BY <1>1, <1>3, <1>4, <1>6, <1>7 DEF Gate1
<1> QED
  BY <1>8 DEF e

\* The verdict on an authenticated message without evidence.
LEMMA BareVerdict ==
  ASSUME NEW m, NEW refs \in Refs
  PROVE  Appraise(m, NoEvidence, refs).reason =
           IF ~Recognized(m, refs) THEN "UnrecognizedState"
           ELSE IF refs.required = <<>> THEN "Accepted" ELSE "EvidenceMissing"
<1>1. NoEvidence # Unparseable /\ refs.required \in Seq(Kinds)
  BY VerifierAssumption
<1>2. Presented(NoEvidence) = {}
  BY DEF Presented, NoEvidence
<1>3. Missing(NoEvidence, refs) = DOMAIN refs.required
  BY <1>2 DEF Missing
<1>4. refs.required = <<>> <=> DOMAIN refs.required = {}
  <2>1. DOMAIN refs.required = 1..Len(refs.required) /\ Len(refs.required) \in Nat
    BY <1>1
  <2> QED
    BY <1>1, <2>1, EmptySeq
<1> QED
  BY <1>1, <1>3, <1>4 DEF Appraise, ReportMissing, Says, Accepted

\* A device whose state did not change since the counter was handed out is
\* judged for that state and what the profile requires, and for nothing else
\* (verdict.rs, gate1.rs, appraisal.rs).
THEOREM SteadyMeansState ==
  ASSUME NEW a, Agents = {a}
  PROVE  CycleSpec => []SteadyIsAppraised
<1>1. a \in Agents
  OBVIOUS
<1>2. CycleInit => SteadyInv(a)
  BY <1>1, SteadyInit
<1>3. CycleInv /\ SteadyInv(a) /\ [CycleNext]_cycleVars => (CycleInv /\ SteadyInv(a))'
  BY CycleInvStep, SteadyStep
<1>4. CycleInv /\ SteadyInv(a) => SteadyIsAppraised
  <2> SUFFICES ASSUME CycleInv, SteadyInv(a), NEW q \in AgentQuotes, NEW refs \in Refs,
                      NEW s \in States, since[q.extra.msg.counter] = {s}
               PROVE  LET m == q.extra.msg
                          verdict == Check(Own(q), Trust("ak", Ak), refs)
                      IN  CASE \/ m.pcr_selection # refs.selection
                               \/ Composite[refs.selection][s] \notin refs.allowed
                                 -> verdict = Says("UnrecognizedState")
                            [] OTHER
                                 -> verdict.reason = IF refs.required = <<>> THEN "Accepted"
                                                     ELSE "EvidenceMissing"
    BY DEF SteadyIsAppraised
  <2> DEFINE m == q.extra.msg
             verdict == Check(Own(q), Trust("ak", Ak), refs)
  <2>1. /\ m.evidence = NoEvidence /\ q.selection = m.pcr_selection
        /\ m.pcr_hash = Composite[m.pcr_selection][s]
    BY DEF SteadyInv, Measured, Held
  <2>2. q.digest = Composite[q.selection][s]
    BY DEF CycleInv, QuotesHeld
  <2>3. q.extra = Qualifying("envelope", m)
    <3>1. q.extra \in [domain : {"envelope", "stop"}, msg : MessageSet]
          /\ q.extra.domain = "envelope"
      BY DEF CycleInv, Shapes, AgentQuotes, QuoteSet
    <3> QED
      BY <3>1 DEF Qualifying
  <2>4. Commits(q, m)
    BY <2>1, <2>2, <2>3 DEF Commits
  <2>5. verdict = Appraise(m, NoEvidence, refs)
    BY <2>1, <2>4, OwnPasses DEF Check, Own
  <2>6. Recognized(m, refs) <=>
          m.pcr_selection = refs.selection /\ Composite[refs.selection][s] \in refs.allowed
    BY <2>1 DEF Recognized
  <2>7. ~Recognized(m, refs) => verdict = Says("UnrecognizedState")
    BY <2>5, VerifierAssumption DEF Appraise
  <2>8. Recognized(m, refs) =>
          verdict.reason = IF refs.required = <<>> THEN "Accepted" ELSE "EvidenceMissing"
    BY <2>5, BareVerdict
  <2> HIDE DEF m, verdict
  <2>9. CASE Recognized(m, refs)
    BY <2>6, <2>8, <2>9 DEF m, verdict
  <2>10. CASE ~Recognized(m, refs)
    BY <2>6, <2>7, <2>10 DEF m, verdict
  <2> QED
    BY <2>9, <2>10
<1> QED
  BY <1>2, <1>3, <1>4, CycleInvInit, PTL DEF CycleSpec
=============================================================================
