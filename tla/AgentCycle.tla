------------------------------ MODULE AgentCycle ------------------------------
(***************************************************************************)
(* One attestation cycle after another: tactiq-agent takes a counter       *)
(* (EpochCounter), reads the PCRs, builds the message and has the TPM      *)
(* quote it, while the device's state changes, processes die, `run` and    *)
(* `attest` share the working directory and tactiq-stop signs receipts     *)
(* under the same key; and what the verifier says of the envelopes         *)
(* (EnvelopeCheck).                                                        *)
(*                                                                         *)
(* crates/prover/src/main.rs cmd_attest, cmd_run; attest-tpm pcr_read,     *)
(* quote; attest-envelope build_canonical; stop core.rs sign.              *)
(***************************************************************************)
EXTENDS EpochCounter, EnvelopeCheck

CONSTANTS
  States,     \* what the PCRs may hold
  Selections, \* PCR selections
  Digests,    \* PCR digests
  Composite,  \* the digest of a selection's PCRs in a state
  SpecOf,     \* TACTIQ_PCR_SPEC of each process
  StopSpec,   \* the stop service's selection
  DeviceId,   \* the provisioned id
  Ak,         \* the provisioned key
  Legacy,     \* some other key the verifier may hold for the device
  Refs,       \* reference sets the verifier may hold
  StopEpochs, \* values the stop counter may have
  None        \* nothing read, nothing built

ASSUME CycleAssumption ==
  /\ Composite \in [Selections -> [States -> Digests]]
  /\ SpecOf \in [Agents -> Selections]
  /\ StopSpec \in Selections
  /\ StopEpochs \subseteq Nat
  /\ None \notin Digests
  /\ Ak # Legacy

VARIABLES
  pcrs,     \* what the PCRs hold now
  stage,    \* where the cycle of each process stands
  read,     \* the digest a process's tpm2_pcrread has read
  pcrfile,  \* pcrs.bin in the working directory
  built,    \* the message a process has built
  msgs,     \* every message built on the device
  quotes,   \* every quote its TPM made under the AK
  since     \* history: the states held since a counter was first handed out

cycle     == <<stage, read, pcrfile, built>>
artifacts == <<msgs, quotes>>
cycleVars == <<vars, pcrs, cycle, artifacts, since>>

Stages == {"none", "pcr_read", "pcr_write", "pcr_load", "quote", "publish"}

\* build_canonical: the counter is a number, whichever counter it is from.
Message(counter, selection, digest, bundle) ==
  [device_id |-> DeviceId, counter |-> counter, pcr_selection |-> selection,
   pcr_hash |-> digest, evidence |-> bundle]

NoEvidence == <<>>
StopBundle == <<"StopState", "NvCertify">>

Quoted(domain, m, selection) ==
  [extra |-> Qualifying(domain, m), selection |-> selection,
   digest |-> Composite[selection][pcrs]]

CycleInit ==
  /\ Init
  /\ pcrs \in States
  /\ stage = [a \in Agents |-> "none"]
  /\ read = [a \in Agents |-> None]
  /\ pcrfile = None
  /\ built = [a \in Agents |-> None]
  /\ msgs = {}
  /\ quotes = {}
  /\ since = [c \in Counters |-> {}]

ToStage(a, s) == stage' = [stage EXCEPT ![a] = s]

-----------------------------------------------------------------------------
\* The steps of EpochCounter that a cycle neither begins nor ends with.
TakeCounter(a) ==
  /\ \/ Start(a) \/ NextCounter(a) \/ NvIncrement(a) \/ NvRead(a)
     \/ NvReadWrites(a) \/ LoadEpoch(a)
  /\ UNCHANGED <<pcrs, cycle, artifacts, since>>

\* The counter first, then the measurement.
BeginCycle(a) ==
  /\ HandOut(a)
  /\ LET c == Compose(epoch[a], seq[a])
     IN  since' = [since EXCEPT ![c] = @ \union {pcrs}]
  /\ ToStage(a, "pcr_read")
  /\ UNCHANGED <<pcrs, read, pcrfile, built, artifacts>>

\* pcr_read: tpm2_pcrread reads the TPM and then writes the shared file ...
PcrRead(a) ==
  /\ stage[a] = "pcr_read"
  /\ read' = [read EXCEPT ![a] = Composite[SpecOf[a]][pcrs]]
  /\ ToStage(a, "pcr_write")
  /\ UNCHANGED <<vars, pcrs, pcrfile, built, artifacts, since>>

PcrReadWrites(a) ==
  /\ stage[a] = "pcr_write"
  /\ pcrfile' = read[a]
  /\ ToStage(a, "pcr_load")
  /\ UNCHANGED <<vars, pcrs, read, built, artifacts, since>>

\* ... and what is in the file goes into the message. The counter is the one
\* CounterAlloc gave last.
BuildMessage(a) ==
  /\ stage[a] = "pcr_load"
  /\ LET m == Message(Compose(epoch[a], seq[a] - 1), SpecOf[a], pcrfile, NoEvidence)
     IN  /\ built' = [built EXCEPT ![a] = m]
         /\ msgs' = msgs \union {m}
  /\ ToStage(a, "quote")
  /\ UNCHANGED <<vars, pcrs, read, pcrfile, quotes, since>>

\* Mutant: after a quote the cycle measures again under the same counter.
QuoteAgain(a) ==
  /\ stage[a] = "quote"
  /\ quotes' = quotes \union {Quoted("envelope", built[a], SpecOf[a])}
  /\ ToStage(a, "pcr_read")
  /\ UNCHANGED <<vars, pcrs, read, pcrfile, built, msgs, since>>

\* quote: the TPM reads the PCRs once more, and signs.
QuoteMessage(a) ==
  /\ stage[a] = "quote"
  /\ quotes' = quotes \union {Quoted("envelope", built[a], SpecOf[a])}
  /\ ToStage(a, "publish")
  /\ UNCHANGED <<vars, pcrs, read, pcrfile, built, msgs, since>>

ForgetCycle(a) ==
  /\ ToStage(a, "none")
  /\ read' = [read EXCEPT ![a] = None]
  /\ built' = [built EXCEPT ![a] = None]
  /\ UNCHANGED <<pcrs, pcrfile, artifacts, since>>

\* The envelope is published (AuditDir); `run` goes on to the next cycle.
EndCycle(a) ==
  /\ stage[a] = "publish"
  /\ NextCycle(a)
  /\ ForgetCycle(a)

\* Mutant: the process is gone and its cycle goes on.
StopOnly(a) ==
  /\ Stop(a)
  /\ UNCHANGED <<pcrs, cycle, artifacts, since>>

\* The process ends, at any step.
StopCycle(a) ==
  /\ Stop(a)
  /\ ForgetCycle(a)

-----------------------------------------------------------------------------
\* A component is measured into the PCRs, or the machine was restarted.
PcrsChange ==
  /\ pcrs' \in States \ {pcrs}
  /\ since' = [c \in Counters |-> IF since[c] = {} THEN {} ELSE since[c] \union {pcrs'}]
  /\ UNCHANGED <<vars, cycle, artifacts>>

\* core.rs sign: a stop receipt is a message too, its counter the stop epoch,
\* quoted under the same key with its own qualifying domain.
SignReceipt ==
  /\ \E n \in StopEpochs :
       LET m == Message(n, StopSpec, Composite[StopSpec][pcrs], StopBundle)
       IN  /\ msgs' = msgs \union {m}
           /\ quotes' = quotes \union {Quoted("stop", m, StopSpec)}
  /\ UNCHANGED <<vars, pcrs, cycle, since>>

OthersIncrement ==
  /\ OutsideIncrement
  /\ UNCHANGED <<pcrs, cycle, artifacts, since>>

CycleStep(a) ==
  \/ TakeCounter(a)
  \/ BeginCycle(a)
  \/ PcrRead(a)
  \/ PcrReadWrites(a)
  \/ BuildMessage(a)
  \/ QuoteMessage(a)
  \/ EndCycle(a)
  \/ StopCycle(a)

CycleNext ==
  \/ \E a \in Agents : CycleStep(a)
  \/ PcrsChange
  \/ SignReceipt
  \/ OthersIncrement

CycleSpec == CycleInit /\ [][CycleNext]_cycleVars

-----------------------------------------------------------------------------
(***************************************************************************)
(* The verifier. Nothing keeps the files of an envelope together on their  *)
(* way to it, so it may see any message beside any quote and any bundle.   *)
(***************************************************************************)
Trust(form, key) == [d \in {DeviceId} |-> [form |-> form, key |-> key]]

Bundles == {NoEvidence, StopBundle, Unparseable}

Assembled ==
  [msg : msgs, attest : quotes \union {NoQuote},
   sig : {[key |-> Ak, over |-> q] : q \in quotes}, evidence : Bundles]

\* Own envelopes: an agent's quote and the message it is over.
Own(q) ==
  [msg |-> q.extra.msg, attest |-> q, sig |-> [key |-> Ak, over |-> q],
   evidence |-> NoEvidence]

AgentQuotes == {q \in quotes : q.extra.domain = "envelope"}

-----------------------------------------------------------------------------
MessageSet ==
  [device_id : {DeviceId}, counter : Counters \union StopEpochs,
   pcr_selection : Selections, pcr_hash : Digests,
   evidence : {NoEvidence, StopBundle}]
QuoteSet ==
  [extra : [domain : {"envelope", "stop"}, msg : MessageSet],
   selection : Selections, digest : Digests]

\* What is garbled, absent or unparseable is none of what the device makes,
\* and a profile asks for kinds the verifier knows.
ASSUME VerifierAssumption ==
  /\ Garbled \notin MessageSet \union QuoteSet
  /\ NoQuote \notin QuoteSet
  /\ NoEntry \notin [form : {"legacy", "ak"}, key : {Ak, Legacy}]
  /\ Unparseable # NoEvidence
  /\ \A refs \in Refs : refs.required \in Seq(Kinds)

\* The types, and that only a process in a cycle has one under way.
CycleTypeOK ==
  /\ TypeOK
  /\ pcrs \in States
  /\ stage \in [Agents -> Stages]
  /\ read \in [Agents -> Digests \union {None}]
  /\ pcrfile \in Digests \union {None}
  /\ \A a \in Agents : built[a] = None \/ built[a] \in MessageSet
  /\ msgs \subseteq MessageSet
  /\ quotes \subseteq QuoteSet
  /\ since \in [Counters -> SUBSET States]
  /\ \A a \in Agents : stage[a] # "none" => pc[a] = "cycle"

\* appraisal.rs:29-33: Accept means that the device was in an enrolled state
\* when it signed, and here that this was after the envelope's counter was
\* handed out: however the files reaching the verifier were put together,
\* whatever `run` and `attest` did to each other's files, and whatever tactiq-stop
\* signed. No key but an AK, with a quote, brings this about.
AcceptedWasSo ==
  \A e \in Assembled, form \in {"ak", "legacy"}, key \in {Ak, Legacy} :
    Gate1(e, Trust(form, key)) = "Authenticated" =>
      /\ form = "ak" /\ key = Ak
      /\ \A refs \in Refs :
           Appraise(e.msg, e.evidence, refs) = Accepted =>
             /\ e.msg.counter \in Counters
             /\ \E s \in since[e.msg.counter] :
                  Composite[refs.selection][s] \in refs.allowed

\* main.rs:359-363: no two envelopes that pass gate 1 describe different states
\* under a counter that was handed out once.
OneStatePerCounter ==
  \A m, n \in msgs :
    /\ m.counter = n.counter /\ m.counter \in Counters /\ handed[m.counter] = 1
    /\ \E q, r \in quotes : Commits(q, m) /\ Commits(r, n)
    => m = n

\* verdict.rs: what the verifier says of a device whose state did not change
\* since the counter was handed out is about that state, and about nothing
\* else: an enrolled one is accepted unless evidence the profile requires is
\* missing, any other is UnrecognizedState, whatever else is wrong.
SteadyIsAppraised ==
  \A q \in AgentQuotes, refs \in Refs, s \in States :
    LET m == q.extra.msg
        verdict == Check(Own(q), Trust("ak", Ak), refs)
    IN  since[m.counter] = {s} =>
          CASE \/ m.pcr_selection # refs.selection
               \/ Composite[refs.selection][s] \notin refs.allowed
                 -> verdict = Says("UnrecognizedState")
            [] OTHER
                 -> verdict.reason = IF refs.required = <<>> THEN "Accepted"
                                     ELSE "EvidenceMissing"

\* The order of the counters is the order of the states: with one agent, a
\* quote is made for the newest counter there is, so an envelope with a higher
\* counter, all the verifier asks for, describes a later state.
CounterOrderIsStateOrder ==
  [][\A q \in quotes' \ quotes :
       q.extra.domain = "envelope" =>
         \A c \in Counters : handed[c] > 0 => c <= q.extra.msg.counter]_cycleVars
=============================================================================
