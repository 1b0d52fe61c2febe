---------------------------- MODULE EpochCounter ----------------------------
(***************************************************************************)
(* How tactiq-agent hands out envelope counters: one increment of the TPM's *)
(* NV counter gives an epoch, and the envelopes of one process count up     *)
(* within it (crates/prover/src/main.rs CounterAlloc, attest-tpm            *)
(* nv_increment_and_read). `run` and `attest` may run side by side: there   *)
(* is no lock, and they share the working directory the counter is read     *)
(* through.                                                                 *)
(***************************************************************************)
EXTENDS Integers

CONSTANTS
  Agents,      \* processes of tactiq-agent
  Loops,       \* those that run `run`; the others run `attest`, once
  SeqLimit,    \* envelopes in one epoch (2^24)
  EpochLimit,  \* epochs that fit beside a seq in 64 bits (2^40)
  MaxNv,       \* last value of the NV counter
  Outside      \* TRUE: other processes advance the NV counter too

ASSUME EpochAssumption ==
  /\ Loops \subseteq Agents
  /\ SeqLimit \in Nat \ {0}
  /\ EpochLimit \in Nat \ {0}
  /\ MaxNv \in Nat \ {0}
  /\ Outside \in BOOLEAN

NoEpoch == -1

VARIABLES
  nv,          \* the NV counter, defined and written at provisioning
  file,        \* counter.bin in the working directory
  pc,          \* where each process stands
  tool,        \* the value a process's tpm2_nvread has read
  epoch,       \* CounterAlloc.epoch
  seq,         \* CounterAlloc.next_seq
  writes,      \* history: increments this process has made since it started
  given,       \* history: counters it has been given since it started
  handed       \* history: how often each counter was handed out

alloc == <<epoch, seq>>
wear  == <<writes, given>>
vars  == <<nv, file, pc, tool, epoch, seq, writes, given, handed>>

Labels == {"off", "next", "increment", "read", "write", "load", "compose",
           "cycle"}

\* compose_counter: (epoch << 24) | seq, or an error if either part is too big.
Fits(e, s)    == s < SeqLimit /\ e < EpochLimit
Compose(e, s) == e * SeqLimit + s
Counters      == 0 .. Compose(EpochLimit, 0) - 1

Init ==
  /\ nv = 1
  /\ file = NoEpoch
  /\ pc = [a \in Agents |-> "off"]
  /\ tool = [a \in Agents |-> NoEpoch]
  /\ epoch = [a \in Agents |-> NoEpoch]
  /\ seq = [a \in Agents |-> 0]
  /\ writes = [a \in Agents |-> 0]
  /\ given = [a \in Agents |-> 0]
  /\ handed = [c \in Counters |-> 0]

Goto(a, label) == pc' = [pc EXCEPT ![a] = label]

Start(a) ==
  /\ pc[a] = "off"
  /\ Goto(a, "next")
  /\ UNCHANGED <<nv, file, tool, alloc, wear, handed>>

\* Mutant: a new epoch every cycle, as before the epoch scheme.
NextAlwaysTakes(a) ==
  /\ pc[a] = "next"
  /\ Goto(a, "increment")
  /\ UNCHANGED <<nv, file, tool, alloc, wear, handed>>

\* CounterAlloc::next: verify_counter and a new epoch when there is none yet
\* or its seq is used up.
NextCounter(a) ==
  /\ pc[a] = "next"
  /\ Goto(a, IF epoch[a] = NoEpoch \/ seq[a] >= SeqLimit
             THEN "increment" ELSE "compose")
  /\ UNCHANGED <<nv, file, tool, alloc, wear, handed>>

\* Mutant: the counter is read without being advanced.
NvReadOnly(a) ==
  /\ pc[a] = "increment"
  /\ Goto(a, "read")
  /\ UNCHANGED <<nv, file, tool, alloc, wear, handed>>

\* nv_increment_and_read: tpm2_nvincrement ...
NvIncrement(a) ==
  /\ pc[a] = "increment"
  /\ nv < MaxNv
  /\ nv' = nv + 1
  /\ writes' = [writes EXCEPT ![a] = @ + 1]
  /\ Goto(a, "read")
  /\ UNCHANGED <<file, tool, alloc, given, handed>>

\* ... tpm2_nvread, which reads the TPM and then writes the shared file ...
NvRead(a) ==
  /\ pc[a] = "read"
  /\ tool' = [tool EXCEPT ![a] = nv]
  /\ Goto(a, "write")
  /\ UNCHANGED <<nv, file, alloc, wear, handed>>

NvReadWrites(a) ==
  /\ pc[a] = "write"
  /\ file' = tool[a]
  /\ Goto(a, "load")
  /\ UNCHANGED <<nv, tool, alloc, wear, handed>>

\* Mutant: the file is taken for the value before the increment.
LoadEpochPlusOne(a) ==
  /\ pc[a] = "load"
  /\ epoch' = [epoch EXCEPT ![a] = file + 1]
  /\ seq' = [seq EXCEPT ![a] = 0]
  /\ Goto(a, "compose")
  /\ UNCHANGED <<nv, file, tool, wear, handed>>

\* ... and the file is the epoch.
LoadEpoch(a) ==
  /\ pc[a] = "load"
  /\ epoch' = [epoch EXCEPT ![a] = file]
  /\ seq' = [seq EXCEPT ![a] = 0]
  /\ Goto(a, "compose")
  /\ UNCHANGED <<nv, file, tool, wear, handed>>

\* The counter is handed to the cycle, which goes on to measure and publish.
HandOut(a) ==
  /\ pc[a] = "compose"
  /\ Fits(epoch[a], seq[a])
  /\ handed' = [handed EXCEPT ![Compose(epoch[a], seq[a])] = @ + 1]
  /\ seq' = [seq EXCEPT ![a] = @ + 1]
  /\ given' = [given EXCEPT ![a] = @ + 1]
  /\ Goto(a, "cycle")
  /\ UNCHANGED <<nv, file, tool, epoch, writes>>

\* cmd_run: the cycle is done, the next one begins.
NextCycle(a) ==
  /\ pc[a] = "cycle"
  /\ a \in Loops
  /\ Goto(a, "next")
  /\ UNCHANGED <<nv, file, tool, alloc, wear, handed>>

\* The process ends: it is killed, the device loses power, a TPM call or the
\* composition fails, or `attest` is done. Its epoch goes with it.
Stop(a) ==
  /\ pc[a] # "off"
  /\ Goto(a, "off")
  /\ tool' = [tool EXCEPT ![a] = NoEpoch]
  /\ epoch' = [epoch EXCEPT ![a] = NoEpoch]
  /\ seq' = [seq EXCEPT ![a] = 0]
  /\ writes' = [writes EXCEPT ![a] = 0]
  /\ given' = [given EXCEPT ![a] = 0]
  /\ UNCHANGED <<nv, file, handed>>

\* The index is written with its own empty auth: any process may advance it.
OutsideIncrement ==
  /\ Outside
  /\ nv < MaxNv
  /\ nv' = nv + 1
  /\ UNCHANGED <<file, pc, tool, alloc, wear, handed>>

Step(a) ==
  \/ Start(a) \/ NextCounter(a) \/ NvIncrement(a) \/ NvRead(a)
  \/ NvReadWrites(a) \/ LoadEpoch(a) \/ HandOut(a) \/ NextCycle(a) \/ Stop(a)

Next == OutsideIncrement \/ \E a \in Agents : Step(a)

Spec == Init /\ [][Next]_vars

-----------------------------------------------------------------------------
\* Type correctness of every variable.
TypeOK ==
  /\ nv \in 1..MaxNv
  /\ file \in {NoEpoch} \union 1..MaxNv
  /\ pc \in [Agents -> Labels]
  /\ tool \in [Agents -> {NoEpoch} \union 1..MaxNv]
  /\ epoch \in [Agents -> {NoEpoch} \union 1..MaxNv]
  /\ seq \in [Agents -> 0..SeqLimit]
  /\ writes \in [Agents -> Nat]
  /\ given \in [Agents -> Nat]
  /\ handed \in [Counters -> Nat]

\* With one agent, every counter it is given is above every counter given
\* before, in this process or an earlier one, wherever that one died and
\* whatever else advanced the NV counter: what the verifier's strictly-greater
\* rule rests on (prover main.rs SEQ_BITS, CounterAlloc::next).
CountersRise ==
  [][\A c, d \in Counters :
       handed'[c] > handed[c] /\ handed[d] > 0 => d < c]_vars

\* "One NV increment per epoch, not per envelope" (prover main.rs
\* CounterAlloc): a process makes one when it starts and one for each SeqLimit
\* counters it has used up.
WearBounded ==
  \A a \in Agents : writes[a] <= 1 + given[a] \div SeqLimit

\* attest-tpm nv_increment_and_read: "Two cycles cannot share a counter value
\* even if they race": no counter is handed out twice.
NeverTwice == \A c \in Counters : handed[c] <= 1
=============================================================================
