---------------------------- MODULE StopReceipts ----------------------------
(***************************************************************************)
(* The history of a device and the receipts it signs: what a receipt that  *)
(* passes ReceiptCheck says of the device, and when.                       *)
(*                                                                         *)
(* `past` is every state the device has been in, oldest first. Signers are *)
(* the processes that answer with a receipt: the service (`admit`) and     *)
(* `tactiq-stop status`. Each reads the counter, has it certified, reads   *)
(* the PCRs and has them quoted, in four TPM commands, while the counter   *)
(* moves, the clock runs, PCRs are extended and the machine is suspended   *)
(* or rebooted.                                                            *)
(***************************************************************************)
EXTENDS ReceiptCheck, Sequences, FiniteSets

CONSTANTS
  Signers,     \* processes that sign receipts
  Nonces,      \* the challenges a verifier may choose
  Builds,      \* what the boot PCRs may measure
  MaxPast,     \* bound: device states in a history
  MaxReceipts  \* bound: receipts signed

ASSUME ReceiptsAssumption ==
  /\ NoNonce \notin Nonces
  /\ Reference \in Builds
  /\ MaxPast \in Nat \ {0}
  /\ MaxReceipts \in Nat

VARIABLES
  past,     \* the device's states so far, the last one its present state
  asked,    \* where `past` stood when a nonce was chosen; 0: not chosen yet
  pc,       \* where each signer stands
  work,     \* what each signer has put together so far
  receipts  \* the receipts signed

vars == <<past, asked, pc, work, receipts>>

Now     == past[Len(past)]
Boot(d) == [reset |-> d.reset, restart |-> d.restart]

Blank  == [kind |-> "none", state |-> "none", epoch |-> 0]
NoCert == [extra |-> Certified(Blank, NoNonce), value |-> 0,
           boot |-> [reset |-> 0, restart |-> 0], clock |-> 0, at |-> 0]
NoWork == [record |-> Blank, nonce |-> NoNonce, cert |-> NoCert, pcrs |-> Reference]

Init ==
  /\ \E c \in {1, 2}, b \in Builds :
       past = <<[readable |-> TRUE, counter |-> c, build |-> b,
                 reset |-> 0, restart |-> 0, clock |-> 0]>>
  /\ asked = [n \in Nonces |-> 0]
  /\ pc = [s \in Signers |-> "idle"]
  /\ work = [s \in Signers |-> NoWork]
  /\ receipts = {}

-----------------------------------------------------------------------------
(***************************************************************************)
(* What happens to the device.                                             *)
(***************************************************************************)
Becomes(d) ==
  /\ Len(past) < MaxPast
  /\ past' = Append(past, d)
  /\ UNCHANGED asked

\* A trip, a lift, or any other increment.
Increment ==
  /\ Now.readable
  /\ Becomes([Now EXCEPT !.counter = @ + 1])
  /\ UNCHANGED <<pc, work, receipts>>

\* The owner deletes the index; from then on it cannot be read.
OwnerDelete ==
  /\ Now.readable
  /\ Becomes([Now EXCEPT !.readable = FALSE])
  /\ UNCHANGED <<pc, work, receipts>>

\* define: the new counter starts at the highest value held (attest-tpm
\* lib.rs:430) or above it (attest-appraise stop.rs:261).
Redefine ==
  /\ ~Now.readable
  /\ \E above \in {0, 1} :
       Becomes([Now EXCEPT !.readable = TRUE, !.counter = @ + above])
  /\ UNCHANGED <<pc, work, receipts>>

\* The TPM's clock runs, or is moved forward.
Tick ==
  /\ Becomes([Now EXCEPT !.clock = @ + 1])
  /\ UNCHANGED <<pc, work, receipts>>

\* A boot PCR is extended: it never measures the reference again in this boot.
Extend ==
  /\ \E b \in Builds \ {Reference} : Becomes([Now EXCEPT !.build = b])
  /\ UNCHANGED <<pc, work, receipts>>

\* A resume keeps the PCRs, a restart measures anew; processes go on.
Restart ==
  /\ \E b \in Builds : Becomes([Now EXCEPT !.restart = @ + 1, !.build = b])
  /\ UNCHANGED <<pc, work, receipts>>

\* A reboot: processes die, and the clock may fall back to what was saved.
Reset ==
  /\ \E b \in Builds, c \in 0..Now.clock :
       Becomes([Now EXCEPT !.reset = @ + 1, !.restart = 0, !.build = b, !.clock = c])
  /\ pc' = [s \in Signers |-> "idle"]
  /\ work' = [s \in Signers |-> NoWork]
  /\ UNCHANGED receipts

\* stop-verify nonce: a verifier chooses a challenge.
Ask(n) ==
  /\ asked[n] = 0
  /\ asked' = [asked EXCEPT ![n] = Len(past)]
  /\ UNCHANGED <<past, pc, work, receipts>>

-----------------------------------------------------------------------------
(***************************************************************************)
(* How a receipt is made: admit or status, then sign.                      *)
(***************************************************************************)
Goto(s, label) == pc' = [pc EXCEPT ![s] = label]

\* An error, or a call that may pass: there is no receipt.
Abandon(s) ==
  /\ Goto(s, "idle")
  /\ work' = [work EXCEPT ![s] = NoWork]

\* A question arrives: a call to admit, or a status with or without a nonce.
Begin(s, kind, n) ==
  /\ pc[s] = "idle"
  /\ Cardinality(receipts) < MaxReceipts
  /\ n # NoNonce => kind = "status" /\ asked[n] # 0
  /\ work' = [work EXCEPT ![s] = [NoWork EXCEPT !.record.kind = kind, !.nonce = n]]
  /\ Goto(s, "read")
  /\ UNCHANGED <<past, asked, receipts>>

\* Mutant: the release is looked for before the parity.
ReadReleaseFirst(s, released) ==
  /\ pc[s] = "read"
  /\ Now.readable
  /\ work' = [work EXCEPT ![s].record.state = IF released THEN "running" ELSE "stopped",
                          ![s].record.epoch = Now.counter]
  /\ Goto(s, "certify")
  /\ UNCHANGED <<past, asked, receipts>>

\* Mutant: a call that may pass is answered with a receipt as well.
ReadSignsPass(s, released) ==
  /\ pc[s] = "read"
  /\ Now.readable
  /\ LET open == ~Odd(Now.counter) /\ released
     IN  work' = [work EXCEPT
           ![s].record.state = IF open THEN "running" ELSE "stopped",
           ![s].record.epoch = Now.counter]
  /\ Goto(s, "certify")
  /\ UNCHANGED <<past, asked, receipts>>

\* read_counter and gate: `released` is whether the gate finds a release.
Read(s, released) ==
  /\ pc[s] = "read"
  /\ Now.readable
  /\ LET open == ~Odd(Now.counter) /\ released
     IN  IF open /\ work[s].record.kind = "refusal"
         THEN Abandon(s)
         ELSE /\ work' = [work EXCEPT
                   ![s].record.state = IF open THEN "running" ELSE "stopped",
                   ![s].record.epoch = Now.counter]
              /\ Goto(s, "certify")
  /\ UNCHANGED <<past, asked, receipts>>

CertNow(s) ==
  [extra |-> Certified(work[s].record, work[s].nonce), value |-> Now.counter,
   boot |-> Boot(Now), clock |-> Now.clock, at |-> Len(past)]

\* Mutant: the value the TPM certified is not compared with the record.
CertifyAnyValue(s) ==
  /\ pc[s] = "certify"
  /\ Now.readable
  /\ work' = [work EXCEPT ![s].cert = CertNow(s)]
  /\ Goto(s, "pcrs")
  /\ UNCHANGED <<past, asked, receipts>>

\* sign: the TPM certifies the counter; check_counter_certify.
Certify(s) ==
  /\ pc[s] = "certify"
  /\ Now.readable
  /\ Now.counter = work[s].record.epoch
  /\ work' = [work EXCEPT ![s].cert = CertNow(s)]
  /\ Goto(s, "pcrs")
  /\ UNCHANGED <<past, asked, receipts>>

\* sign: pcr_read, the values the message states.
ReadPcrs(s) ==
  /\ pc[s] = "pcrs"
  /\ work' = [work EXCEPT ![s].pcrs = Now.build]
  /\ Goto(s, "quote")
  /\ UNCHANGED <<past, asked, receipts>>

Bundle(s)  == [record |-> work[s].record, cert |-> work[s].cert, nonce |-> work[s].nonce]
Message(s) == [counter |-> work[s].record.epoch, pcrs |-> work[s].pcrs,
               bundle |-> Bundle(s)]

\* sign: the quote, and the receipt; nothing compares the quote with it here.
Quote(s) ==
  /\ pc[s] = "quote"
  /\ receipts' = receipts \union
       {[msg |-> Message(s), bundle |-> Bundle(s),
         quote |-> [extra |-> Message(s), pcrs |-> Now.build, boot |-> Boot(Now)]]}
  /\ Abandon(s)
  /\ UNCHANGED <<past, asked>>

\* A tool or a file read fails, or the certify does not say what was read.
Fail(s) ==
  /\ pc[s] # "idle"
  /\ Abandon(s)
  /\ UNCHANGED <<past, asked, receipts>>

-----------------------------------------------------------------------------
DeviceStep ==
  Increment \/ OwnerDelete \/ Redefine \/ Tick \/ Extend \/ Restart \/ Reset

SignStep(s) ==
  \/ \E kind \in {"refusal", "status"}, n \in Nonces \union {NoNonce} : Begin(s, kind, n)
  \/ \E released \in BOOLEAN : Read(s, released)
  \/ Certify(s)
  \/ ReadPcrs(s)
  \/ Quote(s)
  \/ Fail(s)

Next ==
  \/ DeviceStep
  \/ \E n \in Nonces : Ask(n)
  \/ \E s \in Signers : SignStep(s)

Spec == Init /\ [][Next]_vars
-----------------------------------------------------------------------------
Answers == Nonces \union {NoNonce}

\* StopRecord: a refusal is never of a running state, neither encoded nor parsed.
Records == {record \in [kind : {"none", "refusal", "status"},
                        state : {"none", "running", "stopped"}, epoch : Nat] :
              record.kind = "refusal" => record.state # "running"}
Certs   == [extra : [record : Records, nonce : Answers], value : Nat,
            boot : [reset : Nat, restart : Nat], clock : Nat, at : Nat]
Bundles == [record : Records, cert : Certs, nonce : Answers]
Msgs    == [counter : Nat, pcrs : Builds, bundle : Bundles]
Device  == [readable : BOOLEAN, counter : Nat, build : Builds,
            reset : Nat, restart : Nat, clock : Nat]

\* The types of the state; that a call the gate lets pass is never on its way
\* to a refusal receipt (attest-stop lib.rs admit); and that an answer starts
\* from nothing: no value, nonce or certify of an earlier question is left in
\* a signer.
TypeOK ==
  /\ past \in Seq(Device) /\ Len(past) \in 1..MaxPast
  /\ asked \in [Nonces -> 0..MaxPast]
  /\ pc \in [Signers -> {"idle", "read", "certify", "pcrs", "quote"}]
  /\ work \in [Signers -> [record : Records, nonce : Answers, cert : Certs, pcrs : Builds]]
  /\ \A s \in Signers : pc[s] = "idle" => work[s] = NoWork
  /\ \A r \in receipts :
       /\ r.msg \in Msgs
       /\ r.bundle \in Bundles
       /\ r.quote \in [extra : Msgs, pcrs : Builds, boot : [reset : Nat, restart : Nat]]

\* What "fresh" means (stop.rs:13-16): a receipt that answers a nonce was made
\* after the nonce was chosen. At some moment since, the TPM held the counter
\* at the value in the receipt and the accepted build was the one running,
\* although the counter, the PCRs and the quote were read at different times.
FreshReceiptIsTrue ==
  \A r \in receipts, n \in Nonces :
    Accepted(r, n) =>
      /\ asked[n] # 0
      /\ \E i \in asked[n]..Len(past) :
           /\ past[i].readable
           /\ past[i].counter = r.bundle.record.epoch
           /\ past[i].build = Reference

\* verify_stop_interval (stop.rs:248-273): between the two reads there was no
\* reboot and no resume, the accepted build ran the whole time, and the
\* counter stood at the odd value whenever it could be read at all, so at no
\* moment in between could the gate have let a call pass.
StopHeldBetween ==
  \A r1, r2 \in receipts, n1, n2 \in Nonces :
    Held(r1, n1, r2, n2) =>
      LET from == r1.bundle.cert.at
          to   == r2.bundle.cert.at
      IN  /\ from < to
          /\ \A i \in from..to :
               /\ Boot(past[i]) = Boot(past[from])
               /\ past[i].build = Reference
               /\ past[i].readable => /\ past[i].counter = r1.bundle.record.epoch
                                      /\ Odd(past[i].counter)

\* "The service cannot emit what a verifier must reject" (attest-stop
\* lib.rs:164): every receipt whose steps all fell in one boot of the accepted
\* build passes, and the verdict is the state the service put in the record.
SignedIsAccepted ==
  \A r \in receipts :
    LET cert == r.bundle.cert
    IN  (cert.boot = r.quote.boot /\ r.quote.pcrs = Reference /\ r.msg.pcrs = Reference)
          => Verdict(r, r.bundle.nonce) = r.bundle.record.state
=============================================================================
