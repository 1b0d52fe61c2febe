---------------------------- MODULE ReceiptCheck ----------------------------
(***************************************************************************)
(* What a verifier makes of a stop receipt, and of two: the order-free     *)
(* content of verify_stop_receipt, StopFinding::basis and                  *)
(* verify_stop_interval (crates/attest-appraise/src/stop.rs), and the exit *)
(* status of tools/stop-verify.                                            *)
(*                                                                         *)
(* A receipt is                                                            *)
(*   [msg    |-> [counter, pcrs, bundle],                                  *)
(*    quote  |-> [extra, pcrs, boot],                                      *)
(*    bundle |-> [record, cert, nonce]]                                    *)
(* with a record [kind, state, epoch] and a certify                        *)
(* [extra, value, boot, clock, at]. A digest stands as what it is taken    *)
(* over: `bundle` in the message is its evidence_hash, `extra` what a      *)
(* quote or a certify is bound to. `at` is history: no check reads it.     *)
(***************************************************************************)
EXTENDS Naturals

CONSTANTS
  Reference,  \* the PCR values of the build the verifier accepts
  NoNonce     \* a receipt without a nonce, a check that expects none

Odd(epoch) == epoch % 2 = 1

\* attest-stop: certify_qualifying, what the certify of a receipt is bound to.
Certified(record, nonce) == [record |-> record, nonce |-> nonce]

-----------------------------------------------------------------------------
\* Mutant: only reboots are told apart.
SameReset(boot1, boot2) == boot1.reset = boot2.reset

\* attest-stop TpmClock::same_boot: no reset and no restart between the two.
SameBoot(boot1, boot2) ==
  boot1.reset = boot2.reset /\ boot1.restart = boot2.restart

\* verify_stop_receipt: the quote is bound to this message, the bundle is the
\* one the message was made over, the record is the one the certify is bound
\* to, and the three speak of one boot of the accepted build.
Accepted(r, nonce) ==
  LET record == r.bundle.record
      cert   == r.bundle.cert
  IN  /\ r.quote.extra = r.msg
      /\ r.quote.pcrs = r.msg.pcrs
      /\ r.msg.pcrs = Reference
      /\ r.msg.bundle = r.bundle
      /\ record.epoch = r.msg.counter
      /\ r.bundle.nonce = nonce
      /\ nonce # NoNonce => record.kind = "status"
      /\ cert.extra = Certified(record, nonce)
      /\ cert.value = record.epoch
      /\ ~(Odd(record.epoch) /\ record.state = "running")
      /\ SameBoot(cert.boot, r.quote.boot)

\* StopFinding::basis: who says so.
Basis(r) ==
  IF Odd(r.bundle.record.epoch) THEN "counter"
  ELSE IF r.bundle.record.state = "stopped" THEN "no_release"
  ELSE "running"

\* stop-verify check: the exit status.
Verdict(r, nonce) ==
  IF ~Accepted(r, nonce) THEN "refused"
  ELSE IF Basis(r) = "running" THEN "running" ELSE "stopped"

-----------------------------------------------------------------------------
\* Mutant: a resume or a restart in between is let pass.
HeldAcrossRestart(r1, nonce1, r2, nonce2) ==
  LET first  == r1.bundle.cert
      second == r2.bundle.cert
  IN  /\ nonce1 # nonce2
      /\ Accepted(r1, nonce1) /\ Accepted(r2, nonce2)
      /\ Basis(r1) = "counter" /\ Basis(r2) = "counter"
      /\ r1.bundle.record.epoch = r2.bundle.record.epoch
      /\ first.boot.reset = second.boot.reset
      /\ first.clock < second.clock

\* verify_stop_interval: the stop held from the first receipt to the second.
\* Two challenges, each answered; both counters odd and equal; no reboot and
\* no resume between the two reads; the second read later by the TPM's clock.
Held(r1, nonce1, r2, nonce2) ==
  LET first  == r1.bundle.cert
      second == r2.bundle.cert
  IN  /\ nonce1 # nonce2
      /\ Accepted(r1, nonce1) /\ Accepted(r2, nonce2)
      /\ Basis(r1) = "counter" /\ Basis(r2) = "counter"
      /\ r1.bundle.record.epoch = r2.bundle.record.epoch
      /\ first.boot.reset = second.boot.reset
      /\ first.boot.restart = second.boot.restart
      /\ first.clock < second.clock
=============================================================================
