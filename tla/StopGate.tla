------------------------------ MODULE StopGate ------------------------------
(***************************************************************************)
(* What makes a call pass at one value of the stop counter: the parity of  *)
(* the counter and the operator's release for exactly that value.          *)
(* crates/stop/src/core.rs (state_of) and crates/stop/src/release.rs.      *)
(***************************************************************************)
EXTENDS Integers

CONSTANTS
  MaxEpoch,   \* last value of the stop counter (a 64-bit TPM counter)
  Device,     \* the device id this service was provisioned with
  Signed,     \* the releases the operator has signed, for any device
  Records,    \* what may stand in the release file: anyone may write it
  NoFile      \* a release file that is missing or is no record at all

Epochs  == 0..MaxEpoch
NoEpoch == -1

\* core.rs state_of: odd is stopped; NoEpoch, which no counter holds, is odd.
Running(epoch) == epoch % 2 = 0

ASSUME ReleaseAssumption ==
  /\ MaxEpoch \in Nat
  /\ \A r \in Records : r.epoch \in Nat
  /\ Signed \subseteq Records
  /\ NoFile \notin Records

\* Mutant: the device the release names is not compared.
ReleaseValidAnyDevice(record, sig, epoch) ==
  /\ sig # NoFile
  /\ record = sig
  /\ Running(record.epoch)
  /\ record.epoch = epoch

\* release.rs check: `sig` is the record the operator's signature file was
\* made over, so it verifies over exactly these bytes and no others; then the
\* parsed record (an even epoch, or it does not parse) names this device and
\* this epoch.
ReleaseValid(record, sig, epoch) ==
  /\ sig # NoFile
  /\ record = sig
  /\ Running(record.epoch)
  /\ record.device = Device
  /\ record.epoch = epoch

\* The operator allowed this device to run at this epoch.
Released(epoch) == \E r \in Signed : r.device = Device /\ r.epoch = epoch
=============================================================================
