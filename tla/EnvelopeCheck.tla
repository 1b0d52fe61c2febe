---------------------------- MODULE EnvelopeCheck ----------------------------
(***************************************************************************)
(* What the verifier says of one envelope: gate 1 and gate 3 of            *)
(* crates/attest-appraise (gate1.rs, appraisal.rs, reference.rs).          *)
(*                                                                         *)
(* A digest is the thing digested, a signature is the key and the object   *)
(* it is over. The records:                                                *)
(*   message  [device_id, counter, pcr_selection, pcr_hash, evidence]      *)
(*   quote    [extra : [domain, msg], selection, digest], made by a TPM    *)
(*   envelope [msg, attest, sig : [key, over], evidence]                   *)
(*   entry    [form : {"legacy", "ak"}, key], what is trusted of a device  *)
(*   refs     [selection, allowed, required], a reference set              *)
(***************************************************************************)
EXTENDS Naturals, Sequences

CONSTANTS
  NoEntry,      \* the trust store has nothing of a device
  NoQuote,      \* an envelope without a quote (v1)
  Garbled,      \* bytes that parse neither as a message nor as a quote
  Unparseable   \* a bundle that does not parse into sections

\* EvidenceKind: the tags the verifier knows. A bundle is a sequence of tags.
Kinds == {"TpmQuote", "GpuAttest", "CpuTee"}

Says(reason) == [reason |-> reason, kind |-> "none"]
Accepted     == Says("Accepted")

-----------------------------------------------------------------------------
\* An AK is accepted only with a quote, a quote only under an AK.
FormMatches(e, entry) == entry.form = "ak" <=> e.attest # NoQuote

SignedObject(e)  == IF e.attest = NoQuote THEN e.msg ELSE e.attest
Verifies(e, key) == e.sig = [key |-> key, over |-> SignedObject(e)]

\* qualifying_data: an envelope's digest of its message has no domain prefix,
\* stop_quote_qualifying's has one.
Qualifying(domain, m) == [domain |-> domain, msg |-> m]

\* Mutant: the TPM's own digest of the PCRs is not compared.
CommitsLoosely(q, m) ==
  q.extra = Qualifying("envelope", m) /\ q.selection = m.pcr_selection

\* The quote is over this message, this selection and these PCRs.
Commits(q, m) ==
  /\ q.extra = Qualifying("envelope", m)
  /\ q.selection = m.pcr_selection
  /\ q.digest = m.pcr_hash

\* authenticate_envelope: the first thing that is wrong, in this order.
Gate1(e, trust) ==
  IF e.msg = Garbled THEN "Malformed"
  ELSE LET entry == trust[e.msg.device_id] IN
    IF entry = NoEntry THEN "UnknownDevice"
    ELSE IF ~FormMatches(e, entry) THEN "QuoteBindingFail"
    ELSE IF e.attest = Garbled THEN "Malformed"
    ELSE IF ~Verifies(e, entry.key) THEN "SignatureFail"
    ELSE IF e.attest # NoQuote /\ ~Commits(e.attest, e.msg) THEN "QuoteBindingFail"
    ELSE IF e.evidence # e.msg.evidence THEN "EvidenceBindingFail"
    ELSE "Authenticated"

-----------------------------------------------------------------------------
\* presented_kinds: a tag that is not known is skipped, a repeated one counts once.
Presented(bundle) == {bundle[i] : i \in DOMAIN bundle} \intersect Kinds

\* The required kinds that are not there, by their place in the profile.
Missing(bundle, refs) ==
  {i \in DOMAIN refs.required : refs.required[i] \notin Presented(bundle)}

Recognized(m, refs) ==
  m.pcr_selection = refs.selection /\ m.pcr_hash \in refs.allowed

\* The first missing kind in profile order.
ReportMissing(bundle, refs) ==
  LET first == CHOOSE i \in Missing(bundle, refs) :
                 \A j \in Missing(bundle, refs) : i <= j
  IN  [reason |-> "EvidenceMissing", kind |-> refs.required[first]]

\* Mutant: the bundle is looked at before the state.
EvidenceFirst(m, bundle, refs) ==
  IF bundle = Unparseable THEN Says("EvidenceUnparseable")
  ELSE IF Missing(bundle, refs) # {} THEN ReportMissing(bundle, refs)
  ELSE IF ~Recognized(m, refs) THEN Says("UnrecognizedState")
  ELSE Accepted

\* appraise, gate3: the state before the evidence, once the bundle parses.
Appraise(m, bundle, refs) ==
  IF bundle = Unparseable THEN Says("EvidenceUnparseable")
  ELSE IF ~Recognized(m, refs) THEN Says("UnrecognizedState")
  ELSE IF Missing(bundle, refs) # {} THEN ReportMissing(bundle, refs)
  ELSE Accepted

-----------------------------------------------------------------------------
\* check: gate 1, then gate 3 over what passed it.
Check(e, trust, refs) ==
  IF Gate1(e, trust) = "Authenticated"
  THEN Appraise(e.msg, e.evidence, refs)
  ELSE Says(Gate1(e, trust))
=============================================================================
