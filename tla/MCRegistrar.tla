---------------------------- MODULE MCRegistrar ----------------------------
(***************************************************************************)
(* One TPM vendor with one TPM, a chain made at home under a root of its   *)
(* own, and the release PKI with a registration and a RIM signer. The home *)
(* EK certificate is valid in the first second only, the TPM's from the    *)
(* second one, and a CRL until the next second begins.                     *)
(***************************************************************************)
EXTENDS Registrar, TLC

CONSTANTS p1, p2, d1, d2, none

Cert(serial, subject, issuer, key, signedBy, from, until, ca, usage, eku) ==
  [alg |-> "sha256WithRSA", serial |-> serial, subject |-> subject, issuer |-> issuer,
   key |-> key, signedBy |-> signedBy, from |-> from, until |-> until,
   critical |-> {"basicConstraints", "extKeyUsage"}, ca |-> ca, usage |-> usage,
   eku |-> eku, bits |-> 2048]

CaUse == {"keyCertSign", "cRLSign"}
Forever == MaxTime + MaxTime

VendorRoot == Cert("s0", "vendor", "vendor", "kv", "kv", 0, Forever, TRUE, CaUse, {})
VendorInt  == Cert("s1", "issuing", "vendor", "ki", "kv", 0, Forever, TRUE, CaUse, {})
TpmEk      == Cert("s2", "ek", "issuing", "ktpm", "ki", 2, Forever, FALSE, {}, {"ekCertificate"})
HomeRoot   == Cert("h0", "home", "home", "kh", "kh", 0, Forever, TRUE, CaUse, {})
HomeInt    == Cert("h1", "homeint", "home", "khi", "kh", 0, Forever, TRUE, CaUse, {})
HomeEk     == Cert("h2", "homeek", "homeint", "ksoft", "khi", 0, 0, FALSE, {}, {"ekCertificate"})

MCEkCerts == {TpmEk, HomeEk}
MCIntCerts == {VendorInt, HomeInt}
MCRootCerts == {VendorRoot, HomeRoot}
MCPinned == VendorRoot

GoodAk == [key |-> "akgood", qualifies |-> TRUE]
SoftAk == [key |-> "aksoft", qualifies |-> TRUE]
PoorAk == [key |-> "akpoor", qualifies |-> FALSE]
MCAks == {GoodAk, SoftAk, PoorAk}
MCHome == (GoodAk :> "ktpm") @@ (SoftAk :> None) @@ (PoorAk :> None)

MCReleaseRoot == Cert("r0", "release", "release", "kr", "kr", 0, Forever, TRUE, CaUse, {})
SigningCa == Cert("r1", "signing", "release", "ks", "kr", 0, Forever, TRUE, CaUse, {})
RegLeaf == Cert("r2", "reg", "signing", "kreg", "ks", 0, 2, FALSE, {"digitalSignature"}, {"registration"})
RimLeaf == Cert("r3", "rim", "signing", "krim", "ks", 0, Forever, FALSE, {"digitalSignature"}, {"rim"})

MCCertLists == {<<RegLeaf, SigningCa>>, <<RimLeaf, SigningCa>>, <<RimLeaf, RegLeaf, SigningCa>>}
MCSigners == {[issuer |-> c.issuer, serial |-> c.serial] : c \in {RegLeaf, RimLeaf}}

\* A format 1 record of an AK that was never in the TPM.
OldRecord ==
  [format |-> "v1", signed |-> FALSE, revocationChecked |-> FALSE,
   ek |-> TpmEk, int |-> VendorInt, rootHash |-> VendorRoot, checked |-> 2,
   ekCrl |-> None, intCrl |-> None, ekWindow |-> None, intWindow |-> None,
   ak |-> SoftAk, akName |-> "aksoft", blob |-> MakeCredential("ktpm", "aksoft", 1)]

MCForgeries == {OldRecord}
Sym == Permutations({p1, p2}) \union Permutations({d1, d2})
=============================================================================
