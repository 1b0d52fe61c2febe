------------------------- MODULE RegistrationCheck -------------------------
(***************************************************************************)
(* What the registrar accepts: an EK certificate chain (chain.rs), the     *)
(* CRLs of its two CAs (crl.rs), a registration record and the signature   *)
(* over it (main.rs cmd_verify, signature.rs).                             *)
(*                                                                         *)
(* A key, a name and a serial number are values that compare; a digest is  *)
(* its preimage; `signedBy` is the key a signature verifies under. Times   *)
(* are numbers in the unit of the clock the module is used with.           *)
(***************************************************************************)
EXTENDS Integers, Sequences

CONSTANT None    \* an optional field that is absent

-----------------------------------------------------------------------------
(***************************************************************************)
(* Certificates.                                                           *)
(***************************************************************************)
\* check_alg: the outer and the inner algorithm, of a certificate or a CRL.
Sha256Rsa(x) == x.alg = "sha256WithRSA"

\* check_time: both ends belong to the period.
InForce(c, at) == c.from <= at /\ at <= c.until

\* check_issued_by, check_signed_by: name and key of the next certificate.
Follows(c, issuer) == c.issuer = issuer.subject /\ c.signedBy = issuer.key

\* extensions: a critical extension that is not interpreted is a refusal.
Understood(c, known) == c.critical \subseteq known
ChainKnown  == {"basicConstraints", "keyUsage", "subjectAltName", "extKeyUsage"}
SignerKnown == {"basicConstraints", "keyUsage", "extKeyUsage"}

\* check_ca.
IsCa(c) == Understood(c, ChainKnown) /\ c.ca /\ "keyCertSign" \in c.usage

\* check_ek_leaf.
IsEk(c) == Understood(c, ChainKnown) /\ ~c.ca /\ "ekCertificate" \in c.eku

\* chain::verify: exactly three links.
ChainValid(ek, int, root, at) ==
  /\ \A c \in {ek, int, root} : Sha256Rsa(c) /\ InForce(c, at)
  /\ Follows(root, root) /\ IsCa(root)
  /\ Follows(int, root) /\ IsCa(int)
  /\ Follows(ek, int) /\ IsEk(ek)
  /\ ek.bits = 2048

-----------------------------------------------------------------------------
(***************************************************************************)
(* Revocation.                                                             *)
(***************************************************************************)
\* Mutant: a CRL that is no longer current still counts.
NotRevokedStale(crl, subject, issuer, at) ==
  /\ Sha256Rsa(crl)
  /\ crl.issuer = issuer.subject
  /\ Understood(issuer, ChainKnown) /\ "cRLSign" \in issuer.usage
  /\ crl.signedBy = issuer.key
  /\ crl.this <= at
  /\ crl.critical = {}
  /\ subject.serial \notin crl.listed

\* crl::check: the CRL is the issuer's own, current, and does not list the
\* certificate.
NotRevoked(crl, subject, issuer, at) ==
  /\ Sha256Rsa(crl)
  /\ crl.issuer = issuer.subject
  /\ Understood(issuer, ChainKnown) /\ "cRLSign" \in issuer.usage
  /\ crl.signedBy = issuer.key
  /\ crl.this <= at /\ crl.next # None /\ at <= crl.next
  /\ crl.critical = {}
  /\ subject.serial \notin crl.listed

\* check_chain.
ChainNotRevoked(ek, int, root, ekCrl, intCrl, at) ==
  NotRevoked(ekCrl, ek, int, at) /\ NotRevoked(intCrl, int, root, at)

Window(crl) == [this |-> crl.this, next |-> crl.next]

-----------------------------------------------------------------------------
(***************************************************************************)
(* The AK, the credential blob and the record.                             *)
(***************************************************************************)
\* check_ak: the AK rule of gate 1, and a name that can be computed.
AkQualifies(ak) == ak.qualifies
Name(ak) == ak.key

\* make_credential: only a holder of `to` can open it, for an object of that
\* name, and gets the secret.
MakeCredential(to, name, secret) == [to |-> to, name |-> name, secret |-> secret]

\* cmd_verify on the format: neither format may claim what it does not hold.
FormatHolds(rec) ==
  \/ rec.format = "v2" /\ rec.signed = None /\ rec.revocationChecked
  \/ rec.format = "v1" /\ rec.signed = FALSE /\ ~rec.revocationChecked

\* cmd_verify on the CRLs of a format 2 record, at the recorded time, and on
\* the windows the record states for them.
RevocationHolds(rec, root) ==
  /\ rec.ekCrl # None /\ rec.intCrl # None
  /\ ChainNotRevoked(rec.ek, rec.int, root, rec.ekCrl, rec.intCrl, rec.checked)
  /\ rec.ekWindow = Window(rec.ekCrl)
  /\ rec.intWindow = Window(rec.intCrl)

\* cmd_verify without the signature: the record against a pinned root.
RecordHolds(rec, root) ==
  /\ FormatHolds(rec)
  /\ rec.rootHash = root
  /\ ChainValid(rec.ek, rec.int, root, rec.checked)
  /\ rec.format = "v2" => RevocationHolds(rec, root)
  /\ AkQualifies(rec.ak)
  /\ rec.akName = Name(rec.ak)
  /\ rec.blob # None

-----------------------------------------------------------------------------
(***************************************************************************)
(* The signature over a record.                                            *)
(***************************************************************************)
\* Mutant: any extended key usage will do.
IsRegistrationSignerAnyUse(c) ==
  /\ Understood(c, SignerKnown)
  /\ ~c.ca
  /\ "digitalSignature" \in c.usage

\* check_leaf: the extended key usage is the registration purpose, nothing
\* else, and critical.
IsRegistrationSigner(c) ==
  /\ Understood(c, SignerKnown)
  /\ ~c.ca
  /\ "digitalSignature" \in c.usage
  /\ c.eku = {"registration"} /\ "extKeyUsage" \in c.critical

\* The first certificate of a container among those of a kind.
IsFirst(i, kind) == i \in kind /\ \A j \in kind : i <= j

\* signature::verify on the container itself.
Detached(p7s) ==
  /\ p7s.content = None
  /\ p7s.signers = 1
  /\ p7s.attributes = None
  /\ Sha256Rsa(p7s)

\* signature::verify: the leaf's signature over these very bytes, and leaf <-
\* Signing CA <- release root, the first two from the container and the root
\* never from it.
SignatureHolds(rec, p7s, root, at) ==
  /\ Detached(p7s)
  /\ p7s.signature.over = rec
  /\ \E i, k \in DOMAIN p7s.certs :
       LET leaf == p7s.certs[i]
           sca  == p7s.certs[k]
       IN /\ p7s.signature.by = leaf.key
          /\ IsFirst(i, {j \in DOMAIN p7s.certs :
                            /\ p7s.certs[j].issuer = p7s.sid.issuer
                            /\ p7s.certs[j].serial = p7s.sid.serial})
          /\ IsFirst(k, {j \in DOMAIN p7s.certs : p7s.certs[j].subject = leaf.issuer})
          /\ \A c \in {leaf, sca, root} : Sha256Rsa(c) /\ InForce(c, at)
          /\ Follows(root, root) /\ IsCa(root)
          /\ Follows(sca, root) /\ IsCa(sca)
          /\ Follows(leaf, sca) /\ IsRegistrationSigner(leaf)
=============================================================================
