SPECIFICATION MCSpec
CONSTANTS
  Signers = {signer}
  Nonces = {first, second}
  First = first
  NoNonce = no_nonce
  Builds = {reference, other}
  Reference = reference
  MaxPast = 4
  MaxReceipts = 2
INVARIANTS
  TypeOK
  FreshReceiptIsTrue
  StopHeldBetween
  SignedIsAccepted
CHECK_DEADLOCK FALSE
