SPECIFICATION Spec
CONSTANTS
  None = none
  none = none
  p1 = p1
  p2 = p2
  d1 = d1
  d2 = d2
  Operators = {p1, p2}
  Dirs = {d1, d2}
  EkCerts <- MCEkCerts
  IntCerts <- MCIntCerts
  RootCerts <- MCRootCerts
  Pinned <- MCPinned
  TpmKeys = {"ktpm"}
  Aks <- MCAks
  Home <- MCHome
  CertLists <- MCCertLists
  Signers <- MCSigners
  ReleaseRoot <- MCReleaseRoot
  RegistrationKeys = {"kreg"}
  OtherKeys = {"krim"}
  Forgeries <- MCForgeries
  Serials = {"s1", "s2"}
  CrlLife = 2
  MaxTime = 4
  MaxSessions = 2
  MaxRevoked = 1
SYMMETRY Sym
INVARIANTS TypeOK RecordMeansResident SignedMeansRegistered VerifyAgrees RevocationBounded
PROPERTIES ChallengeAnswerable RecordStands
CHECK_DEADLOCK FALSE
