SPECIFICATION Spec
CONSTANTS
  Bases <- SmallBases
  Amounts = {0, 1, 5}
  Clerks = {w1, w2}
  MaxCharges = 3
  MaxInt = 2147483647
  lease = lease
  memo = memo
  Docs = {lease, memo}
  Pdf = {lease}
  Statuses = {"draft", "sent", "signed"}
  Desks = {w1, w2}
  Missing = Missing
  MaxVersions = 3
  MaxUploads = 3
  MaxBreaks = 1
  Emails = {a}
  Stages = {"submitted", "accepted"}
  Forms = {w1, w2}
  MaxEnrolments = 2
  MaxInvitations = 2
  MaxUsers = 2
  Nets = {0, 2, 4}
  Vats = {0, 2}
  Payments = {0, 1, 2, 5}
  Treatments = {"standard", "exempt"}
  Keepers = {w1, w2}
  MaxPayments = 4
  Values = {0, 1, 2}
  Threshold = 1
  Lists = {lines}
  Same = Same
  Sellers = {s1, s2}
  MaxDeals = 1
  survey = survey
  pitch = pitch
  Milestones = {survey, pitch}
  Oriented = {survey}
  OpenStatuses = {"pending", "pending_review"}
  Mentors = {mentor}
  Students = {w1, w2}
  MaxPapers = 3
  MaxFiles = 3
  Operators = {o1, o2}
  Money = {0, 2}
  Methods = {"cash", "card"}
  Tellers = {w1, w2}
  MaxTills = 2
  MaxSales = 2
  Capacities = {0, 1}
  Caps = {3, 4}
  Hosts = {w1, w2}
  MaxGuests = 3
  MaxCasts = 1
SYMMETRY Symmetry
CONSTRAINT Explored
INVARIANTS BackOfficeTypeOK
  SharesStand
  EvidenceStands VersionsAgreeInTurn
  ClaimIsWhole PaidInvoiceStandsInTurn
  StepsInOrder ProgressIsSignedOffInTurn DrawerReconcilesInTurn SentReachedAll
PROPERTIES WonAsApprovedInTurn
CHECK_DEADLOCK FALSE
