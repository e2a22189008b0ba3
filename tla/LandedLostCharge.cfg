SPECIFICATION Spec
CONSTANTS
  Bases <- SmallBases
  Amounts = {0, 1, 5}
  Clerks = {w1, w2}
  MaxCharges = 2
  MaxInt = 2147483647
  lease = lease
  memo = memo
  Docs = {}
  Pdf = {}
  Statuses = {"draft", "sent", "signed"}
  Desks = {w1, w2}
  Missing = Missing
  MaxVersions = 1
  MaxUploads = 1
  MaxBreaks = 0
  Emails = {a}
  Stages = {"submitted", "accepted"}
  Forms = {w1, w2}
  MaxEnrolments = 0
  MaxInvitations = 0
  MaxUsers = 0
  Nets = {}
  Vats = {}
  Payments = {}
  Treatments = {"standard"}
  Keepers = {w1, w2}
  MaxPayments = 0
  Values = {0}
  Threshold = 1
  Lists = {}
  Same = Same
  Sellers = {s1}
  MaxDeals = 0
  survey = survey
  pitch = pitch
  Milestones = {pitch}
  Oriented = {}
  OpenStatuses = {"pending"}
  Mentors = {}
  Students = {w1, w2}
  MaxPapers = 0
  MaxFiles = 0
  Operators = {o1}
  Money = {0}
  Methods = {"cash"}
  Tellers = {w1, w2}
  MaxTills = 0
  MaxSales = 0
  Capacities = {}
  Caps = {}
  Hosts = {w1, w2}
  MaxGuests = 0
  MaxCasts = 0
SYMMETRY Symmetry
CONSTRAINT Explored
INVARIANTS SharesAddBack
CHECK_DEADLOCK FALSE
