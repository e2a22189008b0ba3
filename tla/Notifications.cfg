SPECIFICATION NoticesFairSpec
CONSTANTS
  ann = ann
  bob = bob
  lease = lease
  offer = offer
  Staff = {ann, bob}
  Unreachable = {bob}
  Contracts = {lease}
  Works = {}
  Deals = {offer}
  Owner <- OfAnn
  MaxMark = 2
  Replicas = {r1, r2}
  MaxFaults = 1
  MaxChanges = 1
INVARIANTS NoticesTypeOK MarkedWasMailed RepeatsAreAccountedFor
PROPERTIES NoticesGetOut
CHECK_DEADLOCK FALSE
CONSTRAINT Explored
