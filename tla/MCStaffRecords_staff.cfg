SPECIFICATION StaffSpec
CONSTANTS
  ann = ann
  mia = mia
  acme = acme
  beta = beta
  f1 = f1
  f2 = f2
  f3 = f3
  s1 = s1
  s2 = s2
  Users <- MCUsers
  Companies <- MCCompanies
  CompaniesOf <- MCCompaniesOf
  Managers <- MCManagers
  LastDay = 2
  Expiries = {2, 9}
  Never = 9
  Window = 1
  MaxContracts = 2
  Faces <- MCFaces
  Distance <- MCDistance
  Threshold = 3
  Margin = 2
  Slots <- MCSlots
  MaxRequests = 4
INVARIANTS
  MirrorIsLatest
  
  OnlyReviewedFacesClock
SYMMETRY Symmetry
CHECK_DEADLOCK FALSE
