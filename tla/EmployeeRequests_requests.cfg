CONSTANTS
  d1 = d1
  d2 = d2
  e1 = e1
  e2 = e2
  created = created
  c1 = c1
  mon = mon
  tue = tue
  Decisions <- TwoDecisions
  Edits <- TwoEdits
  OwnerEdits <- OneOwnerEdit
  Created <- created
  Cells <- OneCell
  Days <- TwoDays
  MaxCalls = 3
SPECIFICATION Spec
SYMMETRY Alike
INVARIANTS SheetShowsChanges EventsFollowDecisions 
CHECK_DEADLOCK FALSE
