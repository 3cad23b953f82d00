SPECIFICATION Spec
CONSTANTS
  Users = {u, v}
  PageSize = 1
  MaxPage = 2
  ExportMax = 3
  MaxRows = 3
  MaxTime = 2
  MaxClicks = 3
  NoUser = NoUser
CHECK_DEADLOCK FALSE
INVARIANT ExportHasItsPeriod
