SPECIFICATION DashboardSpec
CONSTANTS
  a = a
  Jobs <- MCJobs
  TypeOf <- MCTypeOf
  NoData = NoData
  FirstRows <- MCFirstRows
  Followed = "queued"
  Chosen <- MCChosen
  MaxFetches = 2
  MaxChanges = 2
  MaxEvents = 1
INVARIANTS ListIsForItsFilters ShownIsCurrent NumberSettles
CHECK_DEADLOCK FALSE
