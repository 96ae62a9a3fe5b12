SPECIFICATION OffersSpec
CONSTANTS
  None = None
  Changes = {k1, k2}
  Pages = {g1}
  MaxFetches = 2
  MaxBreaks = 1
  LastDay = 1
  DayLength = 10
  Minute = 2
  Windows <- MCWindows
  Durations = {2, 4}
  BusyTimes <- MCBusy
  MaxBusy = 2
  Clocks <- MCClocks
  Nows = {4}
  Appts = {a1, a2, a3}
  Bookings = {b1}
  MaxCancellations = 2
  WindowLength = 2
  Cooloff = 2
  MaxTime = 5
  Puts = {w1, w2}
  Lookups = {l1}
  WeekDays = {0, 1}
  LastDate = 2
  Hours = {h1, h2}
  StandardDays = {0}
  StandardHours = h1
  MaxRefreshes = 1
SYMMETRY OffersSymmetry
INVARIANTS
  OffersTypeOK PagesCatchUp OffersTheFreeSlots OffersAreAcceptable
  AdmittedOnlyUnderTheLimit RetryIsLateEnough HoursComeFromOnePut LastingDatesAreExcluded
CHECK_DEADLOCK FALSE
