SPECIFICATION Spec
CONSTANTS
  m1 = m1
  m2 = m2
  hourly = hourly
  m3 = m3
  bad = bad
  cron = cron
  Scope <- MCScope
  Job <- MCJob
  Schedule = {hourly, bad}
  Refused = {bad}
  Release = {m1, m2, m3}
  Offered <- MCOffered
  Interval <- MCInterval
  Jobs <- MCJobs
  Runner = {cron}
  Torn = Torn
  None = None
INVARIANTS
  EnabledIsFound
CONSTRAINT Apart
VIEW View
PROPERTIES
  TimersMatchRelease
  RetiredIsQuiet
  OnlyOwnTimers
  CardsTellWhatRan
