SPECIFICATION Spec
CONSTANTS
  Appointments = {a1, a2}
  Events = {e1, e2, e3}
  Users = {ana, rui}
  Admins = {ana}
  Contents = {before, after}
  Past = {before}
  None = None
  Threads = {t1, t2}
  MaxRequests = 4
SYMMETRY MCSymmetry
INVARIANTS
  TypeOK
  OneEventPerAppointment
  RemovalsReachTheCalendar
  SyncedRowsAreOnTheCalendar
  ReportsCountWhatIsMissing
CHECK_DEADLOCK FALSE
