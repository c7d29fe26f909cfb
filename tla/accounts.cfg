SPECIFICATION Spec
CONSTANTS
  Users = {boss, ana, rui}
  Founders = {boss, ana}
  Links = {k1, k2}
  None = None
  Threads = {t1, t2, t3}
  ResetMinutes = 1
  MaxNow = 2
  MaxRequests = 3
  LeadIds = {l1, l2}
  Emails = {e1}
  DedupWindow = 1
SYMMETRY MCSymmetry
INVARIANTS
  TypeOK
  LinksLastUntilUsed
  StatusChangesAreAudited
  RepeatedLeadsAreRefused
  AssigneesAreTold
CHECK_DEADLOCK FALSE
