SPECIFICATION Spec
CONSTANTS
  Cpfs = {cpf1, cpf2}
  Cnpjs = {cnpj1}
  None = None
  Clients = {c1, c2}
  Processes = {p1, p2}
  Notes = {n1, n2}
  Users = {ana, rui}
  Admins = {ana}
  Threads = {t1, t2}
  MaxWrites = 4
SYMMETRY MCSymmetry
INVARIANTS
  TypeOK
  DocumentsAreExclusive
  ErasureIsComplete
  ErasuresAreAudited
  ErasedCasesWereClosed
  LastMovementNamesTheStatus
  StatusChangesChain
CHECK_DEADLOCK FALSE
