SPECIFICATION Spec
CONSTANTS
  c1 = c1
  c2 = c2
  o1 = o1
  o2 = o2
  x1 = x1
  Controller = {c1, c2}
  Order <- MCOrder
  Owner <- OfTheFirst
  Task <- OneTask
  Outsider = {x1}
  Kind <- Mixed
  Thread = {t1}
  Gateway = gateway
  MaxDaemons = 2
  MaxFiles = 2
INVARIANTS TypeOK PlansClear SnapshotsApart OneDaemon
PROPERTIES OneProviderPerTask
VIEW Asked
