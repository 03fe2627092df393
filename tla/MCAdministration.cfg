SPECIFICATION Spec
CONSTANTS
  Container = {c1}
  Restarter = {r1, r2}
  MaxRestarts = 3
  MaxServiceStops = 1
  Databases <- TwoDatabases
  Content = {"new", "old"}
  FirstContent = "new"
  Uploads <- Kept
  NoManifest = NoManifest
  Restorer = {b1, b2}
  MaxFailures = 2
  root = root
  ann = ann
  tom = tom
  pc = pc
  k1 = k1
  k2 = k2
  User = {root, ann, tom}
  Workstation = {pc}
  Classroom = {k1, k2}
  FirstAccounts <- Accounts1
  FirstAccess <- Access1
  Request = {q1, q2}
  Payload <- Bodies
  NoValue = NoValue
  Text = {"a", "A", "b", "c", "x"}
  Upper <- InUpperCase
  Malformed = {"x"}
  Layouts <- Classrooms
  Addresses <- RouterAddresses
  Subnet <- Hosts
  Slots = 2
  RequestTimeout = 1
  BatchTimeout = 3
  MaxRouterChanges = 1
  MaxExtras = 1
  NoRow = NoRow
  NoRouter = NoRouter
  NoWorker = NoWorker
INVARIANTS TypeOK OneRestartAtATime PacketsMatchResults
PROPERTIES StatusShowsRestarts RestoredIsWhole EffectsWereAuthorised RevokedStaysRevoked StatusesSettle
CHECK_DEADLOCK FALSE
