SPECIFICATION Spec
CONSTANTS
  App = App
  r1 = r1
  r2 = r2
  NULL = NULL
  SubRouters <- MCSubRouters
  Words = {"", "a", "as", "a."}
  Params = {":p", ":pq"}
  Begins <- MCBegins
  Unfit = {"as"}
  Reads <- MCReads
  Methods = {"GET", "POST"}
  RoutePaths <- MCRoutePaths
  MountPaths <- MCMountPaths
  RequestPaths <- MCRequests
  MaxRoutes = 2
SYMMETRY Sym
INVARIANTS
  TypeOK
  RoutedAsWritten
  ParamsAreTheRoutes
\* The application is at rest when its request is served.
CHECK_DEADLOCK FALSE
