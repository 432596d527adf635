SPECIFICATION Spec
CONSTANTS
  auth = auth
  headers = headers
  gzip = gzip
  other = other
  access = access
  request = request
  response = response
  Plugins = {auth, headers, gzip, other}
  Known = {auth, headers, gzip}
  Steps = {access, request, response}
  StepsOf <- PluginSteps
  Request = request
  Response = response
  None = None
  Saved <- SavedRoutes
  Patterns <- PatternLists
  MaxPlugins = 3
  MaxEdits = 5
INVARIANT TypeOK
INVARIANT Mirror
INVARIANT DistinctUntilChurned
INVARIANT RunsAsShown
INVARIANT ReloadsAsShown
INVARIANT UnknownKeepsItsPlace
