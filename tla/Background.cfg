SPECIFICATION FairSpec
INVARIANTS TypeOK NotedIsApplied LogsInOrder
PROPERTIES ConfigCatchesUp LogsLeave
CONSTANTS
  v1 = v1
  v2 = v2
  bad = bad
  own = own
  inherited = inherited
  s1 = s1
  s2 = s2
  Absent = Absent
  ErrorPage = ErrorPage
  ErrorJson = ErrorJson
  Default = Default
  Versions <- MCVersions
  Parsable <- MCParsable
  Fields = {own, inherited}
  Annotated = {own}
  Senders = {s1, s2}
  Loads <- MCLoads
  Watched = {1, 2, 3, 4}
CHECK_DEADLOCK FALSE
