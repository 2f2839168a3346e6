SPECIFICATION Spec
CONSTANTS
  a = a
  b = b
  d = d
  docs = docs
  web = web
  query = query
  shell = shell
  gone = gone
  ToolLists <- Lists
  Alias <- Aliases
  Strange = "p_shell"
  MaxCalls = 3
  Pieces = 2
  Asked = {a, b, d}
  KindOf <- Kinds
  Concurrency = 2
  Timeout = 3
  MaxRetries = 2
  Pauses <- OneThenTwo
  Servers <- DocsAndWeb
  Tools = {query, shell, gone}
  Allowed <- Configured
  Published <- Listed
  Calls = {c1, c2, c3}
  Untracked = {c1, c2}
  Discovery = start
  Nobody = nobody
CHECK_DEADLOCK FALSE
INVARIANTS
  PlacesAndTimesKept
  TurnsAsSaid
  SessionsKept
