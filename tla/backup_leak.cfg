SPECIFICATION Spec
CONSTANTS
  r1 = r1
  r2 = r2
  x = x
  y = y
  a1 = a1
  NoMap = NoMap
  Past = Past
  Runs = {r1, r2}
  Kind <- DailyAndSql
  Scope <- SameDb
  Dbs = {x, y}
  Agents = {}
  Large = {x}
  LargeSql = {}
  Parts = 2
  Stock = {"old"}
INVARIANT UploadIsClosed
CHECK_DEADLOCK FALSE
