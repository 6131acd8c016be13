SPECIFICATION Spec
CONSTANTS
  r1 = r1
  r2 = r2
  x = x
  y = y
  a1 = a1
  NoMap = NoMap
  Past = Past
  Runs = {r1, r2}
  Kind <- DailyAndZip
  Scope <- BothAndOne
  Dbs = {x, y}
  Agents = {a1}
  Large = {x}
  LargeSql = {}
  Parts = 2
  Stock = {"older", "old"}
INVARIANTS WholeObjects DoneIsStored AlwaysABackup OpenIsOwned
CHECK_DEADLOCK FALSE
