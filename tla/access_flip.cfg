SPECIFICATION Spec
CONSTANTS
  ann = ann
  web = web
  shop = shop
  pull = pull
  backup = backup
  req1 = req1
  req2 = req2
  NoRow = NoRow
  Users = {ann}
  Stages = {web}
  Existing <- Normal
  Moves <- Join
  UnseenMoves <- None
  Workers = {req1}
  Flippable = {web}
  Deletable = {}
  Unlinkable = {}
  Actions = {pull}
SYMMETRY Symmetry
INVARIANT ClientIsOptIn
