SPECIFICATION Spec
CONSTANTS
  ann = ann
  web = web
  shop = shop
  pull = pull
  backup = backup
  req1 = req1
  req2 = req2
  NoRow = NoRow
  Users = {ann}
  Stages = {web}
  Existing <- NewOnly
  Moves <- Join
  UnseenMoves <- None
  Workers = {req1, req2}
  Flippable = {}
  Deletable = {}
  Unlinkable = {}
  Actions = {pull}
SYMMETRY Symmetry
INVARIANT NeverMisses
