SPECIFICATION Spec
CONSTANTS
  ann = ann
  web = web
  shop = shop
  pull = pull
  backup = backup
  req1 = req1
  req2 = req2
  NoRow = NoRow
  Users = {ann}
  Stages = {web}
  Existing <- Client
  Moves <- Join
  UnseenMoves <- AnyMove
  Workers = {req1}
  Flippable = {}
  Deletable = {}
  Unlinkable = {}
  Actions = {pull}
SYMMETRY Symmetry
INVARIANT NeverMisses
