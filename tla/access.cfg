SPECIFICATION Spec
CONSTANTS
  ann = ann
  web = web
  shop = shop
  pull = pull
  backup = backup
  req1 = req1
  req2 = req2
  NoRow = NoRow
  Users = {ann}
  Stages = {web, shop}
  Existing <- OneOfEach
  Moves <- AnyMove
  UnseenMoves <- AnyMove
  Workers = {req1, req2}
  Flippable = {web}
  Deletable = {web, shop}
  Unlinkable = {ann}
  Actions = {pull}
SYMMETRY Symmetry
INVARIANT ShownIsAllowed
PROPERTY EnrolsWhatItRead
PROPERTY TogglesStick
PROPERTY DefaultsOfTheMoment
PROPERTY RefreshKeepsRights
