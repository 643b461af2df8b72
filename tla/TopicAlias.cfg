\* Three topics on one or two aliases; a Receive Maximum of two.
CONSTANTS
  N = 3
  Topics = {t1, t2, t3}
  NoTopic = NoTopic
  AliasMax = 2
  Maximum = 2
  Modes = {"manual", "map", "replace"}
  Rooms <- MCRooms
  MaxDowns = 1
SPECIFICATION Spec
INVARIANTS TablesAgree UnderstoodAsPublished StoredWithTopic
SYMMETRY Sym
CHECK_DEADLOCK FALSE
