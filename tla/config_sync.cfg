SPECIFICATION Spec
CONSTANTS
  f1 = f1
  t1 = t1
  t2 = t2
  m1 = m1
  m2 = m2
  Keyboards = {"k1", "k2"}
  Paths = {f1}
  Terminals = {t1, t2}
  Posts = {m1, m2}
  NoTerminal = NoTerminal
  MaxCommands = 2
SYMMETRY Alike
CHECK_DEADLOCK FALSE
INVARIANTS
  TypeOK
  PathsArePressed
  ConfigKept
PROPERTIES
  AddedOnBothSides
