SPECIFICATION Spec
CONSTANT Keyboards <- ThreeKeyboards
INVARIANTS
  TypeOK
  CandidatesMatchHeld
  ReleasedKeysForgotten
PROPERTIES
  HotkeyFiresExactly
  SentKeysAreHeld
