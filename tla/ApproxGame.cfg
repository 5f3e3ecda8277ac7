\* An automatic player that stays and one that types, misbehaves or leaves.
SPECIFICATION Spec
CONSTANTS
  auto = auto
  other = other
  Player = {auto, other}
  NoOne = NoOne
  k = 1
  m = 2
  Poly <- TwoPolynomials
  Lowercase <- LowercaseOf
  MaxLines = 2
  Typed <- OnePut
  DISCONNECT_TIMEOUT = 1
  Mode <- ModeOf
  Steady = {auto}
INVARIANTS PutsCounted AutomaticNeverPenalised AutomaticStateExact
PROPERTIES NothingOwedAtTheEnd AutomaticAnswered
CHECK_DEADLOCK FALSE
