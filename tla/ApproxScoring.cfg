\* Two players finish a game: the players cannot parse its SCORING.
SPECIFICATION Spec
CONSTANTS
  auto = auto
  other = other
  Player = {auto, other}
  NoOne = NoOne
  k = 1
  m = 2
  Poly <- TwoPolynomials
  Lowercase <- LowercaseOf
  MaxLines = 2
  Typed <- OnePut
  DISCONNECT_TIMEOUT = 1
  Mode <- ModeOf
  Steady = {auto}
INVARIANT ScoringAccepted
CHECK_DEADLOCK FALSE
