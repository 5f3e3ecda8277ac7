\* Inputs of at most two elements up to 4; three gates; two windows and four
\* customers; two binders; knights that fight in every way.
SPECIFICATION Spec
CONSTANTS
  D = 4
  MAX_D = 5
  MaxInput = 2
  Gate = {1, 2, 3}
  Arity <- Arities
  MaxQueried = 2
  Window = {1, 2}
  MaxCustomers = 4
  Binder = {1, 2}
  Key = {k1, k2}
  Value = {0, 1}
  Entrant <- Entrants
  MAX_GOLD = 5
  MaxPretenders = 4
INVARIANTS AgreesWithReference StackFits FindsGreatest LinksAgree EvaluationRight
PROPERTIES ImplementsQueues BindersApart NothingFromNothing
CHECK_DEADLOCK FALSE
