\* Walks over the accounts while accounts are created.
CONSTANTS
  Ids = {1, 2, 3, 4, 5}
  Walkers = {w1}
  Takes <- MCTakes
  NoValue = NoValue
  MaxTake = 2
  Word = 16
SPECIFICATION Spec
INVARIANTS
  TypeOK
  NothingMissed
  RepeatsAreBounded
\* Every walk may be over and every account created: nothing is left to do.
CHECK_DEADLOCK FALSE
