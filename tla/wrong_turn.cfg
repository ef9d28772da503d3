CONSTANTS
  Order <- MCOrder
  ann = ann
  ben = ben
  Me = ann
  Manages = TRUE
  Pool = {1, 2, 3}
  MaxChanges = 2
SPECIFICATION Spec
PROPERTIES TurnsAreSpentAsSaid
CHECK_DEADLOCK FALSE
