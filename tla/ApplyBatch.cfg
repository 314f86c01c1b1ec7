SPECIFICATION ApplySpec
CONSTANTS
  MaxLen = 4
  Kinds = {"dml", "ddl", "masked"}
INVARIANT ApplyIInv
INVARIANT AllOrNothing
INVARIANT LogIsHonest
PROPERTY ImplementsContract
CHECK_DEADLOCK FALSE
