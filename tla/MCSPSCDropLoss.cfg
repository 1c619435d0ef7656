\* drop_oldest_push against try_pop: what is lost and what is counted.
CONSTANTS
    Cap = 4
    MaxItems = 8
    MoveEmpties = TRUE

SPECIFICATION DropSpec
INVARIANTS
    LossCounted
