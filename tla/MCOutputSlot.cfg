SPECIFICATION SlotSpec
CONSTANTS
    Node <- N5
    Inputs <- Fork
    Retained = {5}
    OutputBytes <- Bytes5
    Owner = {4}
    Leasing = {2, 3, 4}
INVARIANTS
    SlotBooks
    InputStaysThere
    NothingKeptTooLong
CHECK_DEADLOCK FALSE
