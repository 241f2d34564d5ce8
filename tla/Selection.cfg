\* Three files in the folder or in the trash, one change by another program.
CONSTANTS
    ListedFiles = {1, 2, 3}
    MaxRowChanges = 1
SPECIFICATION SelectionSpec
CHECK_DEADLOCK FALSE
INVARIANTS
    RangeStaysInRows
