SPECIFICATION ImportSpec
CONSTANTS
    RowsSeen <- MCRows
    MaxRows = 3
    Currency = "INR"
INVARIANTS
    BusinessIsNotCustomers
CHECK_DEADLOCK FALSE
