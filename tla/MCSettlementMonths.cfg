\* Overlapping runs, months in any order, late bookings.
CONSTANTS
    Runs = {r1, r2}
    Minimum = 2
    MaxMonth = 2
    MaxSale = 2
    MaxAdjustment = 1
    MaxPosted = 2
SPECIFICATION Spec
SYMMETRY RunSymmetry
INVARIANTS
    TypeOK
    BooksMatchStatements
    StatementsAreClosed
    PaidWhatIsOwed
PROPERTIES
    StatementsAreHistory
CHECK_DEADLOCK FALSE
