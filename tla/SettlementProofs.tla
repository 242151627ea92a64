-------------------------- MODULE SettlementProofs ---------------------------
(***************************************************************************)
(* Theorems about Settlement, for any number of runs, months and amounts.  *)
(*                                                                         *)
(* The running sums of the ledger are defined by recursion.  What is said  *)
(* of them here for every month is derived from the least month at which   *)
(* it would fail (Least), which needs no induction rule.  The invariant    *)
(* Books is about every behaviour; Calm is what keeps payments right while *)
(* nothing has lapsed: one run at a time, over a month with nothing due    *)
(* before it and nothing settled after it.                                 *)
(***************************************************************************)
EXTENDS Settlement, WellFoundedInduction, TLAPS

-----------------------------------------------------------------------------
\* Running sums.

LEMMA Least ==
    ASSUME NEW T \in SUBSET Nat, T # {}
    PROVE  \E x \in T : \A y \in T : x <= y
<1>1. PICK x \in T : \A y \in T : ~ (<<y, x>> \in OpToRel(<, Nat))
    BY NatLessThanWellFounded, WFMin
<1>2. ASSUME NEW y \in T PROVE x <= y
    <2>1. <<y, x>> \in Nat \X Nat
        OBVIOUS
    <2>2. ~ (y < x)
        BY <1>1, <2>1 DEF OpToRel
    <2>3. y \in Nat /\ x \in Nat
        OBVIOUS
    <2> QED BY <2>2, <2>3
<1> QED BY <1>2

\* g holds the running sums of f up to month k.
IsSum(f, g, k) == g = [n \in 0..k |-> IF n = 0 THEN 0 ELSE g[n - 1] + f[n]]

LEMMA SumExists ==
    ASSUME NEW f \in [Month -> Int], NEW k \in 0..MaxMonth
    PROVE  \E g : IsSum(f, g, k)
<1> DEFINE Bad == {n \in 0..MaxMonth : ~ \E g : IsSum(f, g, n)}
<1> SUFFICES ASSUME Bad # {} PROVE FALSE
    OBVIOUS
<1>1. Bad \in SUBSET Nat
    BY BoundsAssumption
<1> HIDE DEF Bad
<1>2. PICK x \in Bad : \A y \in Bad : x <= y
    BY <1>1, Least
<1>3. x \in 0..MaxMonth /\ ~ \E g : IsSum(f, g, x)
    BY DEF Bad
<1>4. x # 0
    <2>1. IsSum(f, [n \in 0..0 |-> 0], 0)
        BY DEF IsSum
    <2> QED BY <1>3, <2>1
<1>5. PICK g : IsSum(f, g, x - 1)
    <2>1. x - 1 \in 0..MaxMonth /\ x - 1 \notin Bad
        BY <1>2, <1>3, <1>4, BoundsAssumption
    <2> QED BY <2>1 DEF Bad
<1> DEFINE h == [n \in 0..x |-> IF n = x THEN g[x - 1] + f[x] ELSE g[n]]
<1>6. \A n \in 0..x : h[n] = IF n = 0 THEN 0 ELSE h[n - 1] + f[n]
    BY <1>3, <1>4, <1>5, BoundsAssumption DEF IsSum
<1>7. IsSum(f, h, x)
    BY <1>6 DEF IsSum
<1> QED BY <1>3, <1>7

LEMMA ThroughStep ==
    ASSUME NEW f \in [Month -> Int]
    PROVE  \A m \in 0..MaxMonth :
               Through(f, m) = IF m = 0 THEN 0 ELSE Through(f, m - 1) + f[m]
<1> DEFINE s == CHOOSE g : g = [n \in 0..MaxMonth |-> IF n = 0 THEN 0 ELSE g[n - 1] + f[n]]
<1>1. \E g : g = [n \in 0..MaxMonth |-> IF n = 0 THEN 0 ELSE g[n - 1] + f[n]]
    <2>1. MaxMonth \in 0..MaxMonth
        BY BoundsAssumption
    <2>2. \E g : IsSum(f, g, MaxMonth)
        BY <2>1, SumExists
    <2> QED BY <2>2 DEF IsSum
<1>2. s = [n \in 0..MaxMonth |-> IF n = 0 THEN 0 ELSE s[n - 1] + f[n]]
    BY <1>1
<1>3. \A m \in 0..MaxMonth : Through(f, m) = s[m]
    BY DEF Through
<1> HIDE DEF s
<1>4. \A m \in 0..MaxMonth : s[m] = IF m = 0 THEN 0 ELSE s[m - 1] + f[m]
    BY <1>2
<1>5. \A m \in 0..MaxMonth : m # 0 => m - 1 \in 0..MaxMonth
    BY BoundsAssumption
<1> QED BY <1>3, <1>4, <1>5

LEMMA ThroughType ==
    ASSUME NEW f \in [Month -> Int], NEW m \in 0..MaxMonth
    PROVE  Through(f, m) \in Int
<1> DEFINE Bad == {n \in 0..MaxMonth : Through(f, n) \notin Int}
<1> SUFFICES ASSUME Bad # {} PROVE FALSE
    OBVIOUS
<1>1. Bad \in SUBSET Nat
    BY BoundsAssumption
<1> HIDE DEF Bad
<1>2. PICK x \in Bad : \A y \in Bad : x <= y
    BY <1>1, Least
<1>3. x \in 0..MaxMonth /\ Through(f, x) \notin Int
    BY DEF Bad
<1>4. x # 0 /\ Through(f, x) = Through(f, x - 1) + f[x]
    BY <1>3, ThroughStep
<1>5. x - 1 \in 0..MaxMonth /\ f[x] \in Int
    BY <1>3, <1>4, BoundsAssumption DEF Month
<1>6. x - 1 \notin Bad
    BY <1>2, <1>3, <1>5, BoundsAssumption
<1> QED BY <1>3, <1>4, <1>5, <1>6 DEF Bad

\* Changing the entry of one month changes the sums from that month on.
LEMMA ThroughChange ==
    ASSUME NEW f \in [Month -> Int], NEW g \in [Month -> Int], NEW k \in Month, NEW d \in Int,
           g[k] = f[k] + d, \A n \in Month \ {k} : g[n] = f[n], NEW m \in 0..MaxMonth
    PROVE  Through(g, m) = Through(f, m) + (IF k <= m THEN d ELSE 0)
<1> DEFINE Bad == {n \in 0..MaxMonth :
                      Through(g, n) # Through(f, n) + (IF k <= n THEN d ELSE 0)}
<1> SUFFICES ASSUME Bad # {} PROVE FALSE
    OBVIOUS
<1>1. Bad \in SUBSET Nat
    BY BoundsAssumption
<1> HIDE DEF Bad
<1>2. PICK x \in Bad : \A y \in Bad : x <= y
    BY <1>1, Least
<1>3. x \in 0..MaxMonth /\ Through(g, x) # Through(f, x) + (IF k <= x THEN d ELSE 0)
    BY DEF Bad
<1>4. x # 0
    <2>1. Through(f, 0) = 0 /\ Through(g, 0) = 0 /\ ~ k <= 0
        BY ThroughStep, BoundsAssumption DEF Month
    <2> QED BY <1>3, <2>1
<1>5. x \in Month /\ x - 1 \in 0..MaxMonth
    BY <1>3, <1>4, BoundsAssumption DEF Month
<1>6. Through(f, x) = Through(f, x - 1) + f[x] /\ Through(g, x) = Through(g, x - 1) + g[x]
    BY <1>3, <1>4, ThroughStep
<1>7. Through(g, x - 1) = Through(f, x - 1) + (IF k <= x - 1 THEN d ELSE 0)
    <2>1. x - 1 \notin Bad
        BY <1>2, <1>3, <1>5, BoundsAssumption
    <2> QED BY <1>5, <2>1 DEF Bad
<1>8. Through(f, x - 1) \in Int /\ f[x] \in Int /\ k \in Int /\ x \in Int
    BY <1>5, ThroughType, BoundsAssumption DEF Month
<1>9. CASE x = k
    BY <1>3, <1>6, <1>7, <1>8, <1>9
<1>10. CASE x # k
    <2>1. g[x] = f[x] /\ (k <= x <=> k <= x - 1)
        BY <1>5, <1>8, <1>10
    <2> QED BY <1>3, <1>6, <1>7, <1>8, <2>1
<1> QED BY <1>9, <1>10

LEMMA ThroughPosted ==
    ASSUME NEW f \in [Month -> Int], NEW k \in Month, NEW d \in Int, NEW m \in Month
    PROVE  /\ Through([f EXCEPT ![k] = @ + d], m) = Through(f, m) + (IF k <= m THEN d ELSE 0)
           /\ ~ k <= m => Through([f EXCEPT ![k] = @ + d], m) = Through(f, m)
<1> DEFINE g == [f EXCEPT ![k] = @ + d]
<1>1. f[k] \in Int
    OBVIOUS
<1>2. g \in [Month -> Int]
    BY <1>1
<1>3. g[k] = f[k] + d /\ \A n \in Month \ {k} : g[n] = f[n]
    OBVIOUS
<1>4. m \in 0..MaxMonth
    BY BoundsAssumption DEF Month
<1> HIDE DEF g
<1>5. Through(g, m) = Through(f, m) + (IF k <= m THEN d ELSE 0)
    BY <1>2, <1>3, <1>4, ThroughChange
<1>6. Through(f, m) \in Int
    BY <1>4, ThroughType
<1> QED BY <1>5, <1>6 DEF g

-----------------------------------------------------------------------------
\* Every behaviour.

StatementType == [status : Status, balance : Int, movement : Int, net : Nat]
RunType == [month : 0..MaxMonth, balance : Int, movement : Int]
BookingType == [month : 0..MaxMonth, sale : Nat, correction : Int]

\* What is in flight belongs to a month that is not in the future; while no
\* booking was late, to the open one, and a run holds what its month still has.
Timely ==
    /\ booking # NoBooking => booking.month \in Month /\ booking.month <= month
    /\ booking # NoBooking /\ "late" \notin lapses => booking.month = month
    /\ \A r \in Runs : run[r] # NoRun =>
          /\ run[r].month \in Month /\ run[r].month < month
          /\ "late" \notin lapses => run[r].movement = Movement(run[r].month)

Books == TypeOK /\ Timely /\ BooksMatchStatements /\ StatementsAreClosed

LEMMA Nothing ==
    /\ NoStatement \in StatementType /\ NoRun \in RunType /\ NoBooking \in BookingType
    /\ NoStatement.status = "NONE" /\ NoStatement.net = 0
    /\ NoBooking.month = 0 /\ NoRun.month = 0
BY BoundsAssumption DEF NoStatement, NoRun, NoBooking, StatementType, RunType, BookingType, Status

LEMMA Fields ==
    ASSUME TypeOK
    PROVE  /\ statement \in [Month -> StatementType]
           /\ \A m \in Month : /\ statement[m].status \in Status /\ statement[m].net \in Nat
                               /\ statement[m].balance \in Int /\ statement[m].movement \in Int
           /\ run \in [Runs -> RunType]
           /\ \A r \in Runs : /\ run[r].month \in 0..MaxMonth /\ run[r].balance \in Int
                              /\ run[r].movement \in Int
           /\ booking \in BookingType /\ booking.sale \in Nat /\ booking.correction \in Int
           /\ earned \in [Month -> Int] /\ adjusted \in [Month -> Int] /\ paid \in [Month -> Int]
           /\ month \in Nat /\ \A m \in Month : m \in Nat
<1>1. /\ statement \in [Month -> StatementType]
      /\ \A m \in Month : /\ statement[m].status \in Status /\ statement[m].net \in Nat
                          /\ statement[m].balance \in Int /\ statement[m].movement \in Int
    BY DEF TypeOK, StatementType
<1>2. /\ run \in [Runs -> RunType]
      /\ \A r \in Runs : /\ run[r].month \in 0..MaxMonth /\ run[r].balance \in Int
                         /\ run[r].movement \in Int
    BY DEF TypeOK, RunType
<1>3. booking \in BookingType /\ booking.sale \in Nat /\ booking.correction \in Int
    BY DEF TypeOK, BookingType
<1>4. earned \in [Month -> Int] /\ adjusted \in [Month -> Int] /\ paid \in [Month -> Int]
    BY DEF TypeOK
<1>5. month \in Nat /\ \A m \in Month : m \in Nat
    BY BoundsAssumption DEF TypeOK, Month
<1> QED BY <1>1, <1>2, <1>3, <1>4, <1>5

LEMMA BalanceType ==
    ASSUME TypeOK, NEW m \in Month
    PROVE  /\ Balance(m) \in Int /\ Movement(m) \in Int
           /\ Through(earned, m) \in Int /\ Through(adjusted, m) \in Int /\ Through(paid, m) \in Int
<1>1. m \in 0..MaxMonth
    BY BoundsAssumption DEF Month
<1>2. Through(earned, m) \in Int /\ Through(adjusted, m) \in Int /\ Through(paid, m) \in Int
    BY <1>1, Fields, ThroughType
<1>3. earned[m] \in Int /\ adjusted[m] \in Int
    BY Fields
<1> QED BY <1>2, <1>3 DEF Balance, Movement

\* A write of the status alone.
Restated(m, status) ==
    /\ statement'[m].status = status /\ statement'[m].net = statement[m].net
    /\ statement'[m].balance = statement[m].balance
    /\ statement'[m].movement = statement[m].movement
    /\ \A q \in Month \ {m} : statement'[q] = statement[q]

LEMMA Restate ==
    ASSUME TypeOK, NEW m \in Month, NEW status \in Status,
           statement' = [statement EXCEPT ![m].status = status]
    PROVE  statement' \in [Month -> StatementType] /\ Restated(m, status)
<1>1. statement \in [Month -> StatementType] /\ statement[m] \in StatementType
    BY Fields
<1>2. statement' = [statement EXCEPT ![m] = [statement[m] EXCEPT !.status = status]]
    BY <1>1
<1>3. [statement[m] EXCEPT !.status = status] \in StatementType
    BY <1>1 DEF StatementType
<1> QED BY <1>1, <1>2, <1>3 DEF Restated, StatementType

LEMMA BooksInit == Init => Books
<1> SUFFICES ASSUME Init PROVE Books
    OBVIOUS
<1>1. TypeOK
    <2>1. statement \in [Month -> StatementType] /\ run \in [Runs -> RunType]
          /\ booking \in BookingType
        BY Nothing DEF Init
    <2>2. month \in 1..MaxMonth + 1
        BY BoundsAssumption DEF Init
    <2>3. /\ earned \in [Month -> Nat] /\ adjusted \in [Month -> Int] /\ paid \in [Month -> Nat]
          /\ lapses \subseteq Lapse
        BY DEF Init
    <2> QED BY <2>1, <2>2, <2>3 DEF TypeOK, StatementType, RunType, BookingType
<1>2. Timely
    BY DEF Init, Timely
<1>3. BooksMatchStatements /\ StatementsAreClosed
    BY Nothing DEF Init, BooksMatchStatements, StatementsAreClosed
<1> QED BY <1>1, <1>2, <1>3 DEF Books

LEMMA TypeNext == ASSUME Books, [Next]_vars PROVE TypeOK'
<1>1. TypeOK /\ Timely
    BY DEF Books
<1>2. ASSUME NEW share \in 1..MaxSale, Sell(share) PROVE TypeOK'
    <2>1. booking' = [month |-> month, sale |-> share, correction |-> 0]
        BY <1>2 DEF Sell, NoBooking
    <2>2. booking' \in BookingType
        BY <1>2, <2>1, BoundsAssumption DEF Sell, BookingType, Month
    <2> QED BY <1>1, <1>2, <2>2 DEF Sell, TypeOK, BookingType
<1>3. ASSUME NEW amount \in Int, Adjust(amount) PROVE TypeOK'
    <2>1. booking' = [month |-> month, sale |-> 0, correction |-> amount]
        BY <1>3 DEF Adjust, NoBooking
    <2>2. booking' \in BookingType
        BY <1>3, <2>1, BoundsAssumption DEF Adjust, BookingType, Month
    <2> QED BY <1>1, <1>3, <2>2 DEF Adjust, TypeOK, BookingType
<1>4. CASE Post
    <2>1. /\ earned' = [earned EXCEPT ![booking.month] = @ + booking.sale]
          /\ adjusted' = [adjusted EXCEPT ![booking.month] = @ + booking.correction]
          /\ booking' \in BookingType /\ UNCHANGED <<month, paid, statement, run, lapses>>
        BY <1>4, Nothing DEF Post
    <2>2. booking.sale \in Nat /\ booking.correction \in Int
        BY <1>1, Fields
    <2>3. earned' \in [Month -> Nat] /\ adjusted' \in [Month -> Int]
        <3>1. earned \in [Month -> Nat] /\ adjusted \in [Month -> Int]
            BY <1>1 DEF TypeOK
        <3>2. booking.month \in Month
            BY <1>1, <1>4 DEF Post, Timely
        <3>3. /\ earned[booking.month] + booking.sale \in Nat
              /\ adjusted[booking.month] + booking.correction \in Int
            BY <2>2, <3>1, <3>2
        <3>4. /\ earned' = [earned EXCEPT ![booking.month] =
                               earned[booking.month] + booking.sale]
              /\ adjusted' = [adjusted EXCEPT ![booking.month] =
                               adjusted[booking.month] + booking.correction]
            BY <2>1
        <3> QED BY <3>1, <3>2, <3>3, <3>4
    <2>4. month \in 1..MaxMonth + 1 /\ paid \in [Month -> Nat] /\ lapses \subseteq Lapse
        BY <1>1 DEF TypeOK
    <2>5. statement \in [Month -> StatementType] /\ run \in [Runs -> RunType]
        BY <1>1, Fields
    <2> QED BY <2>1, <2>3, <2>4, <2>5 DEF TypeOK, StatementType, RunType, BookingType
<1>5. CASE RollBack
    BY <1>1, <1>5, Nothing DEF RollBack, TypeOK, BookingType
<1>6. CASE CloseMonth
    <2>1. month' \in 1..MaxMonth + 1
        BY <1>6, BoundsAssumption DEF CloseMonth, Month
    <2>2. lapses' \subseteq Lapse
        BY <1>1, <1>6 DEF CloseMonth, TypeOK, Lapse
    <2> QED BY <1>1, <1>6, <2>1, <2>2 DEF CloseMonth, TypeOK
<1>7. ASSUME NEW r \in Runs, NEW m \in Month, BeginGenerate(r, m) PROVE TypeOK'
    <2>1. [month |-> m, balance |-> Balance(m), movement |-> Movement(m)] \in RunType
        BY <1>1, BalanceType, BoundsAssumption DEF RunType, Month
    <2>2. run' \in [Runs -> RunType]
        BY <1>1, <1>7, <2>1, Fields DEF BeginGenerate
    <2>3. lapses' \subseteq Lapse
        BY <1>1, <1>7 DEF BeginGenerate, LapsesOf, TypeOK, Lapse
    <2> QED BY <1>1, <1>7, <2>2, <2>3 DEF BeginGenerate, TypeOK, RunType
<1>8. ASSUME NEW r \in Runs, Issue(r) PROVE TypeOK'
    <2> DEFINE g == run[r]
               pay == Payable(g.balance)
               new == [status   |-> IF pay THEN "PENDING" ELSE "CARRIED_FORWARD",
                       balance  |-> g.balance, movement |-> g.movement,
                       net      |-> IF pay THEN g.balance ELSE 0]
    <2>1. g.balance \in Int /\ g.movement \in Int
        BY <1>1, Fields
    <2>2. pay => g.balance \in Nat
        BY <2>1 DEF Payable
    <2>3. new \in StatementType
        BY <2>1, <2>2 DEF StatementType, Status
    <2>4. /\ statement' = [statement EXCEPT ![g.month] = new]
          /\ run' = [run EXCEPT ![r] = NoRun]
          /\ UNCHANGED <<month, earned, adjusted, paid, booking, lapses>>
        BY <1>8 DEF Issue
    <2> HIDE DEF new, pay, g
    <2>5. statement' \in [Month -> StatementType] /\ run' \in [Runs -> RunType]
        BY <1>1, <2>3, <2>4, Fields, Nothing
    <2> QED BY <1>1, <2>4, <2>5 DEF TypeOK, StatementType, RunType
<1>9. ASSUME NEW r \in Runs, Skip(r) PROVE TypeOK'
    <2>1. run' \in [Runs -> RunType]
        BY <1>1, <1>9, Fields, Nothing DEF Skip
    <2> QED BY <1>1, <1>9, <2>1 DEF Skip, TypeOK, RunType
<1>10. ASSUME NEW m \in Month, Approve(m) \/ Cancel(m) PROVE TypeOK'
    <2>1. statement' \in [Month -> StatementType]
        BY <1>1, <1>10, Restate DEF Approve, Cancel, Status
    <2> QED BY <1>1, <1>10, <2>1 DEF Approve, Cancel, TypeOK, StatementType
<1>11. ASSUME NEW m \in Month, Pay(m) PROVE TypeOK'
    <2>1. statement' \in [Month -> StatementType]
        BY <1>1, <1>11, Restate DEF Pay, Status
    <2>2. paid' \in [Month -> Nat]
        <3>1. paid' = [paid EXCEPT ![m] = @ + statement[m].net]
            BY <1>11 DEF Pay
        <3>2. statement[m].net \in Nat
            BY <1>1, Fields
        <3> QED BY <1>1, <3>1, <3>2 DEF TypeOK
    <2> QED BY <1>1, <1>11, <2>1, <2>2 DEF Pay, TypeOK, StatementType
<1>12. CASE UNCHANGED vars
    BY <1>1, <1>12 DEF vars, TypeOK
<1>13. ((-MaxAdjustment)..MaxAdjustment) \ {0} \subseteq Int
    BY BoundsAssumption
<1> QED BY <1>2, <1>3, <1>4, <1>5, <1>6, <1>7, <1>8, <1>9, <1>10, <1>11, <1>12, <1>13 DEF Next

\* No booking changes what moved in a month that is over, unless it was late.
LEMMA ClosedMovement ==
    ASSUME Books, Post, NEW m \in Month, "late" \notin lapses, m < month
    PROVE  Movement(m)' = Movement(m) /\ UNCHANGED <<earned[m], adjusted[m]>>
<1>1. booking.month = month /\ booking.month # m
    BY Fields DEF Books, Post, Timely
<1>2. /\ earned' = [earned EXCEPT ![booking.month] = @ + booking.sale]
      /\ adjusted' = [adjusted EXCEPT ![booking.month] = @ + booking.correction]
      /\ earned \in [Month -> Int] /\ adjusted \in [Month -> Int]
    BY Fields DEF Post, Books
<1>3. earned'[m] = earned[m] /\ adjusted'[m] = adjusted[m]
    BY <1>1, <1>2
<1> QED BY <1>3 DEF Movement

LEMMA TimelyNext == ASSUME Books, [Next]_vars PROVE Timely'
<1>1. TypeOK /\ Timely /\ month \in Nat
    BY Fields DEF Books
<1>2. ASSUME NEW share, Sell(share) PROVE Timely'
    BY <1>1, <1>2 DEF Sell, NoBooking, Timely, Movement
<1>3. ASSUME NEW amount, Adjust(amount) PROVE Timely'
    BY <1>1, <1>3 DEF Adjust, NoBooking, Timely, Movement
<1>4. CASE Post
    <2>1. booking' = NoBooking /\ UNCHANGED <<month, run, lapses>>
        BY <1>4 DEF Post
    <2>2. ASSUME NEW m \in Month, m < month, "late" \notin lapses
          PROVE  earned'[m] + adjusted'[m] = earned[m] + adjusted[m]
        BY <1>4, <2>2, ClosedMovement
    <2>3. ASSUME NEW r \in Runs, run[r] # NoRun, "late" \notin lapses
          PROVE  run[r].movement = earned'[run[r].month] + adjusted'[run[r].month]
        BY <1>1, <2>2, <2>3 DEF Timely, Movement
    <2> QED BY <1>1, <2>1, <2>3 DEF Timely, Movement
<1>5. CASE RollBack
    BY <1>1, <1>5 DEF RollBack, Timely, Movement
<1>6. CASE CloseMonth
    <2>1. /\ month' = month + 1 /\ UNCHANGED <<run, booking, earned, adjusted>>
          /\ lapses \subseteq lapses' /\ (booking # NoBooking => "late" \in lapses')
        BY <1>6 DEF CloseMonth
    <2>2. \A m \in Month : m <= month \/ m < month => m <= month' /\ m < month'
        BY <1>1, <2>1, Fields
    <2> QED BY <1>1, <2>1, <2>2 DEF Timely, Movement
<1>7. ASSUME NEW r \in Runs, NEW m \in Month, BeginGenerate(r, m) PROVE Timely'
    <2>1. /\ run' = [run EXCEPT ![r] = [month |-> m, balance |-> Balance(m),
                                        movement |-> Movement(m)]]
          /\ UNCHANGED <<month, earned, adjusted, booking>> /\ lapses \subseteq lapses'
          /\ m < month
        BY <1>7 DEF BeginGenerate, Closed
    <2>2. run'[r].month = m /\ run'[r].movement = Movement(m)
        BY <1>1, <2>1, Fields
    <2>3. \A s \in Runs \ {r} : run'[s] = run[s]
        BY <1>1, <2>1, Fields
    <2> QED BY <1>1, <2>1, <2>2, <2>3 DEF Timely, Movement
<1>8. ASSUME NEW r \in Runs, Issue(r) \/ Skip(r) PROVE Timely'
    <2>1. run' = [run EXCEPT ![r] = NoRun] /\ UNCHANGED <<month, earned, adjusted, booking, lapses>>
        BY <1>8 DEF Issue, Skip
    <2>2. \A s \in Runs : run'[s] = NoRun \/ run'[s] = run[s]
        BY <1>1, <2>1, Fields
    <2> QED BY <1>1, <2>1, <2>2 DEF Timely, Movement
<1>9. ASSUME NEW m \in Month, Approve(m) \/ Pay(m) \/ Cancel(m) PROVE Timely'
    BY <1>1, <1>9 DEF Approve, Pay, Cancel, Timely, Movement
<1>10. CASE UNCHANGED vars
    BY <1>1, <1>10 DEF vars, Timely, Movement
<1> QED BY <1>2, <1>3, <1>4, <1>5, <1>6, <1>7, <1>8, <1>9, <1>10 DEF Next

\* What an issued statement says, in each of its states.
LEMMA Issued ==
    ASSUME Books, NEW r \in Runs, Issue(r)
    PROVE  LET m == run[r].month IN
           /\ m \in Month /\ m < month /\ statement[m].status = "NONE"
           /\ \A q \in Month \ {m} : statement'[q] = statement[q]
           /\ statement'[m].balance = run[r].balance
           /\ statement'[m].movement = run[r].movement
           /\ \/ /\ statement'[m].status = "PENDING" /\ statement'[m].net = run[r].balance
                 /\ statement'[m].net > 0
              \/ statement'[m].status = "CARRIED_FORWARD" /\ statement'[m].net = 0
<1> DEFINE m == run[r].month
<1>1. m \in Month /\ m < month /\ statement[m].status = "NONE"
    BY DEF Issue, MayIssue, Books, Timely
<1>2. statement \in [Month -> StatementType] /\ run[r].balance \in Int
    BY Fields DEF Books
<1>3. statement' = [statement EXCEPT ![m] =
          [status   |-> IF Payable(run[r].balance) THEN "PENDING" ELSE "CARRIED_FORWARD",
           balance  |-> run[r].balance,
           movement |-> run[r].movement,
           net      |-> IF Payable(run[r].balance) THEN run[r].balance ELSE 0]]
    BY DEF Issue
<1>4. Payable(run[r].balance) => run[r].balance > 0
    BY DEF Payable
<1> HIDE DEF m
<1>5. \A q \in Month \ {m} : statement'[q] = statement[q]
    BY <1>2, <1>3
<1>6. statement'[m] =
          [status   |-> IF Payable(run[r].balance) THEN "PENDING" ELSE "CARRIED_FORWARD",
           balance  |-> run[r].balance,
           movement |-> run[r].movement,
           net      |-> IF Payable(run[r].balance) THEN run[r].balance ELSE 0]
    BY <1>1, <1>2, <1>3
<1> QED BY <1>1, <1>4, <1>5, <1>6 DEF m

LEMMA MatchNext == ASSUME Books, [Next]_vars PROVE BooksMatchStatements'
<1>1. TypeOK /\ BooksMatchStatements
    BY DEF Books
<1>2. ASSUME NEW r \in Runs, Issue(r) PROVE BooksMatchStatements'
    <2>1. paid' = paid
        BY <1>2 DEF Issue
    <2> QED BY <1>1, <1>2, <2>1, Issued DEF BooksMatchStatements
<1>3. ASSUME NEW m \in Month, Approve(m) PROVE BooksMatchStatements'
    <2>1. Restated(m, "APPROVED") /\ paid' = paid
        BY <1>1, <1>3, Restate DEF Approve, Status
    <2>2. statement[m].status = "PENDING" /\ statement[m].net > 0
        BY <1>3 DEF Approve
    <2> QED BY <1>1, <2>1, <2>2 DEF BooksMatchStatements, Restated
<1>4. ASSUME NEW m \in Month, Cancel(m) PROVE BooksMatchStatements'
    <2>1. Restated(m, "CANCELLED") /\ paid' = paid
        BY <1>1, <1>4, Restate DEF Cancel, Status
    <2>2. statement[m].status # "PAID"
        BY <1>4 DEF Cancel
    <2> QED BY <1>1, <2>1, <2>2 DEF BooksMatchStatements, Restated
<1>5. ASSUME NEW m \in Month, Pay(m) PROVE BooksMatchStatements'
    <2>1. Restated(m, "PAID")
        BY <1>1, <1>5, Restate DEF Pay, Status
    <2>2. /\ statement[m].status = "APPROVED" /\ statement[m].net > 0
          /\ paid' = [paid EXCEPT ![m] = @ + statement[m].net]
        BY <1>5 DEF Pay
    <2>3. paid[m] = 0 /\ paid \in [Month -> Int] /\ statement[m].net \in Nat
        BY <1>1, <2>2, Fields DEF BooksMatchStatements
    <2>4. paid'[m] = statement[m].net /\ \A q \in Month \ {m} : paid'[q] = paid[q]
        BY <2>2, <2>3
    <2> QED BY <1>1, <2>1, <2>2, <2>4 DEF BooksMatchStatements, Restated
<1>6. ASSUME UNCHANGED <<paid, statement>> PROVE BooksMatchStatements'
    BY <1>1, <1>6 DEF BooksMatchStatements
<1>7. \/ UNCHANGED <<paid, statement>>
      \/ \E r \in Runs : Issue(r)
      \/ \E m \in Month : Approve(m) \/ Pay(m) \/ Cancel(m)
    BY DEF Next, Sell, Adjust, Post, RollBack, CloseMonth, BeginGenerate, Skip, vars
<1> QED BY <1>2, <1>3, <1>4, <1>5, <1>6, <1>7

LEMMA ClosedNext == ASSUME Books, [Next]_vars PROVE StatementsAreClosed'
<1>1. TypeOK /\ StatementsAreClosed /\ Timely /\ month \in Nat
    BY Fields DEF Books
<1>2. ASSUME NEW r \in Runs, Issue(r) PROVE StatementsAreClosed'
    <2>1. UNCHANGED <<month, earned, adjusted, lapses>> /\ run[r] # NoRun
        BY <1>2 DEF Issue
    <2>2. "late" \notin lapses => run[r].movement = Movement(run[r].month)
        BY <1>1, <2>1 DEF Timely
    <2> QED BY <1>1, <1>2, <2>1, <2>2, Issued DEF StatementsAreClosed, Movement
<1>3. ASSUME NEW m \in Month, Approve(m) \/ Pay(m) \/ Cancel(m) PROVE StatementsAreClosed'
    <2>1. /\ UNCHANGED <<month, earned, adjusted, lapses>>
          /\ statement[m].status # "NONE"
        BY <1>3 DEF Approve, Pay, Cancel
    <2>2. PICK status \in Status : statement' = [statement EXCEPT ![m].status = status]
        BY <1>3 DEF Approve, Pay, Cancel, Status
    <2>3. Restated(m, status)
        BY <1>1, <2>2, Restate
    <2> QED BY <1>1, <2>1, <2>3 DEF StatementsAreClosed, Movement, Restated
<1>4. CASE Post
    BY <1>1, <1>4, ClosedMovement DEF StatementsAreClosed, Post
<1>5. CASE CloseMonth
    <2>1. /\ month' = month + 1 /\ UNCHANGED <<statement, earned, adjusted>>
          /\ lapses \subseteq lapses'
        BY <1>5 DEF CloseMonth
    <2>2. \A m \in Month : m < month => m < month'
        BY <1>1, <2>1, Fields
    <2> QED BY <1>1, <2>1, <2>2 DEF StatementsAreClosed, Movement
<1>6. ASSUME UNCHANGED <<month, statement, earned, adjusted>>, lapses \subseteq lapses'
      PROVE  StatementsAreClosed'
    BY <1>1, <1>6 DEF StatementsAreClosed, Movement
<1>7. \/ UNCHANGED <<month, statement, earned, adjusted>> /\ lapses \subseteq lapses'
      \/ \E r \in Runs : Issue(r)
      \/ \E m \in Month : Approve(m) \/ Pay(m) \/ Cancel(m)
      \/ Post \/ CloseMonth
    BY DEF Next, Sell, Adjust, RollBack, BeginGenerate, Skip, vars
<1> QED BY <1>2, <1>3, <1>4, <1>5, <1>6, <1>7

LEMMA BooksNext == Books /\ [Next]_vars => Books'
BY TypeNext, TimelyNext, MatchNext, ClosedNext DEF Books

\* Types, dates and sums hold together: each needs the others to be inductive.
THEOREM Invariance == Spec => []Books
BY BooksInit, BooksNext, PTL DEF Spec

\* Every variable of settlement keeps its type: a balance is an integer for any
\* months and amounts, and what is paid is never negative.
THEOREM TypeCorrect == Spec => []TypeOK
<1>1. Books => TypeOK
    BY DEF Books
<1> QED BY <1>1, Invariance, PTL

\* markSettlementPaid posts a payout exactly for the statements it stamps, once
\* each and for the amount frozen on them.
THEOREM MatchCorrect == Spec => []BooksMatchStatements
<1>1. Books => BooksMatchStatements
    BY DEF Books
<1> QED BY <1>1, Invariance, PTL

\* generateSettlements only tells of months that are over, and what it told
\* stays true unless a booking was late.
THEOREM ClosedCorrect == Spec => []StatementsAreClosed
<1>1. Books => StatementsAreClosed
    BY DEF Books
<1> QED BY <1>1, Invariance, PTL

\* No step rewrites a statement, issues it again, or undoes its end.
THEOREM HistoryCorrect == Spec => StatementsAreHistory
<1> DEFINE Kept(m) ==
             /\ statement[m].status # "NONE" =>
                   /\ statement'[m].net = statement[m].net
                   /\ statement'[m].balance = statement[m].balance
                   /\ statement'[m].status # "NONE"
             /\ statement[m].status \in {"PAID", "CANCELLED"} =>
                   /\ statement'[m].status = statement[m].status
                   /\ paid'[m] = paid[m]
<1>1. ASSUME Books, [Next]_vars, NEW q \in Month PROVE Kept(q)
    <2>1. TypeOK
        BY <1>1 DEF Books
    <2>2. ASSUME NEW r \in Runs, Issue(r) PROVE Kept(q)
        <3>1. paid' = paid
            BY <2>2 DEF Issue
        <3> QED BY <1>1, <2>2, <3>1, Issued
    <2>3. ASSUME NEW m \in Month, Approve(m) \/ Cancel(m) PROVE Kept(q)
        <3>1. /\ paid' = paid /\ statement[m].status \notin {"PAID", "CANCELLED"}
              /\ \E status \in Status \ {"NONE"} :
                    statement' = [statement EXCEPT ![m].status = status]
            BY <2>3 DEF Approve, Cancel, Status
        <3>2. PICK status \in Status \ {"NONE"} : Restated(m, status)
            BY <2>1, <3>1, Restate
        <3> QED BY <3>1, <3>2 DEF Restated
    <2>4. ASSUME NEW m \in Month, Pay(m) PROVE Kept(q)
        <3>1. /\ statement[m].status \notin {"PAID", "CANCELLED"}
              /\ paid' = [paid EXCEPT ![m] = @ + statement[m].net]
              /\ statement' = [statement EXCEPT ![m].status = "PAID"]
            BY <2>4 DEF Pay
        <3>2. Restated(m, "PAID") /\ paid \in [Month -> Int]
            BY <2>1, <3>1, Restate, Fields DEF Status
        <3> QED BY <3>1, <3>2 DEF Restated
    <2>5. CASE UNCHANGED <<paid, statement>>
        BY <2>5
    <2>6. \/ UNCHANGED <<paid, statement>>
          \/ \E r \in Runs : Issue(r)
          \/ \E m \in Month : Approve(m) \/ Pay(m) \/ Cancel(m)
        BY <1>1 DEF Next, Sell, Adjust, Post, RollBack, CloseMonth, BeginGenerate, Skip, vars
    <2> QED BY <2>2, <2>3, <2>4, <2>5, <2>6
<1>2. Books /\ [Next]_vars => [\A m \in Month : Kept(m)]_vars
    BY <1>1
<1> QED BY <1>2, Invariance, PTL DEF Spec, StatementsAreHistory

-----------------------------------------------------------------------------
\* While nothing has lapsed.

Due == {"PENDING", "APPROVED"}

\* One run at a time, with nothing due before its month and nothing settled
\* after it; what is due is what the ledger owes.
Calm ==
    /\ \A r, s \in Runs : run[r] # NoRun /\ run[s] # NoRun => r = s
    /\ \A r \in Runs, m \in Month : run[r] # NoRun /\ run[r].month = m =>
          /\ \A q \in Month : q < m => statement[q].status \notin Due
          /\ \A q \in Month : m < q => statement[q].status \in {"NONE", "CANCELLED"}
          /\ statement[m].status = "NONE" => run[r].balance = Balance(m)
    /\ \A m \in Month : statement[m].status \in Due => statement[m].net = Balance(m)
    /\ \A m, q \in Month : statement[m].status \in Due \cup {"PAID"} /\ q < m =>
          statement[q].status \notin Due
    /\ Settled

\* What a step leaves of the ledger leaves the balances.
LEMMA SameSums ==
    ASSUME UNCHANGED <<earned, adjusted, paid>>, NEW m \in Month
    PROVE  /\ Balance(m)' = Balance(m) /\ Through(paid, m)' = Through(paid, m)
           /\ Through(earned, m)' = Through(earned, m)
           /\ Through(adjusted, m)' = Through(adjusted, m)
BY DEF Balance, Through

\* A booking that is not late leaves the sums of the months that are over.
LEMMA PostedSums ==
    ASSUME Books, Post, "late" \notin lapses, NEW m \in Month, m < month
    PROVE  /\ Balance(m)' = Balance(m) /\ Through(paid, m)' = Through(paid, m)
           /\ Through(earned, m)' = Through(earned, m)
           /\ Through(adjusted, m)' = Through(adjusted, m)
<1>1. booking.month = month /\ month \in Month /\ paid' = paid /\ TypeOK
    BY DEF Books, Post, Timely
<1>2. PICK k \in Month : k = month
    BY <1>1
<1>3. PICK sale \in Int, correction \in Int : sale = booking.sale /\ correction = booking.correction
    BY <1>1, Fields
<1>4. /\ earned' = [earned EXCEPT ![k] = @ + sale]
      /\ adjusted' = [adjusted EXCEPT ![k] = @ + correction]
    BY <1>1, <1>2, <1>3 DEF Post
<1>5. earned \in [Month -> Int] /\ adjusted \in [Month -> Int]
    BY <1>1, Fields
<1>6. ~ k <= m
    BY <1>1, <1>2, Fields
<1>7. Through([earned EXCEPT ![k] = @ + sale], m) = Through(earned, m)
    BY <1>5, <1>6, ThroughPosted
<1>8. Through([adjusted EXCEPT ![k] = @ + correction], m) = Through(adjusted, m)
    BY <1>5, <1>6, ThroughPosted
<1>9. Through(earned', m) = Through(earned, m) /\ Through(adjusted', m) = Through(adjusted, m)
    BY <1>4, <1>7, <1>8
<1> QED BY <1>1, <1>9 DEF Balance

\* A payout adds to the sums of its month and of the later ones.
LEMMA PaidSums ==
    ASSUME Books, NEW k \in Month, Pay(k), NEW m \in Month
    PROVE  /\ Through(paid, m)' = Through(paid, m) + (IF k <= m THEN statement[k].net ELSE 0)
           /\ Balance(m)' = Balance(m) - (IF k <= m THEN statement[k].net ELSE 0)
           /\ Through(earned, m)' = Through(earned, m)
           /\ Through(adjusted, m)' = Through(adjusted, m)
<1>1. TypeOK /\ paid' = [paid EXCEPT ![k] = @ + statement[k].net] /\ UNCHANGED <<earned, adjusted>>
    BY DEF Books, Pay
<1>2. PICK d \in Int : d = statement[k].net
    BY <1>1, Fields
<1>3. paid \in [Month -> Int]
    BY <1>1, Fields
<1>4. Through([paid EXCEPT ![k] = @ + d], m) = Through(paid, m) + (IF k <= m THEN d ELSE 0)
    BY <1>3, ThroughPosted
<1>5. Through(paid', m) = Through(paid, m) + (IF k <= m THEN statement[k].net ELSE 0)
    BY <1>1, <1>2, <1>4
<1>6. /\ Through(earned, m) \in Int /\ Through(adjusted, m) \in Int /\ Through(paid, m) \in Int
    BY <1>1, BalanceType
<1>7. CASE k <= m
    BY <1>1, <1>2, <1>5, <1>6, <1>7 DEF Balance
<1>8. CASE ~ k <= m
    BY <1>1, <1>2, <1>5, <1>6, <1>8 DEF Balance
<1> QED BY <1>1, <1>5, <1>7, <1>8

\* Steps that leave the ledger's sums of the months that are over, the
\* statements and the runs.
LEMMA CalmStep ==
    ASSUME Books, Calm, UNCHANGED <<statement, run>>,
           \A m \in Month : m < month =>
               /\ Balance(m)' = Balance(m) /\ Through(paid, m)' = Through(paid, m)
               /\ Through(earned, m)' = Through(earned, m)
               /\ Through(adjusted, m)' = Through(adjusted, m)
    PROVE  Calm'
<1>1. \A m \in Month : statement[m].status # "NONE" => m < month
    BY DEF Books, StatementsAreClosed
<1>2. \A r \in Runs : run[r] # NoRun => run[r].month < month
    BY DEF Books, Timely
<1>3. Settled'
    BY <1>1 DEF Calm, Settled
<1>4. ASSUME NEW m \in Month, statement[m].status \in Due PROVE statement[m].net = Balance(m)'
    BY <1>1, <1>4 DEF Calm, Due
<1>5. ASSUME NEW r \in Runs, NEW m \in Month, run[r] # NoRun, run[r].month = m,
             statement[m].status = "NONE"
      PROVE  run[r].balance = Balance(m)'
    BY <1>2, <1>5 DEF Calm
<1> QED BY <1>3, <1>4, <1>5 DEF Calm

LEMMA CalmBegin ==
    ASSUME Books, Calm, lapses = {}, NEW r \in Runs, NEW m \in Month, BeginGenerate(r, m),
           lapses' = {}
    PROVE  Calm'
<1>1. /\ run' = [run EXCEPT ![r] = [month |-> m, balance |-> Balance(m), movement |-> Movement(m)]]
      /\ UNCHANGED <<statement, earned, adjusted, paid>> /\ run \in [Runs -> RunType]
    BY Fields DEF BeginGenerate, Books
<1>2. ~ Unfinished(m) /\ ~ Overtaken(m)
    BY DEF BeginGenerate, LapsesOf
<1>3. \A s \in Runs : run[s] = NoRun
    BY <1>2 DEF Unfinished
<1>4. \A s \in Runs \ {r} : run'[s] = NoRun
    BY <1>1, <1>3
<1>5. run'[r].month = m /\ run'[r].balance = Balance(m)
    BY <1>1
<1>6. \A q \in Month : q < m => statement[q].status \notin Due
    BY <1>2, BoundsAssumption DEF Unfinished, Due, Month
<1>7. \A q \in Month : m < q => statement[q].status \in {"NONE", "CANCELLED"}
    BY <1>2, BoundsAssumption DEF Overtaken, Month
<1>8. \A q \in Month : Balance(q)' = Balance(q)
    BY <1>1, SameSums
<1>9. Settled'
    BY <1>1, SameSums DEF Calm, Settled
<1>10. \A q \in Month : statement[q].status \in Due => statement[q].net = Balance(q)'
    BY <1>8 DEF Calm
<1>11. \A s \in Runs, q \in Month : run'[s] # NoRun /\ run'[s].month = q =>
          /\ \A p \in Month : p < q => statement[p].status \notin Due
          /\ \A p \in Month : q < p => statement[p].status \in {"NONE", "CANCELLED"}
          /\ statement[q].status = "NONE" => run'[s].balance = Balance(q)'
    BY <1>4, <1>5, <1>6, <1>7, <1>8
<1> QED BY <1>1, <1>4, <1>9, <1>10, <1>11 DEF Calm

LEMMA CalmIssue ==
    ASSUME Books, Calm, NEW r \in Runs, Issue(r) \/ Skip(r)
    PROVE  Calm'
<1>1. /\ run' = [run EXCEPT ![r] = NoRun] /\ run[r] # NoRun /\ run \in [Runs -> RunType]
      /\ UNCHANGED <<earned, adjusted, paid>>
    BY Fields DEF Issue, Skip, Books
<1>2. \A s \in Runs : run'[s] = NoRun
    BY <1>1 DEF Calm
<1>3. \A q \in Month : Balance(q)' = Balance(q)
    BY <1>1, SameSums
<1>4. CASE Skip(r)
    <2>1. statement' = statement
        BY <1>4 DEF Skip
    <2>2. Settled'
        BY <1>1, <2>1, SameSums DEF Calm, Settled
    <2>3. \A q \in Month : statement[q].status \in Due => statement[q].net = Balance(q)'
        BY <1>3 DEF Calm
    <2> QED BY <1>2, <2>1, <2>2, <2>3 DEF Calm
<1>5. CASE Issue(r)
    <2>1. PICK m \in Month : m = run[r].month
        BY <1>5, Issued
    <2>2. /\ statement[m].status = "NONE"
          /\ \A q \in Month \ {m} : statement'[q] = statement[q]
          /\ statement'[m].status \in {"PENDING", "CARRIED_FORWARD"}
          /\ statement'[m].status = "PENDING" => statement'[m].net = run[r].balance
        BY <1>5, <2>1, Issued
    <2>3. /\ \A q \in Month : q < m => statement[q].status \notin Due
          /\ \A q \in Month : m < q => statement[q].status \in {"NONE", "CANCELLED"}
          /\ run[r].balance = Balance(m)
        BY <1>1, <2>1, <2>2 DEF Calm
    <2>4. Settled'
        <3> SUFFICES ASSUME NEW q \in Month, statement'[q].status = "PAID"
                     PROVE  Through(paid, q)' = Through(earned, q)' + Through(adjusted, q)'
            BY DEF Settled
        <3>1. q # m /\ statement[q].status = "PAID"
            BY <2>2
        <3>2. Through(paid, q) = Through(earned, q) + Through(adjusted, q)
            BY <3>1 DEF Calm, Settled
        <3> QED BY <1>1, <3>2, SameSums
    <2>5. ASSUME NEW q \in Month, statement'[q].status \in Due
          PROVE  statement'[q].net = Balance(q)'
        <3>1. CASE q = m
            BY <1>3, <2>2, <2>3, <2>5, <3>1 DEF Due
        <3>2. CASE q # m
            BY <1>3, <2>2, <2>5, <3>2 DEF Calm
        <3> QED BY <3>1, <3>2
    <2>6. ASSUME NEW p \in Month, NEW q \in Month, statement'[p].status \in Due \cup {"PAID"}, q < p
          PROVE  statement'[q].status \notin Due
        <3>1. CASE p = m
            <4>1. q # m /\ q < m
                BY <2>6, <3>1, Fields DEF Books
            <4> QED BY <2>2, <2>3, <4>1
        <3>2. CASE p # m
            <4>1. statement[p].status \in Due \cup {"PAID"}
                BY <2>2, <2>6, <3>2
            <4>2. q # m
                BY <2>3, <2>6, <4>1 DEF Due
            <4> QED BY <2>2, <2>6, <4>1, <4>2 DEF Calm
        <3> QED BY <3>1, <3>2
    <2> QED BY <1>2, <2>4, <2>5, <2>6 DEF Calm
<1> QED BY <1>4, <1>5

\* A decision about what is due or carried leaves the rest.
LEMMA CalmDecide ==
    ASSUME Books, Calm, NEW m \in Month, Approve(m) \/ Cancel(m)
    PROVE  Calm'
<1>1. /\ UNCHANGED <<earned, adjusted, paid, run>>
      /\ statement[m].status \notin {"NONE", "PAID"}
      /\ \E status \in {"APPROVED", "CANCELLED"} :
            /\ statement' = [statement EXCEPT ![m].status = status]
            /\ status = "APPROVED" => statement[m].status \in Due
    BY DEF Approve, Cancel, Due
<1>2. PICK status \in {"APPROVED", "CANCELLED"} :
            /\ statement' = [statement EXCEPT ![m].status = status]
            /\ status = "APPROVED" => statement[m].status \in Due
    BY <1>1
<1>3. Restated(m, status)
    BY <1>2, Restate DEF Books, Status
<1>4. \A q \in Month : /\ statement'[q].net = statement[q].net
                       /\ statement'[q].status \in Due => statement[q].status \in Due
                       /\ statement'[q].status = "PAID" => statement[q].status = "PAID"
                       /\ statement'[q].status = "NONE" => statement[q].status = "NONE"
                       /\ statement[q].status \in {"NONE", "CANCELLED"} =>
                             statement'[q].status \in {"NONE", "CANCELLED"}
    BY <1>1, <1>2, <1>3 DEF Restated, Due
<1>5. \A q \in Month : Balance(q)' = Balance(q)
    BY <1>1, SameSums
<1>6. Settled'
    BY <1>1, <1>4, SameSums DEF Calm, Settled
<1>7. \A q \in Month : statement'[q].status \in Due => statement'[q].net = Balance(q)'
    BY <1>4, <1>5 DEF Calm
<1>8. \A p, q \in Month : statement'[p].status \in Due \cup {"PAID"} /\ q < p =>
          statement'[q].status \notin Due
    BY <1>4 DEF Calm
<1>9. \A s \in Runs, q \in Month : run[s] # NoRun /\ run[s].month = q =>
          /\ \A p \in Month : p < q => statement'[p].status \notin Due
          /\ \A p \in Month : q < p => statement'[p].status \in {"NONE", "CANCELLED"}
          /\ statement'[q].status = "NONE" => run[s].balance = Balance(q)'
    BY <1>4, <1>5 DEF Calm
<1>10. \A s, t \in Runs : run[s] # NoRun /\ run[t] # NoRun => s = t
    BY DEF Calm
<1> QED BY <1>1, <1>6, <1>7, <1>8, <1>9, <1>10 DEF Calm

LEMMA CalmPay == ASSUME Books, Calm, NEW k \in Month, Pay(k) PROVE Calm'
<1>1. /\ UNCHANGED <<earned, adjusted, run>> /\ statement[k].status = "APPROVED"
      /\ statement' = [statement EXCEPT ![k].status = "PAID"]
    BY DEF Pay
<1>2. Restated(k, "PAID")
    BY <1>1, Restate DEF Books, Status
<1>3. /\ \A q \in Month : q < k => statement[q].status \notin Due
      /\ \A q \in Month : k < q => statement[q].status \notin Due \cup {"PAID"}
      /\ statement[k].net = Balance(k)
    BY <1>1 DEF Calm, Due
<1>4. TypeOK /\ \A q \in Month : q \in Nat
    BY Fields DEF Books
<1>5. ASSUME NEW q \in Month, q < k
      PROVE  /\ Balance(q)' = Balance(q) /\ Through(paid, q)' = Through(paid, q)
             /\ Through(earned, q)' = Through(earned, q)
             /\ Through(adjusted, q)' = Through(adjusted, q)
    <2>1. ~ k <= q
        BY <1>4, <1>5
    <2> QED BY <1>4, <2>1, PaidSums, BalanceType
<1>6. ASSUME NEW q \in Month, statement'[q].status = "PAID"
      PROVE  Through(paid, q)' = Through(earned, q)' + Through(adjusted, q)'
    <2>1. CASE q = k
        <3>1. Through(paid, k)' = Through(paid, k) + Balance(k)
            BY <1>3, <1>4, PaidSums
        <3>2. /\ Through(earned, k) \in Int /\ Through(adjusted, k) \in Int
              /\ Through(paid, k) \in Int
            BY <1>4, BalanceType
        <3>3. Through(earned, k)' = Through(earned, k) /\ Through(adjusted, k)' = Through(adjusted, k)
            BY PaidSums
        <3> QED BY <2>1, <3>1, <3>2, <3>3 DEF Balance
    <2>2. CASE q # k
        <3>1. statement[q].status = "PAID"
            BY <1>2, <1>6, <2>2 DEF Restated
        <3>2. q < k
            BY <1>3, <1>4, <2>2, <3>1
        <3> QED BY <1>5, <3>1, <3>2 DEF Calm, Settled
    <2> QED BY <2>1, <2>2
<1>7. ASSUME NEW q \in Month, statement'[q].status \in Due PROVE FALSE
    <2>1. q # k /\ statement[q].status \in Due
        BY <1>2, <1>7 DEF Restated, Due
    <2>2. q < k \/ k < q
        BY <1>4, <2>1
    <2> QED BY <1>3, <2>1, <2>2
<1>8. ASSUME NEW s \in Runs, NEW m \in Month, run[s] # NoRun, run[s].month = m
      PROVE  /\ \A p \in Month : m < p => statement'[p].status \in {"NONE", "CANCELLED"}
             /\ statement'[m].status # "NONE"
    <2>1. /\ \A q \in Month : q < m => statement[q].status \notin Due
          /\ \A q \in Month : m < q => statement[q].status \in {"NONE", "CANCELLED"}
        BY <1>8 DEF Calm
    <2>2. m = k
        BY <1>1, <1>4, <2>1 DEF Due
    <2> QED BY <1>2, <1>4, <2>1, <2>2 DEF Restated
<1>9. \A s, t \in Runs : run[s] # NoRun /\ run[t] # NoRun => s = t
    BY DEF Calm
<1>10. Settled'
    BY <1>6 DEF Settled
<1> QED BY <1>1, <1>7, <1>8, <1>9, <1>10 DEF Calm

LEMMA CalmNext == Books /\ [Next]_vars /\ (lapses = {} => Calm) => (lapses = {} => Calm)'
<1> SUFFICES ASSUME Books, [Next]_vars, lapses = {} => Calm, lapses' = {} PROVE Calm'
    OBVIOUS
<1>1. lapses \subseteq lapses'
    BY DEF Next, Sell, Adjust, Post, RollBack, CloseMonth, BeginGenerate, Issue, Skip, Approve,
           Pay, Cancel, vars
<1>2. lapses = {} /\ Calm
    BY <1>1
<1>3. CASE Post
    <2>1. UNCHANGED <<statement, run>>
        BY <1>3 DEF Post
    <2> QED BY <1>2, <1>3, <2>1, PostedSums, CalmStep
<1>4. CASE UNCHANGED <<statement, run, earned, adjusted, paid>>
    BY <1>2, <1>4, SameSums, CalmStep
<1>5. ASSUME NEW r \in Runs, NEW m \in Month, BeginGenerate(r, m) PROVE Calm'
    BY <1>2, <1>5, CalmBegin
<1>6. ASSUME NEW r \in Runs, Issue(r) \/ Skip(r) PROVE Calm'
    BY <1>2, <1>6, CalmIssue
<1>7. ASSUME NEW m \in Month, Approve(m) \/ Cancel(m) PROVE Calm'
    BY <1>2, <1>7, CalmDecide
<1>8. ASSUME NEW m \in Month, Pay(m) PROVE Calm'
    BY <1>2, <1>8, CalmPay
<1>9. \/ Post
      \/ UNCHANGED <<statement, run, earned, adjusted, paid>>
      \/ \E r \in Runs : Issue(r) \/ Skip(r) \/ \E m \in Month : BeginGenerate(r, m)
      \/ \E m \in Month : Approve(m) \/ Pay(m) \/ Cancel(m)
    BY DEF Next, Sell, Adjust, RollBack, CloseMonth, vars
<1> QED BY <1>3, <1>4, <1>5, <1>6, <1>7, <1>8, <1>9

\* While each month is finished before the next is generated, none is settled
\* after a later one and no booking is late, what was paid when a statement is
\* paid is what was earned and corrected, for any months, runs and amounts.
THEOREM PaidCorrect == Spec => []PaidWhatIsOwed
<1>1. Init => (lapses = {} => Calm)
    <2> SUFFICES ASSUME Init PROVE Calm
        OBVIOUS
    <2>1. /\ \A r \in Runs : run[r] = NoRun
          /\ \A m \in Month : statement[m].status = "NONE"
        BY Nothing DEF Init
    <2> QED BY <2>1 DEF Calm, Due, Settled
<1>2. (lapses = {} => Calm) => PaidWhatIsOwed
    BY DEF Calm, PaidWhatIsOwed
<1> QED BY <1>1, <1>2, CalmNext, Invariance, PTL DEF Spec
=============================================================================
