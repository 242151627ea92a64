---------------------------- MODULE SellableProofs ---------------------------
(***************************************************************************)
(* Proofs about Sellable.  What makes a product on sale sellable is that   *)
(* nobody can be credited on it between the read of an engineer's credits  *)
(* and the commit of the agreement: Aware says so of every change of       *)
(* agreement in flight, and Apart is the lock that keeps it true.          *)
(***************************************************************************)
EXTENDS Sellable, TLAPS

\* Every engineer of p is paid in the currency of its price.
Sells(p, q, cr, ag) == Paid(q) => \A e \in cr : Terms(ag, e, p) = q.currency

\* What a request in flight may ask for.
Asked ==
    \A j \in Jobs :
        /\ job[j].kind = "move" => job[j].product \in Products /\ job[j].to \in Status \ {"PUBLISHED"}
        /\ job[j].kind = "credits" => job[j].product \in Products /\ job[j].engineers # {}
        /\ job[j].kind = "terms" => /\ job[j].engineer \in Engineers
                                    /\ job[j].to \in Currencies

\* A change of agreement and a change of credits in flight share no engineer.
Apart ==
    \A j, k \in Jobs : job[j].kind = "terms" /\ job[k].kind = "credits" =>
        job[j].engineer \notin job[k].engineers

\* A change of agreement in flight knows every product it concerns.
Aware ==
    \A j \in Jobs : job[j].kind = "terms" =>
        Affected(job[j].engineer, job[j].product) \subseteq job[j].products

\* A product on sale is priced, credited, and pays in its currency.
Sound ==
    \A p \in Products : status[p] = "PUBLISHED" =>
        /\ price[p] # None
        /\ credits[p] # {}
        /\ Sells(p, price[p], credits[p], agreement)

\* A product kept on sale since an order read it has the currency it had then,
\* also while the order is not inserted yet.
Kept ==
    \A o \in Orders, l \in Line : l \in lines[o] /\ l.product \in kept[o] =>
        /\ status[l.product] = "PUBLISHED"
        /\ Paid(price[l.product])
        /\ price[l.product].currency = l.price.currency

IInv == TypeOK /\ Asked /\ Apart /\ Aware /\ Sound /\ Kept

-----------------------------------------------------------------------------
\* A product has no blocker but deactivated engineers exactly when it pays in
\* its currency.
LEMMA BlockersSell ==
    ASSUME TypeOK, NEW p \in Products, NEW q \in Price \cup {None},
           NEW cr \in SUBSET Engineers, NEW ag,
           Blockers(p, q, cr, ag) \subseteq cr \X {"INACTIVE_ENGINEER"}
    PROVE  Sells(p, q, cr, ag)
<1> SUFFICES ASSUME Paid(q), NEW e \in cr, Terms(ag, e, p) # q.currency
             PROVE  FALSE
    BY DEF Sells
<1>1. CASE Terms(ag, e, p) = None
    <2>1. <<e, "NO_AGREEMENT">> \in Blockers(p, q, cr, ag)
        BY <1>1 DEF Blockers
    <2> QED BY <2>1
<1>2. CASE Terms(ag, e, p) # None
    <2>1. <<e, "CURRENCY_MISMATCH">> \in Blockers(p, q, cr, ag)
        BY <1>2 DEF Blockers
    <2> QED BY <2>1
<1> QED BY <1>1, <1>2

LEMMA SellBlockers ==
    ASSUME TypeOK, NEW p \in Products, NEW q \in Price \cup {None},
           NEW cr \in SUBSET Engineers, NEW ag,
           Sells(p, q, cr, ag)
    PROVE  Blockers(p, q, cr, ag) \subseteq cr \X {"INACTIVE_ENGINEER"}
<1>1. CASE ~ Paid(q)
    BY <1>1 DEF Blockers
<1>2. CASE Paid(q)
    <2>1. q.currency \in Currencies
        BY <1>2 DEF Paid, Price
    <2>2. \A e \in cr : Terms(ag, e, p) # None
        BY <1>2, <2>1, NoneAssumption DEF Sells
    <2>3. \A e \in cr : Terms(ag, e, p) \in {None, q.currency}
        BY <1>2 DEF Sells
    <2>4. {x \in cr : Terms(ag, x, p) = None} = {}
        BY <2>2
    <2>5. {x \in cr : Terms(ag, x, p) \notin {None, q.currency}} = {}
        BY <2>3
    <2> QED BY <2>4, <2>5, <1>2 DEF Blockers
<1> QED BY <1>1, <1>2

\* A change that keeps products sellable leaves one that pays in its currency
\* paying in its currency.
LEMMA KeptSellable ==
    ASSUME TypeOK, Sound, NEW P, NEW p \in Products, p \in P, status[p] = "PUBLISHED",
           NEW np, NEW nc, NEW na,
           np[p] \in Price \cup {None}, nc[p] \in SUBSET Engineers,
           KeepsSellable(P, np, nc, na)
    PROVE  Sells(p, np[p], nc[p], na)
<1>1. price[p] \in Price \cup {None} /\ credits[p] \in SUBSET Engineers
    BY DEF TypeOK
<1>2. Blockers(p, price[p], credits[p], agreement) \subseteq credits[p] \X {"INACTIVE_ENGINEER"}
    BY <1>1, SellBlockers DEF Sound
<1>3. Blockers(p, np[p], nc[p], na) \subseteq Blockers(p, price[p], credits[p], agreement)
    BY DEF KeepsSellable
<1>4. SUFFICES ASSUME NEW e \in nc[p], Paid(np[p]), Terms(na, e, p) # np[p].currency
               PROVE  FALSE
    BY DEF Sells
<1>5. CASE Terms(na, e, p) = None
    <2>1. <<e, "NO_AGREEMENT">> \in Blockers(p, np[p], nc[p], na)
        BY <1>4, <1>5 DEF Blockers
    <2> QED BY <2>1, <1>2, <1>3
<1>6. CASE Terms(na, e, p) # None
    <2>1. <<e, "CURRENCY_MISMATCH">> \in Blockers(p, np[p], nc[p], na)
        BY <1>4, <1>6 DEF Blockers
    <2> QED BY <2>1, <1>2, <1>3
<1> QED BY <1>5, <1>6

-----------------------------------------------------------------------------
\* The Watch of a step keeps Kept, when a product that stays published at a
\* price keeps its currency.
LEMMA WatchKeeps ==
    ASSUME TypeOK, Kept, Watch, UNCHANGED purchases,
           \A p \in Products : status'[p] = "PUBLISHED" /\ Paid(price'[p])
                /\ status[p] = "PUBLISHED" /\ Paid(price[p]) =>
                    price'[p].currency = price[p].currency
    PROVE  Kept' /\ kept' \in [Orders -> SUBSET Products]
<1>1. kept' \in [Orders -> SUBSET Products]
    BY DEF Watch, TypeOK
<1>2. ASSUME NEW o \in Orders, NEW l \in Line, l \in lines'[o], l.product \in kept'[o]
      PROVE  /\ status'[l.product] = "PUBLISHED"
             /\ Paid(price'[l.product])
             /\ price'[l.product].currency = l.price.currency
    <2>1. l \in lines[o] /\ l.product \in Products
        BY <1>2 DEF purchases, Line
    <2>2. l.product \in kept[o] /\ status'[l.product] = "PUBLISHED" /\ Paid(price'[l.product])
        BY <1>2 DEF Watch
    <2>3. /\ status[l.product] = "PUBLISHED"
          /\ Paid(price[l.product])
          /\ price[l.product].currency = l.price.currency
        BY <2>1, <2>2 DEF Kept
    <2> QED BY <2>1, <2>2, <2>3
<1> QED BY <1>1, <1>2 DEF Kept

\* Ending a request in flight keeps what is known of the others.
LEMMA FinishKeeps ==
    ASSUME TypeOK, Asked, Apart, NEW j \in Jobs, Finish(j)
    PROVE  job' \in [Jobs -> JobType] /\ Asked' /\ Apart'
<1>1. Idle \in JobType
    BY DEF Idle, JobType, Scope
<1>2. job' \in [Jobs -> JobType]
    BY <1>1 DEF TypeOK, Finish
<1>3. \A k \in Jobs : job'[k] = IF k = j THEN Idle ELSE job[k]
    BY DEF TypeOK, Finish
<1>4. Idle.kind = "idle"
    BY DEF Idle
<1>5. Asked'
    BY <1>3, <1>4 DEF Asked
<1>6. Apart'
    BY <1>3, <1>4 DEF Apart
<1> QED BY <1>2, <1>5, <1>6

LEMMA Initial == Init => IInv
<1> SUFFICES ASSUME Init PROVE IInv
    OBVIOUS
<1> USE DEF Init
<1>1. Idle \in JobType /\ Idle.kind = "idle"
    BY DEF Idle, JobType, Scope
<1>2. TypeOK
    BY <1>1 DEF TypeOK, Status
<1>3. Asked /\ Apart /\ Aware
    BY <1>1 DEF Asked, Apart, Aware
<1>4. Sound /\ Kept
    BY DEF Sound, Kept
<1> QED BY <1>2, <1>3, <1>4 DEF IInv

-----------------------------------------------------------------------------
\* Every step keeps the invariant.

LEMMA PriceStep ==
    ASSUME IInv, NEW p \in Products, NEW q \in Price, ChangePrice(p, q)
    PROVE  IInv'
<1> USE DEF IInv
<1>1. /\ price' = [price EXCEPT ![p] = q]
      /\ UNCHANGED <<status, credits, agreement, active, order, lines, job>>
    BY DEF ChangePrice, people, purchases
<1>2. /\ price' \in [Products -> Price \cup {None}]
      /\ \A r \in Products : price'[r] = IF r = p THEN q ELSE price[r]
      /\ q # None
    BY <1>1, PriceAssumption DEF TypeOK
<1>3. Asked' /\ Apart' /\ Aware'
    BY <1>1 DEF Asked, Apart, Aware, Affected
<1>4. status[p] = "PUBLISHED" => Sells(p, q, credits[p], agreement)
    <2> SUFFICES ASSUME status[p] = "PUBLISHED"
                 PROVE  Sells(p, price'[p], credits[p], agreement)
        BY <1>2
    <2>1. KeepsSellable({p}, price', credits, agreement)
        BY <1>1 DEF ChangePrice
    <2>2. price'[p] \in Price \cup {None} /\ credits[p] \in SUBSET Engineers
        BY <1>2 DEF TypeOK
    <2> QED BY <2>1, <2>2, KeptSellable
<1>5. Sound'
    BY <1>1, <1>2, <1>4 DEF Sound
<1>6. ASSUME NEW r \in Products, status'[r] = "PUBLISHED", Paid(price'[r]),
             status[r] = "PUBLISHED", Paid(price[r])
      PROVE  price'[r].currency = price[r].currency
    <2>1. CASE r # p
        BY <1>2, <2>1
    <2>2. CASE r = p
        <3>1. PICK e \in credits[r] : TRUE
            BY <1>6 DEF Sound
        <3>2. Terms(agreement, e, r) = price[r].currency
            BY <1>6, <3>1 DEF Sound, Sells
        <3>3. Terms(agreement, e, r) = q.currency
            BY <1>4, <1>6, <1>2, <2>2, <3>1 DEF Sells
        <3> QED BY <1>2, <2>2, <3>2, <3>3
    <2> QED BY <2>1, <2>2
<1>7. Watch /\ UNCHANGED purchases
    BY DEF ChangePrice
<1>8. Kept' /\ kept' \in [Orders -> SUBSET Products]
    BY <1>6, <1>7, WatchKeeps
<1>9. TypeOK'
    BY <1>1, <1>2, <1>8 DEF TypeOK
<1> QED BY <1>3, <1>5, <1>8, <1>9

LEMMA PublishStep ==
    ASSUME IInv, NEW p \in Products, Publish(p)
    PROVE  IInv'
<1> USE DEF IInv
<1>1. /\ status' = [status EXCEPT ![p] = "PUBLISHED"]
      /\ UNCHANGED <<price, credits, agreement, active, order, lines, job>>
    BY DEF Publish, people, purchases
<1>2. /\ status' \in [Products -> Status]
      /\ \A r \in Products : status'[r] = IF r = p THEN "PUBLISHED" ELSE status[r]
    BY <1>1 DEF TypeOK, Status
<1>3. Asked' /\ Apart' /\ Aware'
    BY <1>1 DEF Asked, Apart, Aware, Affected
<1>4. /\ price[p] # None
      /\ credits[p] # {}
      /\ Sells(p, price[p], credits[p], agreement)
    <2>1. price[p] \in Price \cup {None} /\ credits[p] \in SUBSET Engineers
        BY DEF TypeOK
    <2>2. Blockers(p, price[p], credits[p], agreement) \subseteq credits[p] \X {"INACTIVE_ENGINEER"}
        BY DEF Publish
    <2>3. Sells(p, price[p], credits[p], agreement)
        BY <2>1, <2>2, BlockersSell
    <2> QED BY <2>3 DEF Publish
<1>5. Sound'
    BY <1>1, <1>2, <1>4 DEF Sound
<1>6. Watch /\ UNCHANGED purchases
    BY DEF Publish
<1>7. Kept' /\ kept' \in [Orders -> SUBSET Products]
    BY <1>1, <1>6, WatchKeeps
<1>8. TypeOK'
    BY <1>1, <1>2, <1>7 DEF TypeOK
<1> QED BY <1>3, <1>5, <1>7, <1>8

LEMMA MoveStep ==
    ASSUME IInv, NEW j \in Jobs, Move(j)
    PROVE  IInv'
<1> USE DEF IInv
<1> DEFINE p == job[j].product
           to == job[j].to
<1>1. p \in Products /\ to \in Status /\ to # "PUBLISHED"
    BY DEF Move, Asked
<1>2. /\ status' = [status EXCEPT ![p] = to]
      /\ UNCHANGED <<price, credits, agreement, active, order, lines>>
      /\ Finish(j)
    BY DEF Move, people, purchases
<1>3. /\ status' \in [Products -> Status]
      /\ \A r \in Products : status'[r] = IF r = p THEN to ELSE status[r]
    BY <1>1, <1>2 DEF TypeOK
<1>4. job' \in [Jobs -> JobType] /\ Asked' /\ Apart'
    BY <1>2, FinishKeeps
<1>5. Aware'
    BY <1>2 DEF Aware, Affected, Finish, TypeOK, Idle
<1>6. Sound'
    BY <1>1, <1>2, <1>3 DEF Sound
<1>7. Watch /\ UNCHANGED purchases
    BY DEF Move
<1>8. Kept' /\ kept' \in [Orders -> SUBSET Products]
    BY <1>2, <1>7, WatchKeeps
<1>9. TypeOK'
    BY <1>2, <1>3, <1>4, <1>8 DEF TypeOK
<1> QED BY <1>4, <1>5, <1>6, <1>8, <1>9

LEMMA CreditsStep ==
    ASSUME IInv, NEW j \in Jobs, SetCredits(j)
    PROVE  IInv'
<1> USE DEF IInv
<1> DEFINE p == job[j].product
           new == job[j].engineers
<1>1. p \in Products /\ new \in SUBSET Engineers /\ new # {} /\ job[j].kind = "credits"
    BY DEF SetCredits, Asked, TypeOK, JobType
<1>2. /\ credits' = [credits EXCEPT ![p] = new]
      /\ UNCHANGED <<status, price, agreement, active, order, lines>>
      /\ Finish(j)
    BY DEF SetCredits, people, purchases
<1>3. /\ credits' \in [Products -> SUBSET Engineers]
      /\ \A r \in Products : credits'[r] = IF r = p THEN new ELSE credits[r]
    BY <1>1, <1>2 DEF TypeOK
<1>4. job' \in [Jobs -> JobType] /\ Asked' /\ Apart'
    BY <1>2, FinishKeeps
<1>5. Aware'
    <2>1. ASSUME NEW k \in Jobs, job'[k].kind = "terms"
          PROVE  (IF job'[k].product # None THEN {job'[k].product}
                    ELSE {r \in Products : job'[k].engineer \in credits'[r]})
                      \subseteq job'[k].products
        <3>1. job'[k] = job[k] /\ job[k].kind = "terms"
            BY <1>2, <2>1 DEF Finish, TypeOK, Idle
        <3>2. job[k].engineer \notin new
            BY <1>1, <3>1 DEF Apart
        <3>3. \A r \in Products : job[k].engineer \in credits'[r] => job[k].engineer \in credits[r]
            BY <1>3, <3>2
        <3>4. (IF job[k].product # None THEN {job[k].product}
                 ELSE {r \in Products : job[k].engineer \in credits[r]})
                   \subseteq job[k].products
            BY <3>1 DEF Aware, Affected
        <3> QED BY <3>1, <3>3, <3>4
    <2> QED BY <2>1 DEF Aware, Affected
<1>6. status[p] = "PUBLISHED" => Sells(p, price[p], new, agreement)
    <2> SUFFICES ASSUME status[p] = "PUBLISHED"
                 PROVE  Sells(p, price[p], credits'[p], agreement)
        BY <1>1, <1>3
    <2>1. KeepsSellable({p}, price, credits', agreement)
        BY <1>2 DEF SetCredits
    <2>2. price[p] \in Price \cup {None} /\ credits'[p] \in SUBSET Engineers
        BY <1>1, <1>3 DEF TypeOK
    <2> QED BY <1>1, <2>1, <2>2, KeptSellable
<1>7. Sound'
    BY <1>1, <1>2, <1>3, <1>6 DEF Sound
<1>8. Watch /\ UNCHANGED purchases
    BY DEF SetCredits
<1>9. Kept' /\ kept' \in [Orders -> SUBSET Products]
    BY <1>2, <1>8, WatchKeeps
<1>10. TypeOK'
    BY <1>2, <1>3, <1>4, <1>9 DEF TypeOK
<1> QED BY <1>4, <1>5, <1>7, <1>9, <1>10

LEMMA TermsStep ==
    ASSUME IInv, NEW j \in Jobs, SetTerms(j)
    PROVE  IInv'
<1> USE DEF IInv
<1> DEFINE e == job[j].engineer
           s == job[j].product
           c == job[j].to
           new == [agreement EXCEPT ![e][s] = c]
<1>1. /\ e \in Engineers /\ s \in Scope /\ c \in Currencies
      /\ job[j].kind = "terms"
    BY DEF SetTerms, Asked, TypeOK, JobType
<1>2. /\ agreement' = new
      /\ UNCHANGED <<status, price, credits, active, order, lines, kept>>
      /\ Finish(j)
    BY DEF SetTerms, catalog, purchases
<1>3. agreement' \in [Engineers -> [Scope -> Currencies \cup {None}]]
    <2> DEFINE row == [agreement[e] EXCEPT ![s] = c]
    <2>1. agreement[e] \in [Scope -> Currencies \cup {None}]
        BY <1>1 DEF TypeOK
    <2>2. row \in [Scope -> Currencies \cup {None}]
        BY <2>1, <1>1
    <2>3. [agreement EXCEPT ![e] = row] \in [Engineers -> [Scope -> Currencies \cup {None}]]
        BY <2>2 DEF TypeOK
    <2> QED BY <1>2, <2>3
<1>10. \A x \in Engineers, t \in Scope :
          agreement'[x][t] = IF x = e /\ t = s THEN c ELSE agreement[x][t]
    <2> TAKE x \in Engineers, t \in Scope
    <2>1. agreement[e] \in [Scope -> Currencies \cup {None}] /\ x \in DOMAIN agreement
        BY <1>1 DEF TypeOK
    <2> QED BY <1>1, <1>2, <2>1 DEF TypeOK
<1>4. job' \in [Jobs -> JobType] /\ Asked' /\ Apart'
    BY <1>2, FinishKeeps
<1>5. Aware'
    BY <1>2 DEF Aware, Affected, Finish, TypeOK, Idle
<1>6. ASSUME NEW p \in Products, status[p] = "PUBLISHED"
      PROVE  Sells(p, price[p], credits[p], agreement')
    <2>1. CASE p \in job[j].products
        <3>1. KeepsSellable(job[j].products, price, credits, agreement')
            BY <1>2 DEF SetTerms
        <3>2. price[p] \in Price \cup {None} /\ credits[p] \in SUBSET Engineers
            BY DEF TypeOK
        <3> QED BY <1>6, <2>1, <3>1, <3>2, KeptSellable
    <2>2. CASE p \notin job[j].products
        <3>1. p \notin Affected(e, s)
            BY <1>1, <2>2 DEF Aware
        <3>2. ASSUME NEW f \in credits[p]
              PROVE  Terms(agreement', f, p) = Terms(agreement, f, p)
            <4>1. f \in Engineers
                BY DEF TypeOK
            <4>2. f # e \/ (s # None /\ p # s)
                BY <3>1, <3>2 DEF Affected
            <4>3. agreement \in [Engineers -> [Scope -> Currencies \cup {None}]]
                BY DEF TypeOK
            <4>4. p \in Scope /\ None \in Scope
                BY DEF Scope
            <4>5. agreement'[f][p] = agreement[f][p] /\ agreement'[f][None] = agreement[f][None]
                BY <1>10, <4>1, <4>2, <4>3, <4>4
            <4> QED BY <4>5 DEF Terms
        <3>3. Sells(p, price[p], credits[p], agreement)
            BY <1>6 DEF Sound
        <3> QED BY <3>2, <3>3 DEF Sells
    <2> QED BY <2>1, <2>2
<1>7. Sound'
    BY <1>2, <1>6 DEF Sound
<1>8. Kept'
    BY <1>2 DEF Kept
<1>9. TypeOK'
    BY <1>2, <1>3, <1>4 DEF TypeOK
<1> QED BY <1>4, <1>5, <1>7, <1>8, <1>9

LEMMA BeginStep ==
    ASSUME IInv, NEW j \in Jobs,
           \/ \E p \in Products, to \in Status : BeginMove(j, p, to)
           \/ \E p \in Products, E \in SUBSET Engineers : BeginCredits(j, p, E)
           \/ \E e \in Engineers, s \in Scope, c \in Currencies : BeginTerms(j, e, s, c)
    PROVE  IInv'
<1> USE DEF IInv
<1>1. UNCHANGED <<status, price, credits, agreement, active, order, lines, kept>>
    BY DEF BeginMove, BeginCredits, BeginTerms, catalog, people, purchases
<1>2. Sound' /\ Kept'
    BY <1>1 DEF Sound, Kept
<1>3. SUFFICES job' \in [Jobs -> JobType] /\ Asked' /\ Apart' /\ Aware'
    BY <1>1, <1>2 DEF TypeOK
<1>4. CASE \E p \in Products, to \in Status : BeginMove(j, p, to)
    <2>1. PICK p \in Products, to \in Status : BeginMove(j, p, to)
        BY <1>4
    <2> DEFINE new == [Idle EXCEPT !.kind = "move", !.product = p, !.to = to]
    <2>2. job' = [job EXCEPT ![j] = new] /\ to # "PUBLISHED"
        BY <2>1 DEF BeginMove, Start
    <2>3. /\ new \in JobType /\ new.kind = "move"
          /\ new.product = p /\ new.to = to
        BY DEF Idle, JobType, Scope
    <2> HIDE DEF new
    <2>4. \A k \in Jobs : job'[k] = IF k = j THEN new ELSE job[k]
        BY <2>2 DEF TypeOK
    <2>5. job' \in [Jobs -> JobType]
        BY <2>2, <2>3 DEF TypeOK
    <2>6. Asked' /\ Apart'
        BY <2>2, <2>3, <2>4 DEF Asked, Apart
    <2>7. Aware'
        BY <1>1, <2>3, <2>4 DEF Aware, Affected
    <2> QED BY <2>5, <2>6, <2>7
<1>5. CASE \E p \in Products, E \in SUBSET Engineers : BeginCredits(j, p, E)
    <2>1. PICK p \in Products, E \in SUBSET Engineers : BeginCredits(j, p, E)
        BY <1>5
    <2> DEFINE new == [Idle EXCEPT !.kind = "credits", !.product = p, !.engineers = E]
    <2>2. /\ job' = [job EXCEPT ![j] = new]
          /\ E # {}
          /\ \A e \in E, k \in Jobs : job[k].kind = "terms" => job[k].engineer # e
        BY <2>1 DEF BeginCredits, Start, TermsLocked
    <2>3. /\ new \in JobType /\ new.kind = "credits"
          /\ new.product = p /\ new.engineers = E
        BY DEF Idle, JobType, Scope
    <2> HIDE DEF new
    <2>4. \A k \in Jobs : job'[k] = IF k = j THEN new ELSE job[k]
        BY <2>2 DEF TypeOK
    <2>5. job' \in [Jobs -> JobType]
        BY <2>2, <2>3 DEF TypeOK
    <2>6. Asked' /\ Apart'
        BY <2>2, <2>3, <2>4 DEF Asked, Apart
    <2>7. Aware'
        BY <1>1, <2>3, <2>4 DEF Aware, Affected
    <2> QED BY <2>5, <2>6, <2>7
<1>6. CASE \E e \in Engineers, s \in Scope, c \in Currencies : BeginTerms(j, e, s, c)
    <2>1. PICK e \in Engineers, s \in Scope, c \in Currencies : BeginTerms(j, e, s, c)
        BY <1>6
    <2> DEFINE new == [Idle EXCEPT !.kind = "terms", !.engineer = e, !.product = s, !.to = c,
                                   !.products = Affected(e, s)]
    <2>2. /\ job' = [job EXCEPT ![j] = new]
          /\ \A k \in Jobs : job[k].kind = "credits" => e \notin job[k].engineers
        BY <2>1 DEF BeginTerms, Start, CreditsLocked
    <2>3. /\ new \in JobType /\ new.kind = "terms"
          /\ new.engineer = e /\ new.product = s /\ new.to = c
          /\ new.products = Affected(e, s)
        <3>1. Affected(e, s) \in SUBSET Products
            BY DEF Affected, Scope
        <3> QED BY <3>1 DEF Idle, JobType
    <2> HIDE DEF new
    <2>4. \A k \in Jobs : job'[k] = IF k = j THEN new ELSE job[k]
        BY <2>2 DEF TypeOK
    <2>5. job' \in [Jobs -> JobType]
        BY <2>2, <2>3 DEF TypeOK
    <2>6. Asked' /\ Apart'
        BY <2>2, <2>3, <2>4 DEF Asked, Apart
    <2>7. Aware'
        BY <1>1, <2>3, <2>4 DEF Aware, Affected
    <2> QED BY <2>5, <2>6, <2>7
<1> QED BY <1>4, <1>5, <1>6

LEMMA RefuseStep ==
    ASSUME IInv, NEW j \in Jobs, Refuse(j)
    PROVE  IInv'
<1> USE DEF IInv
<1>1. /\ UNCHANGED <<status, price, credits, agreement, active, order, lines, kept>>
      /\ Finish(j)
    BY DEF Refuse, catalog, people, purchases
<1>2. job' \in [Jobs -> JobType] /\ Asked' /\ Apart'
    BY <1>1, FinishKeeps
<1>3. Aware'
    BY <1>1 DEF Aware, Affected, Finish, TypeOK, Idle
<1> QED BY <1>1, <1>2, <1>3 DEF TypeOK, Sound, Kept

LEMMA ActiveStep ==
    ASSUME IInv, NEW e \in Engineers, NEW on \in BOOLEAN, SetActive(e, on)
    PROVE  IInv'
<1> USE DEF IInv
<1>1. /\ UNCHANGED <<status, price, credits, agreement, order, lines, kept, job>>
      /\ active' \subseteq Engineers
    BY DEF SetActive, catalog, purchases, TypeOK
<1> QED BY <1>1 DEF TypeOK, Asked, Apart, Aware, Affected, Sound, Kept

LEMMA ReadStep ==
    ASSUME IInv, NEW o \in Orders, NEW P \in SUBSET Products, ReadCatalog(o, P)
    PROVE  IInv'
<1> USE DEF IInv
<1> DEFINE read == {[product |-> p, price |-> price[p]] : p \in P}
<1>1. /\ UNCHANGED <<status, price, credits, agreement, active, job>>
      /\ order' = [order EXCEPT ![o] = "reading"]
      /\ lines' = [lines EXCEPT ![o] = read]
      /\ kept' = [kept EXCEPT ![o] = {p \in P : price[p].paid}]
      /\ \A p \in P : status[p] = "PUBLISHED" /\ price[p] # None
    BY DEF ReadCatalog, catalog, people
<1>2. \A p \in P : price[p] \in Price
    BY <1>1 DEF TypeOK
<1>3. read \in SUBSET Line
    BY <1>2 DEF Line
<1>4. TypeOK'
    BY <1>1, <1>3 DEF TypeOK
<1>5. ASSUME NEW q \in Orders, NEW l \in Line, l \in lines'[q], l.product \in kept'[q]
      PROVE  /\ status'[l.product] = "PUBLISHED"
             /\ Paid(price'[l.product])
             /\ price'[l.product].currency = l.price.currency
    <2>1. CASE q = o
        <3>1. PICK p \in P : l = [product |-> p, price |-> price[p]]
            BY <1>1, <1>5, <2>1 DEF TypeOK
        <3>2. price[p].paid
            BY <1>1, <1>5, <2>1, <3>1 DEF TypeOK
        <3> QED BY <1>1, <3>1, <3>2 DEF Paid
    <2>2. CASE q # o
        BY <1>1, <1>5, <2>2 DEF Kept, TypeOK
    <2> QED BY <2>1, <2>2
<1>6. Kept'
    BY <1>5 DEF Kept
<1> QED BY <1>1, <1>4, <1>6 DEF Asked, Apart, Aware, Affected, Sound

LEMMA AddStep ==
    ASSUME IInv, NEW o \in Orders, AddLines(o)
    PROVE  IInv'
<1> USE DEF IInv
<1>1. /\ UNCHANGED <<status, price, credits, agreement, active, lines, kept, job>>
      /\ order' = [order EXCEPT ![o] = "open"]
    BY DEF AddLines, catalog, people
<1> QED BY <1>1 DEF TypeOK, Kept, Asked, Apart, Aware, Affected, Sound

LEMMA EndStep ==
    ASSUME IInv, NEW o \in Orders, End(o)
    PROVE  IInv'
<1> USE DEF IInv
<1>1. /\ UNCHANGED <<status, price, credits, agreement, active, job>>
      /\ order' = [order EXCEPT ![o] = "ended"]
      /\ lines' = [lines EXCEPT ![o] = {}]
      /\ kept' = [kept EXCEPT ![o] = {}]
    BY DEF End, catalog, people
<1>2. TypeOK'
    BY <1>1 DEF TypeOK
<1>3. Kept'
    BY <1>1 DEF Kept, TypeOK
<1> QED BY <1>1, <1>2, <1>3 DEF Asked, Apart, Aware, Affected, Sound

LEMMA StepKeeps == IInv /\ [Next]_vars => IInv'
<1> SUFFICES ASSUME IInv, [Next]_vars PROVE IInv'
    OBVIOUS
<1>1. CASE UNCHANGED vars
    BY <1>1 DEF IInv, TypeOK, Asked, Apart, Aware, Affected, Sound, Kept, vars, catalog, people, purchases
<1>2. CASE Next
    BY <1>2, PriceStep, PublishStep, BeginStep, MoveStep, CreditsStep, TermsStep, RefuseStep,
       ActiveStep, ReadStep, AddStep, EndStep DEF Next, DropOrder, Approve, CompleteFree, Cancel
<1> QED BY <1>1, <1>2

LEMMA Invariance == Spec => []IInv
<1>1. Init => IInv
    BY Initial
<1>2. IInv /\ [Next]_vars => IInv'
    BY StepKeeps
<1> QED BY <1>1, <1>2, PTL DEF Spec

-----------------------------------------------------------------------------
\* Every state is of its type (Sellable.TypeOK).
THEOREM TypeCorrect == Spec => []TypeOK
<1>1. IInv => TypeOK
    BY DEF IInv
<1> QED BY <1>1, Invariance, PTL

\* Whatever prices, credits and agreements the owner changes at the same time,
\* what is published can be sold (keepPublishedSellable, publishBlockers).
THEOREM SellableCorrect == Spec => []PublishedIsSellable
<1>1. ASSUME IInv, NEW p \in Products, status[p] = "PUBLISHED"
      PROVE  /\ price[p] # None
             /\ credits[p] # {}
             /\ Blockers(p, price[p], credits[p], agreement)
                  \subseteq credits[p] \X {"INACTIVE_ENGINEER"}
    <2>1. price[p] # None /\ credits[p] # {} /\ Sells(p, price[p], credits[p], agreement)
        BY <1>1 DEF IInv, Sound
    <2>2. price[p] \in Price \cup {None} /\ credits[p] \in SUBSET Engineers
        BY <1>1 DEF IInv, TypeOK
    <2> QED BY <1>1, <2>1, <2>2, SellBlockers DEF IInv
<1>2. IInv => PublishedIsSellable
    BY <1>1 DEF PublishedIsSellable
<1> QED BY <1>2, Invariance, PTL

\* A line whose product stayed on sale at a price since the order read it can be
\* approved, whatever was changed between the read and the insertion of the line
\* and after it (createOrder, approvePayment, resolveTermsForSale).
THEOREM ApprovalCorrect == Spec => []KeptLinesResolve
<1>1. ASSUME IInv, NEW o \in Orders, NEW l \in lines[o], l.product \in kept[o]
      PROVE  Resolves(l)
    <2>1. l \in Line /\ l.product \in Products
        BY <1>1 DEF IInv, TypeOK, Line
    <2>2. /\ status[l.product] = "PUBLISHED"
          /\ Paid(price[l.product])
          /\ price[l.product].currency = l.price.currency
        BY <1>1, <2>1 DEF IInv, Kept
    <2> QED BY <1>1, <2>1, <2>2 DEF IInv, Sound, Sells, Resolves
<1>2. IInv => KeptLinesResolve
    BY <1>1 DEF KeptLinesResolve
<1> QED BY <1>2, Invariance, PTL

\* No step newly credits somebody inactive on a product on sale
\* (setProductContributors).
THEOREM CreditsCorrect == Spec => NewCreditsAreActive
<1>1. ASSUME IInv, [Next]_vars, NEW p \in Products, status[p] = "PUBLISHED"
      PROVE  credits'[p] \ credits[p] \subseteq active
    <2>1. CASE UNCHANGED credits
        BY <2>1
    <2>2. CASE \E j \in Jobs : SetCredits(j)
        <3>1. PICK j \in Jobs : SetCredits(j)
            BY <2>2
        <3>2. job[j].product \in Products /\ credits \in [Products -> SUBSET Engineers]
            BY <1>1, <3>1 DEF IInv, Asked, TypeOK, SetCredits
        <3>3. CASE job[j].product # p
            BY <3>1, <3>2, <3>3 DEF SetCredits
        <3>4. CASE job[j].product = p
            <4> DEFINE new == job[j].engineers
            <4>1. /\ credits' = [credits EXCEPT ![p] = new]
                  /\ KeepsSellable({p}, price, credits', agreement)
                BY <3>1, <3>4 DEF SetCredits
            <4>2. credits'[p] = new
                BY <3>2, <4>1
            <4>3. Blockers(p, price[p], new, agreement)
                    \subseteq Blockers(p, price[p], credits[p], agreement)
                BY <1>1, <4>1, <4>2 DEF KeepsSellable
            <4>4. ASSUME NEW e \in new, e \notin active
                  PROVE  e \in credits[p]
                <5>1. <<e, "INACTIVE_ENGINEER">> \in Blockers(p, price[p], new, agreement)
                    BY <4>4 DEF Blockers
                <5>2. \A x \in Blockers(p, price[p], credits[p], agreement) : x[1] \in credits[p]
                    BY DEF Blockers
                <5>3. <<e, "INACTIVE_ENGINEER">>[1] = e
                    OBVIOUS
                <5> QED BY <4>3, <5>1, <5>2, <5>3
            <4> QED BY <4>2, <4>4
        <3> QED BY <3>3, <3>4
    <2> QED BY <1>1, <2>1, <2>2 DEF Next, vars, catalog, ChangePrice, Publish, BeginMove, Move,
            BeginCredits, BeginTerms, SetTerms, Refuse, SetActive, ReadCatalog, AddLines,
            DropOrder, Approve, CompleteFree, Cancel, End
<1>2. IInv /\ [Next]_vars =>
        \A p \in Products : status[p] = "PUBLISHED" => credits'[p] \ credits[p] \subseteq active
    BY <1>1
<1> QED BY <1>2, Invariance, PTL DEF Spec, NewCreditsAreActive
=============================================================================
