----------------------------- MODULE BooksProofs -----------------------------
(***************************************************************************)
(* Proofs about Books: the ledger's chain, the numbers of the invoices and *)
(* the products' counters are right, and the books are atomic, for any     *)
(* requests, orders, lines and references; and no standstill lasts.        *)
(***************************************************************************)
EXTENDS Books, FiniteSetTheorems, WellFoundedInduction, TLAPS

-----------------------------------------------------------------------------
(* The inductive invariant: what a request knows from the locks it holds.  *)

\* r has read the ledger's tail and will append to it.
Posting(r) == at[r] \in {"number", "reference", "commit"}
                 \/ (at[r] = "subject" /\ r \notin Approvals)

\* r has passed the check of its subject.
Entitled(r) == IF r \in Approvals THEN at[r] \in {"goods", "chain", "number", "reference", "commit"}
               ELSE at[r] = "commit"

Exclusive == \A r, s \in Requests : r # s => held[r] \cap held[s] = {}

ChainHeld ==
    /\ \A r \in Requests : Posting(r) =>
          /\ ChainLock \in held[r]
          /\ IsTail(work[r].prev)
          /\ work[r].prev < work[r].seq
          /\ work[r].seq <= lastSeq
          /\ \A i \in DOMAIN chain : chain[i].seq < work[r].seq
    /\ \A i \in DOMAIN chain : chain[i].seq <= lastSeq
    /\ \A i, j \in DOMAIN chain : i < j => chain[i].seq < chain[j].seq

NumberHeld ==
    /\ \A r \in Approvals : at[r] \in {"reference", "commit"} =>
          /\ CounterLock(Year[r]) \in held[r]
          /\ work[r].number = counter[Year[r]]
    /\ \A y \in Years : counter[y] >= 1

SubjectHeld == \A r \in Requests : Entitled(r) =>
    /\ SubjectLock(r) \in held[r]
    /\ Subject[r] \notin taken

ReferenceHeld == \A r \in Approvals : at[r] = "commit" /\ Reference[r] # None =>
    /\ ReferenceLock(r) \in held[r]
    /\ Reference[r] \notin taken

GoodsHeld ==
    /\ \A r \in Requests \ Approvals : at[r] \notin {"goods", "number", "reference"}
    /\ \A r \in Approvals :
          /\ line[r] <= Len(Goods[r])
          /\ at[r] \in {"idle", "subject"} \cup Ending => line[r] = 0
          /\ at[r] = "goods" => line[r] < Len(Goods[r])
          /\ at[r] \in {"chain", "number", "reference", "commit"} => line[r] = Len(Goods[r])
          /\ \A i \in 1..line[r] :
                /\ ProductLock(Goods[r][i]) \in held[r]
                /\ work[r].count[Goods[r][i]] = sales[Goods[r][i]] + 1

TakenIsBooked == \A i \in DOMAIN chain : Claims[chain[i].by] \subseteq taken

Inv == /\ TypeOK /\ Exclusive /\ ChainHeld /\ NumberHeld /\ SubjectHeld
       /\ ReferenceHeld /\ GoodsHeld /\ TakenIsBooked /\ ChainIsWhole
       /\ InvoicesAreNumbered /\ SalesAreCounted

-----------------------------------------------------------------------------
(* Locks.                                                                  *)

\* Locks of different kinds, or of different things, are different.
LEMMA LockNames ==
    /\ \A r \in Requests, p \in Products : SubjectLock(r) # ProductLock(p)
    /\ \A r \in Requests, y \in Years : SubjectLock(r) # CounterLock(y)
    /\ \A r \in Requests : SubjectLock(r) # ChainLock
    /\ \A r, s \in Requests : SubjectLock(r) = SubjectLock(s) => Subject[r] = Subject[s]
    /\ \A r, s \in Approvals : ReferenceLock(r) = ReferenceLock(s) => Reference[r] = Reference[s]
    /\ \A p, q \in Products : ProductLock(p) = ProductLock(q) => p = q
BY DEF SubjectLock, ReferenceLock, ProductLock, ChainLock, CounterLock

\* Nobody else holds what is taken.
LEMMA TakeIsExclusive ==
    ASSUME TypeOK, Exclusive, NEW r \in Requests, NEW lock \in Locks, NEW stage \in Stage,
           Take(r, lock, stage)
    PROVE  /\ Exclusive'
           /\ held' \in [Requests -> SUBSET Locks]
           /\ at' \in [Requests -> Stage \cup Ending]
           /\ \A s \in Requests : held[s] \subseteq held'[s]
           /\ \A s \in Requests \ {r} : held'[s] = held[s] /\ at'[s] = at[s]
           /\ lock \in held'[r]
           /\ at'[r] = stage
BY DEF Take, Free, Exclusive, TypeOK

\* A request that ends keeps nothing, and what the others know stays true.
LEMMA EndKeepsInv ==
    ASSUME Inv, NEW r \in Requests, NEW how \in Ending, End(r, how),
           UNCHANGED <<lastSeq, books>>
    PROVE  Inv'
<1> USE DEF End, books, Inv, Ending
<1>1. TypeOK'
  BY DEF TypeOK, NoWork, WorkType
<1>2. Exclusive'
  BY DEF Exclusive, TypeOK
<1>3. ChainHeld'
  BY DEF ChainHeld, TypeOK, Posting, IsTail
<1>4. NumberHeld' /\ SubjectHeld' /\ ReferenceHeld'
  BY ApprovalAssumption DEF NumberHeld, SubjectHeld, ReferenceHeld, Entitled, TypeOK
<1>5. GoodsHeld'
  BY ApprovalAssumption, GoodsAssumption DEF GoodsHeld, TypeOK
<1>6. TakenIsBooked' /\ ChainIsWhole' /\ InvoicesAreNumbered' /\ SalesAreCounted'
  BY DEF TakenIsBooked, ChainIsWhole, InvoicesAreNumbered, SalesAreCounted
<1> QED
  BY <1>1, <1>2, <1>3, <1>4, <1>5, <1>6
-----------------------------------------------------------------------------
(* One lemma per step.                                                     *)

\* The first step takes no lock and writes nothing.
LEMMA BeginKeepsInv ==
    ASSUME Inv, NEW r \in Requests, Begin(r)
    PROVE  Inv'
<1> USE DEF Begin, books, Inv
<1>1. TypeOK'
  BY DEF TypeOK, Stage, Ending
<1>2. Exclusive'
  BY DEF Exclusive
<1>3. ChainHeld'
  BY DEF ChainHeld, TypeOK, Posting, IsTail
<1>4. NumberHeld' /\ SubjectHeld' /\ ReferenceHeld'
  BY ApprovalAssumption DEF NumberHeld, SubjectHeld, ReferenceHeld, Entitled, TypeOK
<1>5. GoodsHeld'
  BY ApprovalAssumption, GoodsAssumption DEF GoodsHeld, TypeOK
<1>6. TakenIsBooked' /\ ChainIsWhole' /\ InvoicesAreNumbered' /\ SalesAreCounted'
  BY DEF TakenIsBooked, ChainIsWhole, InvoicesAreNumbered, SalesAreCounted
<1> QED
  BY <1>1, <1>2, <1>3, <1>4, <1>5, <1>6

LEMMA TakeSubjectKeepsInv ==
    ASSUME Inv, NEW r \in Requests, TakeSubject(r)
    PROVE  Inv'
<1> USE DEF Inv
<1> DEFINE stage == AfterSubject(r)
<1>0. stage \in Stage /\ SubjectLock(r) \in Locks /\ Take(r, SubjectLock(r), stage)
      /\ Subject[r] \notin taken /\ at[r] = "subject"
      /\ UNCHANGED <<line, work, lastSeq, chain, counter, invoices, sales, taken>>
  BY DEF TakeSubject, MayHappen, AfterSubject, Stage, Locks, books
<1>a. stage = IF r \in Approvals THEN "goods" ELSE "commit"
  BY DEF AfterSubject
<1> HIDE DEF stage
<1>1. TypeOK' /\ Exclusive'
  BY <1>0, TakeIsExclusive DEF TypeOK
<1>2. /\ \A s \in Requests : held[s] \subseteq held'[s]
      /\ \A s \in Requests \ {r} : held'[s] = held[s] /\ at'[s] = at[s]
      /\ SubjectLock(r) \in held'[r]
      /\ at'[r] = stage
  BY <1>0, TakeIsExclusive
<1>3. ChainHeld'
  BY <1>0, <1>a, <1>2 DEF ChainHeld, Posting, IsTail
<1>4. NumberHeld' /\ SubjectHeld'
  BY <1>0, <1>a, <1>2, ApprovalAssumption DEF NumberHeld, SubjectHeld, Entitled
<1>5. ReferenceHeld'
  BY <1>0, <1>a, <1>2, ApprovalAssumption DEF ReferenceHeld
<1>6. GoodsHeld'
  <2>1. \A s \in Approvals : Len(Goods[s]) \in Nat /\ Len(Goods[s]) > 0
    BY GoodsAssumption
  <2> QED
    BY <1>0, <1>a, <1>2, <2>1, ApprovalAssumption DEF GoodsHeld, Ending
<1>7. TakenIsBooked' /\ ChainIsWhole' /\ InvoicesAreNumbered' /\ SalesAreCounted'
  BY <1>0 DEF TakenIsBooked, ChainIsWhole, InvoicesAreNumbered, SalesAreCounted
<1> QED
  BY <1>1, <1>3, <1>4, <1>5, <1>6, <1>7

LEMMA TakeGoodKeepsInv ==
    ASSUME Inv, NEW r \in Requests, TakeGood(r)
    PROVE  Inv'
<1> USE DEF Inv
<1> DEFINE stage == AfterGood(r)
           good == NextGood(r)
<1>b. /\ r \in Approvals /\ at[r] = "goods"
      /\ Len(Goods[r]) \in Nat /\ line[r] \in Nat /\ line[r] < Len(Goods[r])
      /\ good = Goods[r][line[r] + 1] /\ good \in Products
  BY GoodsAssumption DEF TakeGood, GoodsHeld, NextGood, TypeOK
<1>0. stage \in Stage /\ ProductLock(good) \in Locks /\ Take(r, ProductLock(good), stage)
      /\ line' = [line EXCEPT ![r] = @ + 1]
      /\ work' = [work EXCEPT ![r].count[good] = sales[good] + 1]
      /\ UNCHANGED <<lastSeq, chain, counter, invoices, sales, taken>>
  BY <1>b DEF TakeGood, AfterGood, Stage, Locks, books
<1>a. stage = IF line[r] + 1 < Len(Goods[r]) THEN "goods" ELSE "chain"
  BY DEF AfterGood
<1> HIDE DEF stage, good
<1>1. Exclusive'
  BY <1>0, TakeIsExclusive
<1>2. /\ \A s \in Requests : held[s] \subseteq held'[s]
      /\ \A s \in Requests \ {r} : held'[s] = held[s] /\ at'[s] = at[s]
      /\ ProductLock(good) \in held'[r]
      /\ at'[r] = stage
  BY <1>0, TakeIsExclusive
<1>3. /\ work' \in [Requests -> WorkType]
      /\ \A s \in Requests \ {r} : work'[s] = work[s]
      /\ \A p \in Products : work'[r].count[p] = IF p = good THEN sales[good] + 1 ELSE work[r].count[p]
  <2> DEFINE count == [work[r].count EXCEPT ![good] = sales[good] + 1]
             mine == [work[r] EXCEPT !.count = count]
  <2>1. work[r] \in WorkType /\ work[r].count \in [Products -> Nat] /\ sales[good] + 1 \in Nat
    BY <1>b DEF TypeOK, WorkType
  <2>2. count \in [Products -> Nat]
    BY <2>1, <1>b
  <2>3. mine \in WorkType /\ mine.count = count /\ mine.prev = work[r].prev
        /\ mine.seq = work[r].seq /\ mine.number = work[r].number
    BY <2>1, <2>2 DEF WorkType
  <2>4. work' = [work EXCEPT ![r] = mine]
    BY <1>0
  <2>5. \A p \in Products : count[p] = IF p = good THEN sales[good] + 1 ELSE work[r].count[p]
    BY <2>1
  <2> HIDE DEF mine, count
  <2> QED
    BY <2>3, <2>4, <2>5 DEF TypeOK
<1>4. TypeOK'
  <2>1. line' \in [Requests -> Nat]
    BY <1>0, <1>b DEF TypeOK
  <2>2. held' \in [Requests -> SUBSET Locks] /\ at' \in [Requests -> Stage \cup Ending]
    BY <1>0, TakeIsExclusive
  <2> QED
    BY <2>1, <2>2, <1>0, <1>3 DEF TypeOK
<1>5. ChainHeld'
  BY <1>0, <1>a, <1>b, <1>2, <1>3 DEF ChainHeld, Posting, IsTail
<1>6. NumberHeld' /\ SubjectHeld' /\ ReferenceHeld'
  BY <1>0, <1>a, <1>b, <1>2, <1>3, ApprovalAssumption
  DEF NumberHeld, SubjectHeld, ReferenceHeld, Entitled
<1>7. GoodsHeld'
  <2>1. \A s \in Requests \ {r} : line'[s] = line[s]
    BY <1>0 DEF TypeOK
  <2>2. line'[r] = line[r] + 1
    BY <1>0 DEF TypeOK
  <2>3. ASSUME NEW i \in 1..(line[r] + 1)
        PROVE  /\ ProductLock(Goods[r][i]) \in held'[r]
               /\ work'[r].count[Goods[r][i]] = sales[Goods[r][i]] + 1
    <3>1. i \in 1..Len(Goods[r]) /\ Goods[r][i] \in Products
      BY <1>b, GoodsAssumption
    <3>2. CASE i = line[r] + 1
      BY <3>1, <3>2, <1>b, <1>2, <1>3
    <3>3. CASE i \in 1..line[r]
      <4>1. Goods[r][i] # good
        BY <3>1, <3>3, <1>b, GoodsAssumption
      <4>2. /\ ProductLock(Goods[r][i]) \in held[r]
            /\ work[r].count[Goods[r][i]] = sales[Goods[r][i]] + 1
        BY <3>3, <1>b DEF GoodsHeld
      <4> QED
        BY <4>1, <4>2, <3>1, <1>2, <1>3
    <3> QED
      BY <3>2, <3>3, <1>b
  <2>4. \A s \in Approvals \ {r} :
          /\ line'[s] <= Len(Goods[s])
          /\ at'[s] \in {"idle", "subject"} \cup Ending => line'[s] = 0
          /\ at'[s] = "goods" => line'[s] < Len(Goods[s])
          /\ at'[s] \in {"chain", "number", "reference", "commit"} => line'[s] = Len(Goods[s])
          /\ \A i \in 1..line'[s] :
                /\ ProductLock(Goods[s][i]) \in held'[s]
                /\ work'[s].count[Goods[s][i]] = sales'[Goods[s][i]] + 1
    BY <2>1, <1>0, <1>2, <1>3, ApprovalAssumption DEF GoodsHeld
  <2>5. /\ line'[r] <= Len(Goods[r])
        /\ at'[r] \in {"idle", "subject"} \cup Ending => line'[r] = 0
        /\ at'[r] = "goods" => line'[r] < Len(Goods[r])
        /\ at'[r] \in {"chain", "number", "reference", "commit"} => line'[r] = Len(Goods[r])
    BY <2>2, <1>a, <1>b, <1>2 DEF Ending
  <2>6. \A s \in Requests \ Approvals : at'[s] \notin {"goods", "number", "reference"}
    BY <1>b, <1>2 DEF GoodsHeld
  <2> QED
    BY <2>2, <2>3, <2>4, <2>5, <2>6, <1>0 DEF GoodsHeld
<1>8. TakenIsBooked' /\ ChainIsWhole' /\ InvoicesAreNumbered' /\ SalesAreCounted'
  BY <1>0 DEF TakenIsBooked, ChainIsWhole, InvoicesAreNumbered, SalesAreCounted
<1> QED
  BY <1>1, <1>4, <1>5, <1>6, <1>7, <1>8

LEMMA TakeChainKeepsInv ==
    ASSUME Inv, NEW r \in Requests, TakeChain(r)
    PROVE  Inv'
<1> USE DEF Inv
<1> DEFINE stage == AfterChain(r)
<1>0. stage \in Stage /\ ChainLock \in Locks /\ Take(r, ChainLock, stage)
      /\ at[r] = "chain" /\ lastSeq' = lastSeq + 1
      /\ UNCHANGED <<line, chain, counter, invoices, sales, taken>>
  BY DEF TakeChain, AfterChain, Stage, Locks, books
<1>a. stage = IF r \in Approvals THEN "number" ELSE "subject"
  BY DEF AfterChain
<1>b. PICK n \in 0..lastSeq : /\ IsTail(n)
                              /\ work' = [work EXCEPT ![r].prev = n, ![r].seq = lastSeq + 1]
  BY DEF TakeChain
<1> HIDE DEF stage
<1>1. Exclusive'
  BY <1>0, TakeIsExclusive
<1>2. /\ \A s \in Requests : held[s] \subseteq held'[s]
      /\ \A s \in Requests \ {r} : held'[s] = held[s] /\ at'[s] = at[s]
      /\ ChainLock \in held'[r]
      /\ at'[r] = stage
  BY <1>0, TakeIsExclusive
<1>3. /\ work' \in [Requests -> WorkType]
      /\ \A s \in Requests \ {r} : work'[s] = work[s]
      /\ work'[r].prev = n /\ work'[r].seq = lastSeq + 1
      /\ work'[r].count = work[r].count
  <2>1. work[r] \in WorkType /\ lastSeq + 1 \in Nat /\ n \in Nat
    BY <1>b DEF TypeOK
  <2> QED
    BY <1>b, <2>1 DEF TypeOK, WorkType
<1>4. TypeOK'
  <2>1. lastSeq' \in Nat
    BY <1>0 DEF TypeOK
  <2> QED
    BY <2>1, <1>0, <1>3, TakeIsExclusive DEF TypeOK
<1>5. ChainHeld'
  <2>1. \A i \in DOMAIN chain : chain[i].seq \in Nat /\ chain[i].seq <= lastSeq
    <3>1. chain \in Seq(Entry)
      BY DEF TypeOK
    <3>2. \A i \in DOMAIN chain : chain[i] \in Entry
      BY <3>1
    <3> QED
      BY <3>2 DEF ChainHeld, Entry
  <2>2. n < lastSeq + 1 /\ lastSeq \in Nat
    BY <1>b DEF TypeOK
  <2>3. ASSUME NEW s \in Requests \ {r}, Posting(s)
        PROVE  work[s].seq \in Nat /\ work[s].seq <= lastSeq
    BY <2>3 DEF ChainHeld, TypeOK, WorkType
  <2>4. ASSUME NEW s \in Requests \ {r}, Posting(s)'
        PROVE  Posting(s)
    BY <2>4, <1>2 DEF Posting
  <2> QED
    BY <2>1, <2>2, <2>3, <2>4, <1>0, <1>b, <1>2, <1>3 DEF ChainHeld, IsTail
<1>6. NumberHeld' /\ SubjectHeld' /\ ReferenceHeld'
  BY <1>0, <1>a, <1>2, <1>3, ApprovalAssumption
  DEF NumberHeld, SubjectHeld, ReferenceHeld, Entitled
<1>7. GoodsHeld'
  BY <1>0, <1>a, <1>2, <1>3, ApprovalAssumption DEF GoodsHeld, Ending
<1>8. TakenIsBooked' /\ ChainIsWhole' /\ InvoicesAreNumbered' /\ SalesAreCounted'
  BY <1>0 DEF TakenIsBooked, ChainIsWhole, InvoicesAreNumbered, SalesAreCounted
<1> QED
  BY <1>1, <1>4, <1>5, <1>6, <1>7, <1>8

LEMMA TakeNumberKeepsInv ==
    ASSUME Inv, NEW r \in Requests, TakeNumber(r)
    PROVE  Inv'
<1> USE DEF Inv
<1> DEFINE stage == AfterNumber(r)
<1>b. r \in Approvals /\ at[r] = "number" /\ Year[r] \in Years
  BY DEF TakeNumber, GoodsHeld, Years
<1>0. stage \in Stage /\ CounterLock(Year[r]) \in Locks /\ Take(r, CounterLock(Year[r]), stage)
      /\ work' = [work EXCEPT ![r].number = counter[Year[r]]]
      /\ UNCHANGED <<line, lastSeq, chain, counter, invoices, sales, taken>>
  BY <1>b DEF TakeNumber, AfterNumber, Stage, Locks, books
<1>a. stage = IF Reference[r] = None THEN "commit" ELSE "reference"
  BY DEF AfterNumber
<1> HIDE DEF stage
<1>1. Exclusive'
  BY <1>0, TakeIsExclusive
<1>2. /\ \A s \in Requests : held[s] \subseteq held'[s]
      /\ \A s \in Requests \ {r} : held'[s] = held[s] /\ at'[s] = at[s]
      /\ CounterLock(Year[r]) \in held'[r]
      /\ at'[r] = stage
  BY <1>0, TakeIsExclusive
<1>3. /\ work' \in [Requests -> WorkType]
      /\ \A s \in Requests \ {r} : work'[s] = work[s]
      /\ work'[r].prev = work[r].prev /\ work'[r].seq = work[r].seq
      /\ work'[r].count = work[r].count
      /\ work'[r].number = counter[Year[r]]
  BY <1>0, <1>b DEF TypeOK, WorkType
<1>4. TypeOK'
  BY <1>0, <1>3, TakeIsExclusive DEF TypeOK
<1>5. ChainHeld'
  BY <1>0, <1>a, <1>b, <1>2, <1>3 DEF ChainHeld, Posting, IsTail
<1>6. NumberHeld' /\ SubjectHeld' /\ ReferenceHeld'
  BY <1>0, <1>a, <1>b, <1>2, <1>3, ApprovalAssumption
  DEF NumberHeld, SubjectHeld, ReferenceHeld, Entitled
<1>7. GoodsHeld'
  BY <1>0, <1>a, <1>b, <1>2, <1>3, ApprovalAssumption DEF GoodsHeld, Ending
<1>8. TakenIsBooked' /\ ChainIsWhole' /\ InvoicesAreNumbered' /\ SalesAreCounted'
  BY <1>0 DEF TakenIsBooked, ChainIsWhole, InvoicesAreNumbered, SalesAreCounted
<1> QED
  BY <1>1, <1>4, <1>5, <1>6, <1>7, <1>8

LEMMA TakeReferenceKeepsInv ==
    ASSUME Inv, NEW r \in Requests, TakeReference(r)
    PROVE  Inv'
<1> USE DEF Inv
<1>0. r \in Approvals /\ at[r] = "reference"
      /\ "commit" \in Stage /\ ReferenceLock(r) \in Locks /\ Take(r, ReferenceLock(r), "commit")
      /\ Reference[r] \notin taken
      /\ UNCHANGED <<line, work, lastSeq, chain, counter, invoices, sales, taken>>
  BY DEF TakeReference, GoodsHeld, Stage, Locks, books
<1>1. Exclusive'
  BY <1>0, TakeIsExclusive
<1>2. /\ \A s \in Requests : held[s] \subseteq held'[s]
      /\ \A s \in Requests \ {r} : held'[s] = held[s] /\ at'[s] = at[s]
      /\ ReferenceLock(r) \in held'[r]
      /\ at'[r] = "commit"
  BY <1>0, TakeIsExclusive
<1>4. TypeOK'
  BY <1>0, TakeIsExclusive DEF TypeOK
<1>5. ChainHeld'
  BY <1>0, <1>2 DEF ChainHeld, Posting, IsTail
<1>6. NumberHeld' /\ SubjectHeld' /\ ReferenceHeld'
  BY <1>0, <1>2, ApprovalAssumption DEF NumberHeld, SubjectHeld, ReferenceHeld, Entitled
<1>7. GoodsHeld'
  BY <1>0, <1>2, ApprovalAssumption DEF GoodsHeld, Ending
<1>8. TakenIsBooked' /\ ChainIsWhole' /\ InvoicesAreNumbered' /\ SalesAreCounted'
  BY <1>0 DEF TakenIsBooked, ChainIsWhole, InvoicesAreNumbered, SalesAreCounted
<1> QED
  BY <1>1, <1>4, <1>5, <1>6, <1>7, <1>8

\* A commit: r holds the ledger, its counter, its products and its claims, so
\* nobody else has read what it writes.
LEMMA CommitKeepsInv ==
    ASSUME Inv, NEW r \in Requests, Commit(r)
    PROVE  Inv'
<1> USE DEF Inv
<1> DEFINE entry == [by |-> r, seq |-> work[r].seq, prev |-> work[r].prev]
           invoice == [for |-> r, year |-> Year[r], number |-> work[r].number]
<1>0. /\ at[r] = "commit" /\ Posting(r) /\ Entitled(r)
      /\ chain' = Append(chain, entry)
      /\ at' = [at EXCEPT ![r] = "done"] /\ held' = [held EXCEPT ![r] = {}]
      /\ line' = [line EXCEPT ![r] = 0] /\ work' = [work EXCEPT ![r] = NoWork]
      /\ sales' = [p \in Products |-> IF p \in Sold(r) THEN work[r].count[p] ELSE sales[p]]
      /\ taken' = taken \cup Claims[r]
      /\ UNCHANGED lastSeq
  BY DEF Commit, End, Posting, Entitled
<1>1. /\ entry \in Entry /\ chain \in Seq(Entry) /\ Len(chain) \in Nat
      /\ Len(chain') = Len(chain) + 1 /\ chain' \in Seq(Entry)
      /\ DOMAIN chain = 1..Len(chain) /\ DOMAIN chain' = 1..(Len(chain) + 1)
      /\ \A i \in 1..Len(chain) : chain'[i] = chain[i] /\ chain[i] \in Entry
      /\ chain'[Len(chain) + 1] = entry
  <2>1. work[r] \in WorkType /\ chain \in Seq(Entry)
    BY DEF TypeOK
  <2>2. entry \in Entry
    BY <2>1 DEF WorkType, Entry
  <2>3. chain' = Append(chain, entry)
    BY <1>0
  <2> HIDE DEF entry
  <2>4. /\ Len(chain) \in Nat /\ DOMAIN chain = 1..Len(chain)
        /\ \A i \in 1..Len(chain) : chain[i] \in Entry
    BY <2>1
  <2> QED
    BY <2>1, <2>2, <2>3, <2>4
<1>2. entry.by = r /\ entry.seq = work[r].seq /\ entry.prev = work[r].prev
  OBVIOUS
<1> HIDE DEF entry
<1>3. ASSUME NEW s \in Requests, s # r
      PROVE  at'[s] = at[s] /\ held'[s] = held[s] /\ line'[s] = line[s] /\ work'[s] = work[s]
  BY <1>0, <1>3 DEF TypeOK
<1>4. at'[r] = "done" /\ held'[r] = {} /\ line'[r] = 0
  BY <1>0 DEF TypeOK
<1>5. /\ ChainLock \in held[r] /\ IsTail(work[r].prev) /\ work[r].prev < work[r].seq
      /\ work[r].seq <= lastSeq
      /\ \A i \in DOMAIN chain : chain[i].seq < work[r].seq
  BY <1>0 DEF ChainHeld
<1>6. ASSUME NEW s \in Requests, s # r
      PROVE  ~ Posting(s)
  BY <1>5, <1>6 DEF ChainHeld, Exclusive
<1>7. TypeOK'
  <2>1. work[r] \in WorkType
    BY DEF TypeOK
  <2>2. /\ at' \in [Requests -> Stage \cup Ending] /\ line' \in [Requests -> Nat]
        /\ held' \in [Requests -> SUBSET Locks] /\ work' \in [Requests -> WorkType]
    BY <1>0 DEF TypeOK, Ending, NoWork, WorkType
  <2>3. counter' \in [Years -> Nat] /\ invoices' \subseteq Invoice
    <3>1. Year[r] \in Years /\ work[r].number \in Nat /\ work[r].number + 1 \in Nat
      BY <2>1 DEF Years, WorkType
    <3> QED
      BY <3>1 DEF Commit, TypeOK, Invoice
  <2>4. sales' \in [Products -> Nat]
    BY <2>1, <1>0 DEF TypeOK, WorkType
  <2>5. taken' \subseteq {Subject[s] : s \in Requests} \cup ({Reference[s] : s \in Approvals} \ {None})
    BY <1>0 DEF TypeOK, Claims
  <2> QED
    BY <2>2, <2>3, <2>4, <2>5, <1>0, <1>1 DEF TypeOK
<1>8. Exclusive'
  BY <1>3, <1>4 DEF Exclusive
<1>9. ChainHeld'
  <2>1. \A i \in DOMAIN chain' : chain'[i].seq <= lastSeq
    BY <1>1, <1>2, <1>5 DEF ChainHeld
  <2>2. \A s \in Requests : ~ Posting(s)'
    <3>1. ASSUME NEW s \in Requests, s # r
          PROVE  ~ Posting(s)'
      BY <3>1, <1>3, <1>6 DEF Posting
    <3>2. ~ Posting(r)'
      BY <1>4 DEF Posting
    <3> QED
      BY <3>1, <3>2
  <2>3. \A i, j \in DOMAIN chain' : i < j => chain'[i].seq < chain'[j].seq
    BY <1>1, <1>2, <1>5 DEF ChainHeld
  <2> QED
    BY <2>1, <2>2, <2>3, <1>0 DEF ChainHeld
<1>10. NumberHeld'
  <2>1. \A s \in Approvals : at'[s] \notin {"reference", "commit"}
    BY <1>3, <1>4, <1>6, ApprovalAssumption DEF Posting
  <2>2. \A y \in Years : counter'[y] >= 1
    <3>1. work[r] \in WorkType /\ work[r].number \in Nat
      BY DEF TypeOK, WorkType
    <3>2. counter \in [Years -> Nat] /\ \A y \in Years : counter[y] >= 1
      BY DEF TypeOK, NumberHeld
    <3>3. \/ UNCHANGED counter
          \/ counter' = [counter EXCEPT ![Year[r]] = work[r].number + 1]
      BY DEF Commit
    <3>4. work[r].number + 1 >= 1
      BY <3>1
    <3> QED
      BY <3>2, <3>3, <3>4
  <2> QED
    BY <2>1, <2>2 DEF NumberHeld
<1>11. SubjectHeld'
  <2> SUFFICES ASSUME NEW s \in Requests, Entitled(s)'
               PROVE  SubjectLock(s) \in held'[s] /\ Subject[s] \notin taken'
    BY DEF SubjectHeld, SubjectLock
  <2>1. s # r
    BY <1>4 DEF Entitled
  <2>2. Entitled(s)
    BY <2>1, <1>3 DEF Entitled
  <2>3. SubjectLock(s) \in held[s] /\ Subject[s] \notin taken
    BY <2>2 DEF SubjectHeld
  <2>4. SubjectLock(r) \in held[r]
    BY <1>0 DEF SubjectHeld
  <2>5. Subject[s] # Subject[r]
    BY <2>1, <2>3, <2>4 DEF Exclusive, SubjectLock
  <2>6. Subject[s] \notin Claims[r]
    BY <2>5, ClaimAssumption DEF Claims
  <2> QED
    BY <2>1, <2>3, <2>6, <1>0, <1>3
<1>12. ReferenceHeld'
  BY <1>3, <1>4, <1>6, ApprovalAssumption DEF ReferenceHeld, Posting
<1>13. GoodsHeld'
  <2>1. \A s \in Requests \ Approvals : at'[s] \notin {"goods", "number", "reference"}
    BY <1>3, <1>4 DEF GoodsHeld
  <2>2. ASSUME NEW s \in Approvals, s # r, NEW i \in 1..line'[s]
        PROVE  /\ ProductLock(Goods[s][i]) \in held'[s]
               /\ work'[s].count[Goods[s][i]] = sales'[Goods[s][i]] + 1
    <3>1. s \in Requests /\ line'[s] = line[s] /\ line[s] \in Nat /\ line[s] <= Len(Goods[s])
      BY <1>3, <2>2, ApprovalAssumption DEF GoodsHeld, TypeOK
    <3>2. Goods[s][i] \in Products
      BY <3>1, <2>2, GoodsAssumption
    <3>3. /\ ProductLock(Goods[s][i]) \in held[s]
          /\ work[s].count[Goods[s][i]] = sales[Goods[s][i]] + 1
      BY <3>1, <2>2 DEF GoodsHeld
    <3>4. Goods[s][i] \notin Sold(r)
      <4> SUFFICES ASSUME r \in Approvals, NEW j \in DOMAIN Goods[r], Goods[s][i] = Goods[r][j]
                   PROVE  FALSE
        BY DEF Sold
      <4>1. j \in 1..line[r]
        BY <1>0, GoodsAssumption DEF GoodsHeld
      <4>2. ProductLock(Goods[r][j]) \in held[r]
        BY <4>1 DEF GoodsHeld
      <4> QED
        BY <4>2, <3>1, <3>3, <2>2 DEF Exclusive
    <3> QED
      BY <3>1, <3>2, <3>3, <3>4, <2>2, <1>0, <1>3
  <2>3. ASSUME NEW s \in Approvals
        PROVE  /\ line'[s] <= Len(Goods[s])
               /\ at'[s] \in {"idle", "subject"} \cup Ending => line'[s] = 0
               /\ at'[s] = "goods" => line'[s] < Len(Goods[s])
               /\ at'[s] \in {"chain", "number", "reference", "commit"} => line'[s] = Len(Goods[s])
    <3>1. Len(Goods[s]) \in Nat
      BY GoodsAssumption
    <3> QED
      BY <3>1, <1>3, <1>4, ApprovalAssumption DEF GoodsHeld
  <2>4. r \in Approvals => 1..line'[r] = {}
    BY <1>4
  <2> QED
    BY <2>1, <2>2, <2>3, <2>4 DEF GoodsHeld
<1>14. TakenIsBooked'
  BY <1>0, <1>1, <1>2 DEF TakenIsBooked, Claims
<1>15. ChainIsWhole'
  <2>1. ASSUME NEW i \in 1..Len(chain)
        PROVE  /\ chain'[i].prev = IF i = 1 THEN 0 ELSE chain'[i - 1].seq
               /\ chain'[i].prev < chain'[i].seq
    BY <1>1 DEF ChainIsWhole
  <2>2. entry.prev = IF Len(chain) = 0 THEN 0 ELSE chain[Len(chain)].seq
    <3>1. CASE Len(chain) = 0
      BY <3>1, <1>1, <1>2, <1>5 DEF IsTail
    <3>2. CASE Len(chain) # 0
      <4>1. ASSUME NEW i \in 1..Len(chain)
            PROVE  chain[i].seq <= chain[Len(chain)].seq
        <5> DEFINE last == Len(chain)
        <5>1. last \in 1..Len(chain) /\ i \in 1..Len(chain)
          BY <1>1, <3>2
        <5>2. chain[i] \in Entry /\ chain[last] \in Entry
          BY <1>1, <5>1
        <5>3. chain[i].seq \in Nat /\ chain[last].seq \in Nat
          BY <5>2 DEF Entry
        <5>4. i < last => chain[i].seq < chain[last].seq
          BY <5>1, <1>1 DEF ChainHeld
        <5>5. i = last \/ i < last
          <6>1. Len(chain) \in Nat /\ i \in Nat /\ i <= Len(chain)
            BY <1>1, <4>1
          <6> QED
            BY <6>1
        <5>6. CASE i = last
          <6>1. chain[i].seq = chain[last].seq
            BY <5>6
          <6> QED
            BY <6>1, <5>3
        <5>7. CASE i < last
          BY <5>3, <5>4, <5>7
        <5> QED
          BY <5>5, <5>6, <5>7
      <4>2. /\ Len(chain) \in DOMAIN chain /\ chain[Len(chain)].seq \in Nat
            /\ chain[Len(chain)].prev \in Nat
        BY <3>2, <1>1 DEF Entry
      <4>3. chain[Len(chain)].seq > 0
        BY <4>2 DEF ChainIsWhole
      <4>4. work[r].prev \in Nat /\ chain[Len(chain)].seq <= work[r].prev
        BY <4>2, <1>5 DEF IsTail, TypeOK, WorkType
      <4>5. PICK i \in DOMAIN chain : chain[i].seq = work[r].prev
        BY <4>2, <4>3, <4>4, <1>5 DEF IsTail
      <4>6. work[r].prev <= chain[Len(chain)].seq
        BY <4>1, <4>5, <1>1
      <4> QED
        BY <4>2, <4>4, <4>6, <3>2, <1>2
    <3> QED
      BY <3>1, <3>2
  <2> QED
    BY <2>1, <2>2, <1>1, <1>2, <1>5 DEF ChainIsWhole
<1>16. InvoicesAreNumbered'
  <2>1. CASE r \notin Approvals
    BY <2>1 DEF Commit, InvoicesAreNumbered
  <2>2. CASE r \in Approvals
    <3>1. /\ invoices' = invoices \cup {invoice}
          /\ counter' = [counter EXCEPT ![Year[r]] = work[r].number + 1]
      BY <2>2 DEF Commit
    <3>2. /\ Year[r] \in Years /\ counter[Year[r]] \in Nat /\ counter[Year[r]] >= 1
          /\ work[r].number = counter[Year[r]]
      BY <2>2, <1>0 DEF NumberHeld, Years, TypeOK
    <3>3. invoice.year = Year[r] /\ invoice.number = counter[Year[r]]
      BY <3>2
    <3> HIDE DEF invoice
    <3> SUFFICES ASSUME NEW y \in Years
                 PROVE  /\ {v.number : v \in {w \in invoices' : w.year = y}} = 1..(counter'[y] - 1)
                        /\ \A v, w \in {x \in invoices' : x.year = y} : v.number = w.number => v = w
      BY DEF InvoicesAreNumbered
    <3> DEFINE old == {w \in invoices : w.year = y}
    <3>4. /\ {v.number : v \in old} = 1..(counter[y] - 1)
          /\ \A v, w \in old : v.number = w.number => v = w
      BY DEF InvoicesAreNumbered
    <3>5. CASE y # Year[r]
      <4>1. {w \in invoices' : w.year = y} = old
        BY <3>1, <3>3, <3>5
      <4>2. counter'[y] = counter[y]
        BY <3>1, <3>5 DEF TypeOK
      <4> QED
        BY <4>1, <4>2, <3>4
    <3>6. CASE y = Year[r]
      <4>1. {w \in invoices' : w.year = y} = old \cup {invoice}
        BY <3>1, <3>3, <3>6
      <4>2. counter'[y] = counter[y] + 1 /\ counter[y] \in Nat /\ counter[y] >= 1
        BY <3>1, <3>2, <3>6 DEF TypeOK
      <4> HIDE DEF old
      <4>3. {v.number : v \in old \cup {invoice}} = {v.number : v \in old} \cup {counter[y]}
        BY <3>3, <3>6
      <4>4. 1..(counter'[y] - 1) = 1..(counter[y] - 1) \cup {counter[y]}
        BY <4>2
      <4>5. \A v \in old : v.number # invoice.number
        BY <3>3, <3>4, <3>6, <4>2
      <4> QED
        BY <4>1, <4>3, <4>4, <4>5, <3>4
    <3> QED
      BY <3>5, <3>6
  <2> QED
    BY <2>1, <2>2
<1>17. SalesAreCounted'
  <2> SUFFICES ASSUME NEW p \in Products
               PROVE  sales'[p] = Cardinality({i \in DOMAIN chain' : p \in Sold(chain'[i].by)})
    BY DEF SalesAreCounted, Sold
  <2> DEFINE old == {i \in 1..Len(chain) : p \in Sold(chain[i].by)}
             new == {i \in DOMAIN chain' : p \in Sold(chain'[i].by)}
  <2>1. sales[p] = Cardinality(old)
    BY <1>1 DEF SalesAreCounted
  <2>2. IsFiniteSet(old)
    <3>1. IsFiniteSet(1..Len(chain))
      BY <1>1, FS_Interval
    <3> QED
      BY <3>1, FS_Subset
  <2>3. CASE p \in Sold(r)
    <3>1. new = old \cup {Len(chain) + 1} /\ Len(chain) + 1 \notin old
      BY <1>1, <1>2, <2>3
    <3>2. Cardinality(new) = Cardinality(old) + 1
      BY <3>1, <2>2, FS_AddElement
    <3>3. sales'[p] = work[r].count[p]
      BY <1>0, <2>3
    <3>4. PICK i \in DOMAIN Goods[r] : p = Goods[r][i]
      BY <2>3 DEF Sold
    <3>5. r \in Approvals /\ i \in 1..line[r]
      BY <2>3, <1>0, <3>4, GoodsAssumption DEF Sold, GoodsHeld
    <3>6. work[r].count[p] = sales[p] + 1
      BY <3>4, <3>5 DEF GoodsHeld
    <3> QED
      BY <3>2, <3>3, <3>6, <2>1
  <2>4. CASE p \notin Sold(r)
    <3>1. new = old
      BY <1>1, <1>2, <2>4
    <3>2. sales'[p] = sales[p]
      BY <1>0, <2>4
    <3> QED
      BY <3>1, <3>2, <2>1
  <2> QED
    BY <2>3, <2>4
<1> QED
  BY <1>7, <1>8, <1>9, <1>10, <1>11, <1>12, <1>13, <1>14, <1>15, <1>16, <1>17

-----------------------------------------------------------------------------
(* The theorems.                                                           *)

LEMMA InitInv == Init => Inv
<1> SUFFICES ASSUME Init PROVE Inv
  OBVIOUS
<1> USE DEF Init
<1>1. TypeOK /\ Exclusive
  BY DEF TypeOK, Exclusive, Stage, Ending, NoWork, WorkType
<1>2. DOMAIN chain = {}
  OBVIOUS
<1>3. ChainHeld /\ NumberHeld /\ SubjectHeld /\ ReferenceHeld /\ TakenIsBooked /\ ChainIsWhole
  BY <1>2, ApprovalAssumption DEF ChainHeld, NumberHeld, SubjectHeld, ReferenceHeld,
     TakenIsBooked, ChainIsWhole, Posting, Entitled
<1>4. GoodsHeld
  <2>1. \A r \in Approvals : r \in Requests /\ Len(Goods[r]) \in Nat
    BY ApprovalAssumption, GoodsAssumption
  <2>2. \A r \in Approvals : 1..line[r] = {}
    BY <2>1
  <2> QED
    BY <2>1, <2>2 DEF GoodsHeld, Ending
<1>5. InvoicesAreNumbered
  BY DEF InvoicesAreNumbered
<1>6. SalesAreCounted
  BY <1>2, FS_EmptySet DEF SalesAreCounted
<1> QED
  BY <1>1, <1>3, <1>4, <1>5, <1>6 DEF Inv

LEMMA NextInv == Inv /\ [Next]_vars => Inv'
<1> SUFFICES ASSUME Inv, [Next]_vars PROVE Inv'
  OBVIOUS
<1>1. ASSUME NEW r \in Requests, Begin(r) PROVE Inv'
  BY <1>1, BeginKeepsInv
<1>2. ASSUME NEW r \in Requests, Step(r) PROVE Inv'
  <2>1. ASSUME RefuseSubject(r) \/ RefuseReference(r) PROVE Inv'
    BY <2>1, EndKeepsInv DEF RefuseSubject, RefuseReference, Ending
  <2> QED
    BY <1>2, <2>1, TakeSubjectKeepsInv, TakeGoodKeepsInv, TakeChainKeepsInv,
       TakeNumberKeepsInv, TakeReferenceKeepsInv, CommitKeepsInv DEF Step
<1>3. ASSUME NEW r \in Requests, Fail(r) \/ Victim(r) PROVE Inv'
  BY <1>3, EndKeepsInv DEF Fail, Victim, Ending
<1>4. CASE UNCHANGED vars
  <2> USE <1>4 DEF vars, books
  <2>1. TypeOK' /\ Exclusive' /\ ChainHeld' /\ NumberHeld' /\ SubjectHeld' /\ ReferenceHeld'
    BY DEF Inv, TypeOK, Exclusive, ChainHeld, Posting, IsTail, NumberHeld, SubjectHeld,
       Entitled, ReferenceHeld
  <2>2. GoodsHeld' /\ TakenIsBooked' /\ ChainIsWhole' /\ InvoicesAreNumbered' /\ SalesAreCounted'
    BY DEF Inv, GoodsHeld, TakenIsBooked, ChainIsWhole, InvoicesAreNumbered, SalesAreCounted
  <2> QED
    BY <2>1, <2>2 DEF Inv
<1> QED
  BY <1>1, <1>2, <1>3, <1>4 DEF Next

\* Types, locks, what was read under them and what was committed hold together.
THEOREM Invariance == Spec => []Inv
BY InitInv, NextInv, PTL DEF Spec

\* Every variable keeps its type.
THEOREM TypeCorrect == Spec => []TypeOK
<1>1. Inv => TypeOK
  BY DEF Inv
<1> QED
  BY <1>1, Invariance, PTL

\* app_verify_ledger_chain finds no broken link, however many postings ran
\* together and rolled back.
THEOREM ChainCorrect == Spec => []ChainIsWhole
<1>1. Inv => ChainIsWhole
  BY DEF Inv
<1> QED
  BY <1>1, Invariance, PTL

\* The invoice numbers of every year are 1, 2, 3 ... with no gap and no repeat.
THEOREM InvoicesCorrect == Spec => []InvoicesAreNumbered
<1>1. Inv => InvoicesAreNumbered
  BY DEF Inv
<1> QED
  BY <1>1, Invariance, PTL

\* No increment of products.sales_count is lost.
THEOREM SalesCorrect == Spec => []SalesAreCounted
<1>1. Inv => SalesAreCounted
  BY DEF Inv
<1> QED
  BY <1>1, Invariance, PTL

\* Every step is the booking of one request that conflicts with none booked
\* before, or no step of the journal at all.
LEMMA StepIsBooking == Inv /\ [Next]_vars => [J!Next]_Log
<1> SUFFICES ASSUME Inv, [Next]_vars PROVE [J!Next]_Log
  OBVIOUS
<1>1. ASSUME UNCHANGED chain PROVE [J!Next]_Log
  BY <1>1 DEF Log
<1>2. ASSUME NEW r \in Requests, Commit(r) PROVE J!Next
  <2>1. /\ chain \in Seq(Entry) /\ Len(chain) \in Nat /\ work[r] \in WorkType
        /\ [by |-> r, seq |-> work[r].seq, prev |-> work[r].prev] \in Entry
        /\ chain' = Append(chain, [by |-> r, seq |-> work[r].seq, prev |-> work[r].prev])
    BY <1>2 DEF Inv, TypeOK, Commit, Entry, WorkType
  <2>2. /\ DOMAIN chain' = 1..(Len(chain) + 1)
        /\ \A i \in 1..Len(chain) : chain'[i].by = chain[i].by
        /\ chain'[Len(chain) + 1].by = r
    BY <2>1
  <2>3. Log \in Seq(Requests) /\ Len(Log) = Len(chain) /\ DOMAIN Log = 1..Len(chain)
    <3>1. DOMAIN chain = 1..Len(chain) /\ \A i \in 1..Len(chain) : chain[i] \in Entry
      BY <2>1
    <3>2. \A i \in 1..Len(chain) : chain[i].by \in Requests
      BY <3>1 DEF Entry
    <3>3. Log = [i \in 1..Len(chain) |-> chain[i].by]
      BY <3>1 DEF Log
    <3> QED
      BY <2>1, <3>2, <3>3
  <2>4. Log' = Append(Log, r)
    BY <2>2, <2>3 DEF Log
  <2>5. ASSUME NEW s \in J!BookedIn(Log) PROVE Claims[r] \cap Claims[s] = {}
    <3>1. PICK i \in DOMAIN chain : s = chain[i].by
      BY <2>5 DEF J!BookedIn, Log
    <3>2. Claims[s] \subseteq taken
      BY <3>1 DEF Inv, TakenIsBooked
    <3>3. Subject[r] \notin taken
      BY <1>2 DEF Inv, SubjectHeld, Entitled, Commit
    <3>4. r \in Approvals /\ Reference[r] # None => Reference[r] \notin taken
      BY <1>2 DEF Inv, ReferenceHeld, Commit
    <3> QED
      BY <3>2, <3>3, <3>4 DEF Claims
  <2> QED
    BY <2>4, <2>5 DEF J!Next, J!Book
<1>3. ASSUME NEW r \in Requests, Begin(r) \/ Fail(r) \/ Victim(r) PROVE UNCHANGED chain
  BY <1>3 DEF Begin, Fail, Victim, books
<1>4. ASSUME NEW r \in Requests, Step(r), ~ Commit(r) PROVE UNCHANGED chain
  BY <1>4 DEF Step, TakeSubject, RefuseSubject, TakeGood, TakeChain, TakeNumber,
     TakeReference, RefuseReference, books
<1>5. ASSUME UNCHANGED vars PROVE UNCHANGED chain
  BY <1>5 DEF vars, books
<1> QED
  BY <1>1, <1>2, <1>3, <1>4, <1>5 DEF Next

\* The books are atomic: they behave as if the requests took effect one after
\* the other, each whole, and none of what may happen once happened twice.
THEOREM BooksAreAtomic == Spec => Atomic
<1>1. Init => J!Init
  BY DEF Init, J!Init, Log
<1>2. Inv /\ [Next]_vars => [J!Next]_Log
  BY StepIsBooking
<1> QED
  BY <1>1, <1>2, Invariance, PTL DEF Spec, Atomic, J!Spec

-----------------------------------------------------------------------------
(* Who can keep whom waiting.                                              *)

\* The locks r can hold at this point of its transaction.
Own(r, lock) ==
    \/ lock = SubjectLock(r) /\ Entitled(r)
    \/ lock = ChainLock /\ Posting(r)
    \/ /\ r \in Approvals
       /\ at[r] \in {"goods", "chain", "number", "reference", "commit"}
       /\ \E i \in 1..line[r] : lock = ProductLock(Goods[r][i])
    \/ r \in Approvals /\ at[r] \in {"reference", "commit"} /\ lock = CounterLock(Year[r])
    \/ r \in Approvals /\ at[r] = "commit" /\ lock = ReferenceLock(r)

HeldIsOwn == \A r \in Requests : \A lock \in held[r] : Own(r, lock)

\* What a request that takes nothing, or gives everything back, holds is its own.
LEMMA OthersKeepOwn ==
    ASSUME Inv, HeldIsOwn, NEW r \in Requests,
           \A s \in Requests \ {r} : held'[s] = held[s] /\ at'[s] = at[s] /\ line'[s] = line[s],
           held'[r] = {}
    PROVE  HeldIsOwn'
<1> SUFFICES ASSUME NEW s \in Requests, NEW lock \in held'[s]
             PROVE  Own(s, lock)'
  BY DEF HeldIsOwn, Own, SubjectLock, ChainLock, ProductLock, CounterLock, ReferenceLock
<1>1. s # r
  OBVIOUS
<1> QED
  BY <1>1 DEF HeldIsOwn, Own, Entitled, Posting

LEMMA TakerKeepsOwn ==
    ASSUME Inv, HeldIsOwn, NEW r \in Requests, Step(r), held'[r] # {}
    PROVE  \A lock \in held'[r] : Own(r, lock)'
<1> SUFFICES ASSUME NEW lock \in held'[r]
             PROVE  Own(r, lock)'
  OBVIOUS
<1> USE DEF Inv
<1>0. held \in [Requests -> SUBSET Locks] /\ at \in [Requests -> Stage \cup Ending]
      /\ line \in [Requests -> Nat]
  BY DEF TypeOK
<1>1. CASE TakeSubject(r)
  <2>1. /\ at[r] = "subject" /\ held'[r] = held[r] \cup {SubjectLock(r)} /\ line'[r] = line[r]
        /\ at'[r] = IF r \in Approvals THEN "goods" ELSE "commit"
    BY <1>0, <1>1 DEF TakeSubject, Take, AfterSubject
  <2> QED
    BY <2>1 DEF HeldIsOwn, Own, Entitled, Posting
<1>2. CASE TakeGood(r)
  <2>1. /\ at[r] = "goods" /\ held'[r] = held[r] \cup {ProductLock(NextGood(r))}
        /\ line'[r] = line[r] + 1 /\ line[r] \in Nat
        /\ at'[r] \in {"goods", "chain"} /\ r \in Approvals
    BY <1>0, <1>2 DEF TakeGood, Take, AfterGood, GoodsHeld
  <2>2. CASE lock \in held[r]
    <3>1. \A i \in 1..line[r] : i \in 1..line'[r]
      BY <2>1
    <3> QED
      BY <3>1, <2>1, <2>2 DEF HeldIsOwn, Own, Entitled, Posting
  <2>3. CASE lock = ProductLock(NextGood(r))
    <3>1. line[r] + 1 \in 1..line'[r]
      BY <2>1
    <3> QED
      BY <3>1, <2>1, <2>3 DEF NextGood, Own
  <2> QED
    BY <2>1, <2>2, <2>3
<1>3. CASE TakeChain(r)
  <2>1. /\ at[r] = "chain" /\ held'[r] = held[r] \cup {ChainLock} /\ line'[r] = line[r]
        /\ at'[r] = IF r \in Approvals THEN "number" ELSE "subject"
    BY <1>0, <1>3 DEF TakeChain, Take, AfterChain
  <2> QED
    BY <2>1 DEF HeldIsOwn, Own, Entitled, Posting
<1>4. CASE TakeNumber(r)
  <2>1. /\ at[r] = "number" /\ held'[r] = held[r] \cup {CounterLock(Year[r])} /\ line'[r] = line[r]
        /\ at'[r] \in {"reference", "commit"} /\ r \in Approvals
    BY <1>0, <1>4 DEF TakeNumber, Take, AfterNumber, GoodsHeld
  <2> QED
    BY <2>1 DEF HeldIsOwn, Own, Entitled, Posting
<1>5. CASE TakeReference(r)
  <2>1. /\ at[r] = "reference" /\ held'[r] = held[r] \cup {ReferenceLock(r)} /\ line'[r] = line[r]
        /\ at'[r] = "commit" /\ r \in Approvals
    BY <1>0, <1>5 DEF TakeReference, Take, GoodsHeld
  <2> QED
    BY <2>1 DEF HeldIsOwn, Own, Entitled, Posting
<1>6. ASSUME RefuseSubject(r) \/ RefuseReference(r) \/ Commit(r) PROVE FALSE
  BY <1>0, <1>6 DEF RefuseSubject, RefuseReference, Commit, End
<1> QED
  BY <1>1, <1>2, <1>3, <1>4, <1>5, <1>6 DEF Step

\* A step of r changes nothing of another request's.
LEMMA OwnStep ==
    ASSUME TypeOK, NEW r \in Requests, Begin(r) \/ Step(r) \/ Fail(r) \/ Victim(r),
           NEW s \in Requests \ {r}
    PROVE  held'[s] = held[s] /\ at'[s] = at[s] /\ line'[s] = line[s]
BY DEF TypeOK, Begin, Step, Fail, Victim, TakeSubject, RefuseSubject, TakeGood, TakeChain,
   TakeNumber, TakeReference, RefuseReference, Commit, Take, End

LEMMA HeldInv == Inv /\ HeldIsOwn /\ [Next]_vars => HeldIsOwn'
<1> SUFFICES ASSUME Inv, HeldIsOwn, [Next]_vars PROVE HeldIsOwn'
  OBVIOUS
<1>1. ASSUME UNCHANGED vars PROVE HeldIsOwn'
  BY <1>1 DEF vars, HeldIsOwn, Own, Entitled, Posting
<1>2. ASSUME NEW r \in Requests, Begin(r) \/ Step(r) \/ Fail(r) \/ Victim(r) PROVE HeldIsOwn'
  <2>1. TypeOK
    BY DEF Inv
  <2>2. \A s \in Requests \ {r} : held'[s] = held[s] /\ at'[s] = at[s] /\ line'[s] = line[s]
    BY <1>2, <2>1, OwnStep
  <2>3. CASE held'[r] = {}
    BY <2>2, <2>3, OthersKeepOwn
  <2>4. CASE Step(r) /\ held'[r] # {}
    <3>1. ASSUME NEW s \in Requests \ {r}, NEW lock \in held'[s]
          PROVE  Own(s, lock)'
      BY <2>2, <3>1 DEF HeldIsOwn, Own, Entitled, Posting
    <3> QED
      BY <2>4, <3>1, TakerKeepsOwn
      DEF HeldIsOwn
  <2>5. CASE Begin(r) /\ held'[r] # {}
    <3>1. held'[r] = held[r] /\ at[r] = "idle" /\ line'[r] = line[r]
      BY <2>5 DEF Begin
    <3>2. FALSE
      BY <3>1, <2>5 DEF HeldIsOwn, Own, Entitled, Posting
    <3> QED
      BY <3>2
  <2>6. Fail(r) \/ Victim(r) => held'[r] = {}
    BY <2>1 DEF Fail, Victim, End, TypeOK
  <2> QED
    BY <1>2, <2>3, <2>4, <2>5, <2>6
<1> QED
  BY <1>1, <1>2 DEF Next

\* The locks of a request are those its stage says, in every reachable state.
THEOREM OwnLocks == Spec => [](Inv /\ HeldIsOwn)
<1>1. Init => HeldIsOwn
  BY DEF Init, HeldIsOwn
<1>2. Init => Inv
  BY InitInv
<1>3. Inv /\ [Next]_vars => Inv'
  BY NextInv
<1>4. Inv /\ HeldIsOwn /\ [Next]_vars => HeldIsOwn'
  BY HeldInv
<1> QED
  BY <1>1, <1>2, <1>3, <1>4, PTL DEF Spec
\* A set of naturals that is not empty has a least element.
LEMMA Least ==
    ASSUME NEW T \in SUBSET Nat, T # {}
    PROVE  \E x \in T : \A y \in T : x <= y
<1>1. PICK x \in T : \A y \in T : ~ (<<y, x>> \in OpToRel(<, Nat))
    BY NatLessThanWellFounded, WFMin
<1>2. ASSUME NEW y \in T PROVE x <= y
    <2>1. <<y, x>> \in Nat \X Nat
        OBVIOUS
    <2>2. ~ (y < x)
        BY <1>1, <2>1 DEF OpToRel
    <2>3. y \in Nat /\ x \in Nat
        OBVIOUS
    <2> QED BY <2>2, <2>3
<1> QED BY <1>2


-----------------------------------------------------------------------------
(* Circles.                                                                *)

\* Whoever is kept waiting is open, and so is whoever keeps it waiting.
LEMMA WaitersAreOpen ==
    ASSUME Inv, HeldIsOwn, NEW r \in Requests, NEW s \in Requests, WaitsFor(r, s)
    PROVE  /\ Open(r) /\ Open(s) /\ r # s
           /\ at[s] = "subject" => s \notin Approvals
<1>1. Open(r) /\ r # s
  BY DEF WaitsFor, Wants, Open, Ending
<1>2. PICK lock \in held[s] : Own(s, lock)
  BY DEF WaitsFor, HeldIsOwn
<1>3. Posting(s) \/ Entitled(s) \/ at[s] \in {"goods", "chain", "number", "reference", "commit"}
  BY <1>2 DEF Own
<1>4. Open(s)
  BY <1>3 DEF Posting, Entitled, Open, Ending
<1>5. at[s] = "subject" => s \notin Approvals
  BY <1>3 DEF Posting, Entitled
<1> QED
  BY <1>1, <1>4, <1>5

\* Who holds the ledger waits for nobody: the counter, a reference and a
\* correction's key are only taken under the ledger's lock.
LEMMA PostingNeverWaits ==
    ASSUME Inv, HeldIsOwn, NEW r \in Requests, NEW s \in Requests, Posting(r), WaitsFor(r, s)
    PROVE  FALSE
<1>1. r # s /\ \A t \in Requests : Posting(t) => t = r
  BY DEF Inv, ChainHeld, Exclusive, WaitsFor
<1>2. PICK lock \in held[s] : Wants(r, lock) /\ Own(s, lock)
  BY DEF WaitsFor, HeldIsOwn
<1>3. CASE at[r] \in {"number", "reference"}
  <2>1. r \in Approvals
    BY <1>3 DEF Inv, GoodsHeld
  <2>2. lock = CounterLock(Year[r]) \/ lock = ReferenceLock(r)
    BY <1>2, <1>3 DEF Wants
  <2>3. at[s] \in {"reference", "commit"}
    BY <1>2, <2>2
    DEF Own, SubjectLock, ChainLock, ProductLock, CounterLock, ReferenceLock
  <2> QED
    BY <2>3, <1>1 DEF Posting
<1>4. CASE at[r] = "subject" /\ r \notin Approvals
  <2>1. lock = SubjectLock(r)
    BY <1>2, <1>4 DEF Wants
  <2>2. lock = SubjectLock(s) /\ Entitled(s)
    BY <1>2, <2>1
    DEF Own, SubjectLock, ChainLock, ProductLock, CounterLock, ReferenceLock
  <2>3. Subject[r] = Subject[s]
    BY <2>1, <2>2 DEF SubjectLock
  <2>4. s \notin Approvals
    BY <2>3, <1>4, ClaimAssumption
  <2>5. at[s] = "commit"
    BY <2>2, <2>4 DEF Entitled
  <2> QED
    BY <2>5, <1>1 DEF Posting
<1>5. at[r] # "commit"
  BY <1>2 DEF Wants
<1> QED
  BY <1>3, <1>4, <1>5 DEF Posting

\* A set of requests of which each waits for, and is waited for by, another.
Circle(C) ==
    /\ C \subseteq Requests
    /\ \A s \in C : \E t \in C : WaitsFor(s, t)
    /\ \A s \in C : \E t \in C : WaitsFor(t, s)

\* Only products are waited for in a circle.
LEMMA CirclesAreOfGoods ==
    ASSUME Inv, HeldIsOwn, NEW C, Circle(C), NEW r \in C
    PROVE  at[r] = "goods" /\ r \in Approvals
<1>1. r \in Requests
  BY DEF Circle
<1>2. PICK s \in C : WaitsFor(r, s)
  BY DEF Circle
<1>3. PICK t \in C : WaitsFor(t, r)
  BY DEF Circle
<1>4. s \in Requests /\ t \in Requests
  BY DEF Circle
<1>5. ~ Posting(r) /\ ~ Posting(s)
  <2>1. PICK u \in C : WaitsFor(s, u)
    BY DEF Circle
  <2>2. u \in Requests
    BY DEF Circle
  <2> QED
    BY <1>1, <1>2, <1>4, <2>1, <2>2, PostingNeverWaits
<1>6. Open(r) /\ (at[r] = "subject" => r \notin Approvals)
  BY <1>1, <1>3, <1>4, WaitersAreOpen
<1>7. at[r] # "chain"
  <2> SUFFICES ASSUME at[r] = "chain" PROVE FALSE
    OBVIOUS
  <2>1. ChainLock \in held[s]
    BY <1>2 DEF WaitsFor, Wants
  <2>2. Own(s, ChainLock)
    BY <2>1, <1>4 DEF HeldIsOwn
  <2>3. Posting(s)
    BY <2>2 DEF Own, SubjectLock, ChainLock, ProductLock, CounterLock, ReferenceLock
  <2> QED
    BY <2>3, <1>5
<1>8. at[r] \in Stage \cup Ending
  BY <1>1 DEF Inv, TypeOK
<1>9. at[r] = "goods"
  BY <1>5, <1>6, <1>7, <1>8 DEF Posting, Open, Stage
<1> QED
  BY <1>1, <1>9 DEF Inv, GoodsHeld

LEMMA CrosswiseIsCircle ==
    ASSUME NEW r \in Requests
    PROVE  Crosswise(r) <=> \E C \in SUBSET Requests : r \in C /\ Circle(C)
<1>1. ASSUME Crosswise(r)
      PROVE  \E C \in SUBSET Requests : r \in C /\ Circle(C)
  BY <1>1 DEF Crosswise, Circle, Blocked
<1>2. ASSUME NEW C \in SUBSET Requests, r \in C, Circle(C)
      PROVE  Crosswise(r)
  <2>1. C \in SUBSET Blocked
    BY <1>2 DEF Circle, Blocked
  <2> QED
    BY <1>2, <2>1 DEF Crosswise, Circle
<1> QED
  BY <1>1, <1>2

\* If no one keeps going, there is a circle: follow who waits for whom in the
\* smallest set of open requests that leads nowhere else.
LEMMA StandstillIsCircle ==
    ASSUME Inv, HeldIsOwn, IsFiniteSet(Requests), NEW r \in Requests, Open(r),
           \A s \in Requests : Open(s) => \E t \in Requests : WaitsFor(s, t)
    PROVE  \E s \in Requests : Crosswise(s)
<1> DEFINE Trapped(S) == S # {} /\ \A s \in S : \E t \in S : WaitsFor(s, t)
           Sizes == {n \in Nat : \E S \in SUBSET Requests : Trapped(S) /\ Cardinality(S) = n}
           all == {s \in Requests : Open(s)}
<1>1. \A S \in SUBSET Requests : IsFiniteSet(S) /\ Cardinality(S) \in Nat
  BY FS_Subset, FS_CardinalityType
<1>2. Trapped(all)
  BY WaitersAreOpen
<1>3. Sizes # {}
  BY <1>1, <1>2
<1>4. PICK n \in Sizes : \A m \in Sizes : n <= m
  BY <1>3, Least
<1>5. PICK S \in SUBSET Requests : Trapped(S) /\ Cardinality(S) = n
  OBVIOUS
<1>6. ASSUME NEW s \in S, \A t \in S : ~ WaitsFor(t, s)
      PROVE  FALSE
  <2>1. Trapped(S \ {s})
    <3>1. \A t \in S \ {s} : \E u \in S \ {s} : WaitsFor(t, u)
      BY <1>5, <1>6
    <3>2. PICK t \in S : WaitsFor(s, t)
      BY <1>5
    <3>3. t # s
      BY <3>2 DEF WaitsFor
    <3> QED
      BY <3>1, <3>2, <3>3
  <2>2. Cardinality(S \ {s}) = n - 1 /\ n \in Nat
    BY <1>1, <1>5, FS_RemoveElement
  <2>3. Cardinality(S \ {s}) \in Sizes
    BY <1>1, <2>1
  <2> QED
    BY <1>4, <2>2, <2>3
<1>7. Circle(S)
  BY <1>5, <1>6 DEF Circle
<1>8. PICK s \in S : TRUE
  BY <1>5
<1> QED
  BY <1>5, <1>7, <1>8, CrosswiseIsCircle

\* The ledger always has a last entry, or none, for the next posting to name.
LEMMA TailExists == Inv => \E n \in 0..lastSeq : IsTail(n)
<1> SUFFICES ASSUME Inv PROVE \E n \in 0..lastSeq : IsTail(n)
  OBVIOUS
<1>1. /\ chain \in Seq(Entry) /\ Len(chain) \in Nat /\ DOMAIN chain = 1..Len(chain)
      /\ lastSeq \in Nat
  BY DEF Inv, TypeOK
<1>2. \A i \in 1..Len(chain) : chain[i].seq \in Nat /\ chain[i].seq <= lastSeq
  <2>1. \A i \in 1..Len(chain) : chain[i] \in Entry
    BY <1>1
  <2> QED
    BY <2>1, <1>1 DEF Inv, ChainHeld, Entry
<1>3. CASE Len(chain) = 0
  BY <1>1, <1>3 DEF IsTail
<1>4. CASE Len(chain) # 0
  <2> DEFINE n == chain[Len(chain)].seq
  <2>1. Len(chain) \in 1..Len(chain)
    BY <1>1, <1>4
  <2>2. n \in 0..lastSeq
    BY <2>1, <1>1, <1>2
  <2>3. \A i \in 1..Len(chain) : i < Len(chain) => chain[i].seq < n
    BY <2>1, <1>1 DEF Inv, ChainHeld
  <2>4. \A i \in 1..Len(chain) : i < Len(chain) \/ i = Len(chain)
    <3>1. \A k \in Nat : \A i \in 1..k : i < k \/ i = k
      OBVIOUS
    <3> QED
      BY <3>1, <1>1
  <2>5. \A i \in 1..Len(chain) : chain[i].seq <= n
    BY <2>1, <2>3, <2>4, <1>2
  <2> QED
    BY <2>1, <2>2, <2>5, <1>1 DEF IsTail
<1> QED
  BY <1>3, <1>4

\* An open request that waits for nobody can go on.
LEMMA FreeToGo ==
    ASSUME Inv, NEW r \in Requests, Open(r), \A s \in Requests : ~ WaitsFor(r, s)
    PROVE  Goes(r)
<1>1. \A lock : Wants(r, lock) => Free(lock, r)
  BY DEF WaitsFor, Free
<1>2. \E n \in 0..lastSeq : IsTail(n)
  BY TailExists
<1>3. at[r] \in {"subject", "goods", "chain", "number", "reference", "commit"}
  BY DEF Inv, TypeOK, Open, Stage
<1>4. CASE at[r] = "subject"
  BY <1>1, <1>4 DEF Goes, Wants, Locks
<1>5. CASE at[r] = "goods"
  <2>1. r \in Approvals /\ line[r] \in Nat /\ line[r] < Len(Goods[r]) /\ Len(Goods[r]) \in Nat
    BY <1>5, GoodsAssumption DEF Inv, GoodsHeld, TypeOK
  <2>2. NextGood(r) \in Products
    BY <2>1, GoodsAssumption DEF NextGood
  <2> QED
    BY <1>1, <1>5, <2>2 DEF Goes, Wants, Locks
<1>6. CASE at[r] = "chain"
  BY <1>1, <1>2, <1>6 DEF Goes, Wants, Locks
<1>7. CASE at[r] = "number"
  BY <1>1, <1>7 DEF Goes, Wants, Locks, Years
<1>8. CASE at[r] = "reference"
  <2>1. r \in Approvals
    BY <1>8 DEF Inv, GoodsHeld
  <2> QED
    BY <2>1, <1>1, <1>8 DEF Goes, Wants, Locks
<1> QED
  BY <1>3, <1>4, <1>5, <1>6, <1>7, <1>8 DEF Goes

\* The transactions of a finite set never come to a standstill that the detector
\* does not break, and only product rows can bring them to one: what
\* order-lock.ts:12 says of an order and its payments holds of every other lock.
THEOREM ProgressCorrect ==
    ASSUME IsFiniteSet(Requests)
    PROVE  Spec => []NeverStuck
<1>1. ASSUME Inv, HeldIsOwn, \E r \in Requests : Open(r)
      PROVE  \E r \in Requests : Goes(r) \/ Crosswise(r)
  <2>1. CASE \A s \in Requests : Open(s) => \E t \in Requests : WaitsFor(s, t)
    BY <1>1, <2>1, StandstillIsCircle
  <2>2. CASE \E s \in Requests : Open(s) /\ \A t \in Requests : ~ WaitsFor(s, t)
    BY <1>1, <2>2, FreeToGo
  <2> QED
    BY <2>1, <2>2
<1>2. ASSUME Inv, HeldIsOwn, NEW r \in Requests, Crosswise(r)
      PROVE  at[r] = "goods"
  BY <1>2, CrosswiseIsCircle, CirclesAreOfGoods
<1>3. Inv /\ HeldIsOwn => NeverStuck
  BY <1>1, <1>2 DEF NeverStuck
<1> QED
  BY <1>3, OwnLocks, PTL

\* Were the lines of every order updated in one order of the products, whichever,
\* no two approvals would ever wait on each other and the detector would have
\* nothing to do.
THEOREM SortedNeverCross ==
    ASSUME NEW rank \in [Products -> Nat],
           \A r \in Approvals : \A i, j \in DOMAIN Goods[r] :
              i < j => rank[Goods[r][i]] < rank[Goods[r][j]]
    PROVE  Spec => [](\A r \in Requests : ~ Crosswise(r))
<1>1. ASSUME Inv, HeldIsOwn, NEW C \in SUBSET Requests, Circle(C), NEW r \in C
      PROVE  FALSE
  <2> DEFINE Ranks == {rank[NextGood(s)] : s \in C}
  <2>1. ASSUME NEW s \in C
        PROVE  /\ s \in Approvals /\ at[s] = "goods"
               /\ line[s] \in Nat /\ Len(Goods[s]) \in Nat /\ line[s] < Len(Goods[s])
               /\ DOMAIN Goods[s] = 1..Len(Goods[s])
               /\ NextGood(s) \in Products /\ rank[NextGood(s)] \in Nat
    <3>1. s \in Approvals /\ at[s] = "goods"
      BY <1>1, CirclesAreOfGoods
    <3>2. /\ line[s] \in Nat /\ Len(Goods[s]) \in Nat /\ line[s] < Len(Goods[s])
          /\ DOMAIN Goods[s] = 1..Len(Goods[s])
      BY <1>1, <3>1, GoodsAssumption DEF Inv, GoodsHeld, TypeOK
    <3>3. NextGood(s) \in Products
      BY <3>1, <3>2, GoodsAssumption DEF NextGood
    <3> QED
      BY <3>1, <3>2, <3>3
  <2>2. Ranks # {} /\ Ranks \in SUBSET Nat
    BY <1>1, <2>1
  <2>3. PICK n \in Ranks : \A m \in Ranks : n <= m
    BY <2>2, Least
  <2>4. PICK s \in C : n = rank[NextGood(s)]
    OBVIOUS
  <2>5. PICK t \in C : WaitsFor(t, s)
    BY <1>1 DEF Circle
  <2>6. ProductLock(NextGood(t)) \in held[s]
    BY <2>1, <2>5 DEF WaitsFor, Wants
  <2>7. Own(s, ProductLock(NextGood(t)))
    BY <1>1, <2>6 DEF HeldIsOwn
  <2>8. PICK i \in 1..line[s] : NextGood(t) = Goods[s][i]
    BY <2>7 DEF Own, SubjectLock, ChainLock, ProductLock, CounterLock, ReferenceLock
  <2>9. i \in DOMAIN Goods[s] /\ line[s] + 1 \in DOMAIN Goods[s] /\ i < line[s] + 1
    BY <2>1
  <2>10. rank[NextGood(t)] < rank[NextGood(s)]
    BY <2>1, <2>8, <2>9 DEF NextGood
  <2>11. rank[NextGood(t)] \in Ranks
    OBVIOUS
  <2>12. n <= rank[NextGood(t)]
    BY <2>3, <2>11
  <2> HIDE DEF Ranks
  <2> QED
    BY <2>1, <2>4, <2>10, <2>12
<1>2. Inv /\ HeldIsOwn => \A r \in Requests : ~ Crosswise(r)
  BY <1>1, CrosswiseIsCircle
<1> QED
  BY <1>2, OwnLocks, PTL

\* Every step of the books brings one request closer to its end and leaves the
\* others where they are.
THEOREM NoneThrownBackCorrect == Spec => NoneThrownBack
<1> DEFINE Closer == /\ \A r \in Requests : Left(r)' <= Left(r)
                     /\ \E r \in Requests : Left(r)' < Left(r)
<1>1. ASSUME Inv, NEW r \in Requests
      PROVE  Left(r) \in Nat /\ (Open(r) => Left(r) > 0)
  <2>1. /\ r \in Approvals => Len(Goods[r]) \in Nat
        /\ line[r] \in Nat
        /\ at[r] = "goods" => r \in Approvals /\ line[r] < Len(Goods[r])
        /\ at[r] \in Stage \cup Ending
    BY <1>1, GoodsAssumption DEF Inv, TypeOK, GoodsHeld
  <2> QED
    BY <2>1 DEF Left, Open, Stage, Ending
<1>2. ASSUME Inv, NEW r \in Requests, NEW s \in Requests \ {r},
             Begin(r) \/ Step(r) \/ Fail(r) \/ Victim(r)
      PROVE  Left(s)' = Left(s)
  BY <1>2, OwnStep DEF Inv, Left
<1>3. ASSUME Inv, NEW r \in Requests, NEW how \in Ending, End(r, how), Open(r)
      PROVE  Left(r)' \in Nat /\ Left(r)' < Left(r)
  <2>1. at'[r] \in Ending
    BY <1>3 DEF End, Inv, TypeOK
  <2>2. Left(r)' = 0
    BY <2>1 DEF Left, Ending
  <2> QED
    BY <1>1, <1>3, <2>2
<1>4. ASSUME Inv, NEW r \in Requests, Begin(r)
      PROVE  Left(r)' \in Nat /\ Left(r)' < Left(r)
  <2>1. at[r] = "idle" /\ (r \in Approvals => Len(Goods[r]) \in Nat)
    BY <1>4, GoodsAssumption DEF Begin
  <2>2. \/ at'[r] = "subject" /\ r \in Approvals
        \/ at'[r] \in {"refused", "chain"} /\ r \notin Approvals
    BY <1>4 DEF Begin, Inv, TypeOK
  <2> QED
    BY <2>1, <2>2 DEF Left
<1>5. ASSUME Inv, NEW r \in Requests, Step(r)
      PROVE  Left(r)' \in Nat /\ Left(r)' < Left(r)
  <2>1. at \in [Requests -> Stage \cup Ending] /\ line \in [Requests -> Nat]
    BY <1>5 DEF Inv, TypeOK
  <2>2. r \in Approvals => Len(Goods[r]) \in Nat
    BY GoodsAssumption
  <2>3. CASE TakeSubject(r)
    <3>1. /\ at[r] = "subject" /\ line' = line
          /\ at'[r] = IF r \in Approvals THEN "goods" ELSE "commit"
          /\ r \in Approvals => line[r] = 0
      BY <2>1, <2>3, <1>5 DEF TakeSubject, Take, AfterSubject, Inv, GoodsHeld
    <3> QED
      BY <3>1, <2>2 DEF Left
  <2>4. CASE TakeGood(r)
    <3>1. /\ at[r] = "goods" /\ line'[r] = line[r] + 1 /\ line[r] \in Nat
          /\ r \in Approvals
          /\ at'[r] = IF line[r] + 1 < Len(Goods[r]) THEN "goods" ELSE "chain"
          /\ line[r] < Len(Goods[r])
      BY <2>1, <2>4, <1>5 DEF TakeGood, Take, AfterGood, Inv, GoodsHeld
    <3> QED
      BY <3>1, <2>2 DEF Left
  <2>5. CASE TakeChain(r)
    <3>1. at[r] = "chain" /\ at'[r] = IF r \in Approvals THEN "number" ELSE "subject"
      BY <2>1, <2>5 DEF TakeChain, Take, AfterChain
    <3> QED
      BY <3>1 DEF Left
  <2>6. CASE TakeNumber(r)
    <3>1. at[r] = "number" /\ at'[r] \in {"reference", "commit"}
      BY <2>1, <2>6 DEF TakeNumber, Take, AfterNumber
    <3> QED
      BY <3>1 DEF Left
  <2>7. CASE TakeReference(r)
    <3>1. at[r] = "reference" /\ at'[r] = "commit"
      BY <2>1, <2>7 DEF TakeReference, Take
    <3> QED
      BY <3>1 DEF Left
  <2>8. CASE RefuseSubject(r) \/ RefuseReference(r) \/ Commit(r)
    <3>1. Open(r) /\ \E how \in Ending : End(r, how)
      BY <2>8 DEF RefuseSubject, RefuseReference, Commit, Open, Ending
    <3> QED
      BY <3>1, <1>3, <1>5
  <2> QED
    BY <1>5, <2>3, <2>4, <2>5, <2>6, <2>7, <2>8 DEF Step
<1>6. ASSUME Inv, HeldIsOwn, NEW r \in Requests, Fail(r) \/ Victim(r)
      PROVE  Left(r)' \in Nat /\ Left(r)' < Left(r)
  <2>1. Crosswise(r) => Open(r)
    BY <1>6, CrosswiseIsCircle, CirclesAreOfGoods DEF Open, Ending
  <2>2. Open(r) /\ End(r, "failed")
    BY <1>6, <2>1 DEF Fail, Victim
  <2> QED
    BY <1>3, <1>6, <2>2 DEF Ending
<1>7. Inv /\ HeldIsOwn /\ [Next]_vars => [Closer]_vars
  <2> SUFFICES ASSUME Inv, HeldIsOwn, NEW r \in Requests,
                      Begin(r) \/ Step(r) \/ Fail(r) \/ Victim(r)
               PROVE  Closer
    BY DEF Next
  <2>1. Left(r)' < Left(r)
    BY <1>4, <1>5, <1>6
  <2>2. \A s \in Requests \ {r} : Left(s)' = Left(s) /\ Left(s) \in Nat
    BY <1>1, <1>2
  <2>3. Left(r) \in Nat /\ Left(r)' \in Nat
    BY <1>1, <1>4, <1>5, <1>6
  <2>4. \A s \in Requests : Left(s)' <= Left(s)
    BY <2>1, <2>2, <2>3
  <2> QED
    BY <2>1, <2>4
<1> QED
  BY <1>7, OwnLocks, PTL DEF Spec, NoneThrownBack
=============================================================================
