--------------------------- MODULE DeliveryProofs ----------------------------
(***************************************************************************)
(* Theorems about Delivery, for any buyers, engineers, versions and        *)
(* requests in flight.  Ready says what a request carries between its two  *)
(* queries, Spared that a purge spares every grant it did not miss, and    *)
(* Own why a buyer of one version is never taken for an engineer: what the *)
(* policy shows a buyer is what the buyer holds.  Bought says that all a   *)
(* buyer's request read, chose or recorded was sold to them before, and    *)
(* Withdrawn why the shelf they meet lives as Lifecycle says.              *)
(***************************************************************************)
EXTENDS Delivery, FiniteSetTheorems, WellFoundedInduction, TLAPS

Ready ==
    \A r \in Requests : call[r].phase = "rows" =>
        /\ call[r].rows # {} /\ call[r].rows \subseteq 1..made
        /\ call[r].want # 0 => call[r].want \in call[r].rows

Spared ==
    \A b \in Buyers, v \in Version :
        Holds(b, v) /\ <<b, v>> \notin raced => v \in stored \ doomed

\* b was never sold a second version.
Single(b) ==
    \A v, w \in Version : grant[b][v] # "none" /\ grant[b][w] # "none" => v = w

Own ==
    \A b \in Buyers \ Engineers : Single(b) =>
        /\ \A r \in Requests : call[r].who = b /\ call[r].phase = "rows" =>
              /\ call[r].rows \subseteq call[r].held
              /\ \A v \in call[r].held : grant[b][v] # "none"
        /\ \A r \in Requests : call[r].who = b /\ call[r].phase \notin {"idle", "rows"} =>
              call[r].reason # "CONTRIBUTOR"
        /\ \A v \in Version : event[<<b, v, "CONTRIBUTOR">>] = 0

IInv == TypeOK /\ Ready /\ Spared /\ TrailIsWhole /\ Own

-----------------------------------------------------------------------------
\* The greatest of some versions is one of them.

LEMMA Greatest ==
    ASSUME NEW n \in Nat, NEW S \in SUBSET (1..n), S # {}
    PROVE  Max(S) \in S
<1> DEFINE T == {n - x : x \in S}
<1>1. T \in SUBSET Nat /\ T # {}
    <2>1. \A x \in S : n - x \in Nat
        OBVIOUS
    <2>2. PICK x \in S : TRUE
        OBVIOUS
    <2>3. n - x \in T
        BY <2>2
    <2> QED BY <2>1, <2>3
<1> HIDE DEF T
<1>2. PICK t \in T : \A u \in T : ~ (<<u, t>> \in OpToRel(<, Nat))
    BY <1>1, NatLessThanWellFounded, WFMin
<1>3. PICK x \in S : t = n - x
    BY DEF T
<1>4. ASSUME NEW y \in S PROVE x >= y
    <2>1. n - y \in T
        BY DEF T
    <2>2. <<n - y, t>> \in Nat \X Nat
        BY <1>1, <2>1
    <2>3. ~ (n - y < t)
        BY <1>2, <2>1, <2>2 DEF OpToRel
    <2>4. x \in Int /\ y \in Int
        OBVIOUS
    <2> QED BY <1>3, <2>3, <2>4
<1> QED BY <1>4 DEF Max

LEMMA GreatestOfOne == \A x \in Nat : Max({x}) = x
<1> SUFFICES ASSUME NEW x \in Nat PROVE Max({x}) = x
    OBVIOUS
<1>1. x >= x
    OBVIOUS
<1> QED BY <1>1 DEF Max

-----------------------------------------------------------------------------
\* What a step of a delivery does to its slot.

Same(r) == \A q \in Requests \ {r} : call'[q] = call[q]

LEMMA Fields ==
    ASSUME TypeOK, NEW r \in Requests
    PROVE  /\ call \in [Requests -> CallType] /\ call[r] \in CallType
           /\ call[r].who \in People /\ call[r].want \in 0..MaxVersion
           /\ call[r].rows \subseteq Version /\ call[r].held \subseteq Version
           /\ call[r].version \in 0..MaxVersion /\ call[r].reason \in Reason
           /\ call[r].sale \in 0..MaxVersion
BY DEF TypeOK, CallType

LEMMA Numbers == /\ 0 \in 0..MaxVersion /\ \A v \in Version : v \in 0..MaxVersion /\ v \in Nat
                 /\ \A v \in 0..MaxVersion : v # 0 => v \in Version
BY VersionAssumption DEF Version

LEMMA IdleType == Idle \in CallType /\ Idle.phase = "idle"
BY Numbers DEF Idle, CallType, People, Reason

LEMMA AfterAsk ==
    ASSUME TypeOK, NEW r \in Requests, NEW p \in People, NEW want \in 0..MaxVersion, Ask(r, p, want)
    PROVE  /\ Same(r) /\ call' \in [Requests -> CallType]
           /\ call'[r].phase = "rows" /\ call'[r].who = p /\ call'[r].want = want
           /\ call'[r].rows = Live(p, want) /\ call'[r].held = HeldBy(p)
           /\ Live(p, want) # {}
<1> DEFINE new == [Idle EXCEPT !.phase = "rows", !.who = p, !.want = want,
                               !.rows = Live(p, want), !.sale = current, !.held = HeldBy(p)]
<1>1. Live(p, want) \subseteq Version /\ HeldBy(p) \subseteq Version /\ current \in 0..MaxVersion
    BY VersionAssumption DEF TypeOK, Version, Live, HeldBy
<1>2. /\ call' = [call EXCEPT ![r] = new] /\ Live(p, want) # {}
      /\ call \in [Requests -> CallType]
    BY Fields DEF Ask
<1>3. /\ new \in CallType /\ new.phase = "rows" /\ new.who = p /\ new.want = want
      /\ new.rows = Live(p, want) /\ new.held = HeldBy(p)
    BY <1>1, IdleType DEF Idle, CallType
<1> HIDE DEF new
<1>4. Same(r) /\ call' \in [Requests -> CallType] /\ call'[r] = new
    BY <1>2, <1>3 DEF Same
<1> QED BY <1>2, <1>3, <1>4

\* The second query chooses one of the rows the first one saw.
LEMMA AfterAllow ==
    ASSUME TypeOK, Ready, NEW r \in Requests, Allow(r)
    PROVE  LET held == call[r].held \cup HeldBy(call[r].who)
               best == Best(call[r].sale, call[r].rows, held)
           IN  /\ Same(r) /\ call' \in [Requests -> CallType]
               /\ call'[r].phase = "allowed" /\ call'[r].who = call[r].who
               /\ call'[r].version \in call[r].rows
               /\ call'[r].reason = Ground(call[r].who, call'[r].version, best)
<1> DEFINE held == call[r].held \cup HeldBy(call[r].who)
           best == Best(call[r].sale, call[r].rows, held)
           version == Chosen(call[r].want, call[r].sale, call[r].rows, best)
           ground == Ground(call[r].who, version, best)
           new == [Idle EXCEPT !.phase = "allowed", !.who = call[r].who,
                               !.version = version, !.reason = ground]
<1>1. call' = [call EXCEPT ![r] = new] /\ call[r].phase = "rows"
    BY DEF Allow
<1>2. call \in [Requests -> CallType] /\ call[r].who \in People /\ call[r].rows \subseteq Version
    BY Fields
<1>3. /\ call[r].rows # {} /\ call[r].rows \subseteq 1..made
      /\ call[r].want # 0 => call[r].want \in call[r].rows
    BY <1>1 DEF Ready
<1>4. Max(call[r].rows) \in call[r].rows
    <2>1. made \in Nat
        BY VersionAssumption DEF TypeOK
    <2> QED BY <1>3, <2>1, Greatest
<1>5. version \in call[r].rows
    BY <1>3, <1>4 DEF Chosen
<1>6. ground \in Reason
    BY DEF Ground, Reason
<1> HIDE DEF version, ground
<1>7. version \in 0..MaxVersion
    BY <1>2, <1>5, Numbers
<1>8. /\ new \in CallType /\ new.phase = "allowed" /\ new.who = call[r].who
      /\ new.version = version /\ new.reason = ground
    BY <1>2, <1>6, <1>7, IdleType DEF Idle, CallType
<1> HIDE DEF new
<1>9. Same(r) /\ call' \in [Requests -> CallType] /\ call'[r] = new
    BY <1>1, <1>2, <1>8 DEF Same
<1> QED BY <1>5, <1>8, <1>9 DEF ground

\* Finding the object and recording the copy only move the request on.
LEMMA AfterMove ==
    ASSUME TypeOK, NEW r \in Requests, NEW phase \in {"found", "recorded"},
           call' = [call EXCEPT ![r].phase = phase]
    PROVE  /\ Same(r) /\ call' \in [Requests -> CallType]
           /\ call'[r].phase = phase /\ call'[r].who = call[r].who
           /\ call'[r].version = call[r].version /\ call'[r].reason = call[r].reason
<1>1. call \in [Requests -> CallType] /\ call[r] \in CallType
    BY Fields
<1>2. call' = [call EXCEPT ![r] = [call[r] EXCEPT !.phase = phase]]
    BY <1>1
<1>3. [call[r] EXCEPT !.phase = phase] \in CallType
    BY <1>1 DEF CallType
<1> QED BY <1>1, <1>2, <1>3 DEF Same, CallType

LEMMA AfterEnd ==
    ASSUME TypeOK, NEW r \in Requests, call' = [call EXCEPT ![r] = Idle]
    PROVE  /\ Same(r) /\ call' \in [Requests -> CallType] /\ call'[r].phase = "idle"
<1>1. call \in [Requests -> CallType]
    BY Fields
<1> QED BY <1>1, IdleType DEF Same

LEMMA TakenType ==
    ASSUME TypeOK, NEW r \in Requests, call[r].phase \notin {"idle", "rows"}
    PROVE  Taken(r) \in Copy
<1>1. call[r].version \in 1..made /\ 1..made \subseteq Version
    BY VersionAssumption DEF TypeOK, Version
<1> QED BY <1>1, Fields DEF Taken, Copy

-----------------------------------------------------------------------------
\* The trail.

\* The copies c that are recorded and not sent yet.
Under(c) == {r \in Requests : call[r].phase = "recorded" /\ Taken(r) = c}

LEMMA UnderFinite == \A c : IsFiniteSet(Under(c)) /\ Cardinality(Under(c)) \in Nat
<1> SUFFICES ASSUME NEW c PROVE IsFiniteSet(Under(c)) /\ Cardinality(Under(c)) \in Nat
    OBVIOUS
<1>1. Under(c) \in SUBSET Requests
    BY DEF Under
<1>2. IsFiniteSet(Under(c))
    BY <1>1, RequestsAssumption, FS_Subset
<1> QED BY <1>2, FS_CardinalityType

LEMMA FewerUnder ==
    ASSUME NEW c, Under(c)' \subseteq Under(c)
    PROVE  Cardinality(Under(c)') <= Cardinality(Under(c)) /\ Cardinality(Under(c)') \in Nat
<1>1. IsFiniteSet(Under(c))
    BY UnderFinite
<1>2. IsFiniteSet(Under(c)')
    BY <1>1, FS_Subset
<1> QED BY <1>1, <1>2, FS_Subset, FS_CardinalityType

\* A step after which fewer copies are under way, and that sends nothing.
LEMMA TrailStep ==
    ASSUME TypeOK, TrailIsWhole, UNCHANGED <<event, sent>>,
           \A c \in Copy : Under(c)' \subseteq Under(c)
    PROVE  TrailIsWhole'
<1> SUFFICES ASSUME NEW c \in Copy PROVE sent[c] + Cardinality(Under(c)') <= event[c]
    BY DEF TrailIsWhole, Under
<1>1. sent[c] + Cardinality(Under(c)) <= event[c]
    BY DEF TrailIsWhole, Under
<1>2. Cardinality(Under(c)') <= Cardinality(Under(c)) /\ Cardinality(Under(c)') \in Nat
    BY FewerUnder
<1>3. sent[c] \in Nat /\ event[c] \in Nat /\ Cardinality(Under(c)) \in Nat
    BY UnderFinite DEF TypeOK
<1> QED BY <1>1, <1>2, <1>3

\* One more copy is under way and one more is on the trail.
LEMMA TrailRecord == ASSUME TypeOK, TrailIsWhole, NEW r \in Requests, Record(r) PROVE TrailIsWhole'
<1>1. /\ call[r].phase = "found" /\ sent' = sent
      /\ event' = [event EXCEPT ![Taken(r)] = @ + 1]
      /\ call' = [call EXCEPT ![r].phase = "recorded"]
    BY DEF Record
<1>2. PICK d \in Copy : d = Taken(r)
    BY <1>1, TakenType
<1>3. /\ Same(r) /\ call'[r].phase = "recorded" /\ call'[r].who = call[r].who
      /\ call'[r].version = call[r].version /\ call'[r].reason = call[r].reason
    BY <1>1, AfterMove
<1>4. \A q \in Requests \ {r} : Taken(q)' = Taken(q) /\ call'[q].phase = call[q].phase
    BY <1>3 DEF Same, Taken
<1>5. Taken(r)' = d
    BY <1>2, <1>3 DEF Taken
<1>6. event \in [Copy -> Nat] /\ sent \in [Copy -> Nat]
    BY DEF TypeOK
<1> SUFFICES ASSUME NEW c \in Copy PROVE sent'[c] + Cardinality(Under(c)') <= event'[c]
    BY DEF TrailIsWhole, Under
<1>7. sent[c] + Cardinality(Under(c)) <= event[c] /\ sent[c] \in Nat /\ event[c] \in Nat
    BY <1>6 DEF TrailIsWhole, Under
<1>8. IsFiniteSet(Under(c)) /\ Cardinality(Under(c)) \in Nat
    BY UnderFinite
<1>9. CASE c = d
    <2>1. Under(c)' = Under(c) \cup {r} /\ r \notin Under(c)
        BY <1>1, <1>3, <1>4, <1>5, <1>9 DEF Under
    <2>2. Cardinality(Under(c)') = Cardinality(Under(c)) + 1
        BY <1>8, <2>1, FS_AddElement
    <2>3. event'[c] = event[c] + 1
        BY <1>1, <1>2, <1>6, <1>9
    <2> QED BY <1>1, <1>7, <1>8, <2>2, <2>3
<1>10. CASE c # d
    <2>1. Under(c)' = Under(c)
        BY <1>1, <1>3, <1>4, <1>5, <1>10 DEF Under
    <2>2. event'[c] = event[c]
        BY <1>1, <1>2, <1>6, <1>10
    <2> QED BY <1>1, <1>7, <2>1, <2>2
<1> QED BY <1>9, <1>10

\* One copy that was under way is sent.
LEMMA TrailAnswer == ASSUME TypeOK, TrailIsWhole, NEW r \in Requests, Answer(r) PROVE TrailIsWhole'
<1>1. /\ call[r].phase = "recorded" /\ event' = event
      /\ sent' = [sent EXCEPT ![Taken(r)] = @ + 1]
      /\ call' = [call EXCEPT ![r] = Idle]
    BY DEF Answer
<1>2. PICK d \in Copy : d = Taken(r)
    BY <1>1, TakenType
<1>3. Same(r) /\ call'[r].phase = "idle"
    BY <1>1, AfterEnd
<1>4. \A q \in Requests \ {r} : Taken(q)' = Taken(q) /\ call'[q].phase = call[q].phase
    BY <1>3 DEF Same, Taken
<1>5. event \in [Copy -> Nat] /\ sent \in [Copy -> Nat]
    BY DEF TypeOK
<1> SUFFICES ASSUME NEW c \in Copy PROVE sent'[c] + Cardinality(Under(c)') <= event'[c]
    BY DEF TrailIsWhole, Under
<1>6. sent[c] + Cardinality(Under(c)) <= event[c] /\ sent[c] \in Nat /\ event[c] \in Nat
    BY <1>5 DEF TrailIsWhole, Under
<1>7. IsFiniteSet(Under(c)) /\ Cardinality(Under(c)) \in Nat
    BY UnderFinite
<1>8. CASE c = d
    <2>1. Under(c)' = Under(c) \ {r} /\ r \in Under(c)
        BY <1>1, <1>2, <1>3, <1>4, <1>8 DEF Under
    <2>2. Cardinality(Under(c)') = Cardinality(Under(c)) - 1
        BY <1>7, <2>1, FS_RemoveElement
    <2>3. sent'[c] = sent[c] + 1
        BY <1>1, <1>2, <1>5, <1>8
    <2> QED BY <1>1, <1>6, <1>7, <2>2, <2>3
<1>9. CASE c # d
    <2>1. Under(c)' = Under(c)
        BY <1>1, <1>2, <1>3, <1>4, <1>9 DEF Under
    <2>2. sent'[c] = sent[c]
        BY <1>1, <1>2, <1>5, <1>9
    <2> QED BY <1>1, <1>6, <2>1, <2>2
<1> QED BY <1>8, <1>9

-----------------------------------------------------------------------------
\* The shelf and the sales, beside the requests.

ShelfNext ==
    \/ Release \/ Withdraw \/ Doom \/ StopPurge
    \/ \E v \in Version : Remove(v) \/ Mark(v)
    \/ \E b \in Buyers, v \in Version : Sell(b, v) \/ Expire(b, v)

LEMMA Shelves ==
    ASSUME TypeOK
    PROVE  /\ made \in Nat /\ made <= MaxVersion /\ current \in 0..made
           /\ purged \subseteq 1..made /\ stored \subseteq 1..made /\ doomed \subseteq 1..made
           /\ 1..made \subseteq Version
           /\ grant \in [Buyers -> [Version -> {"none", "live", "expired"}]]
           /\ \A b \in Buyers : grant[b] \in [Version -> {"none", "live", "expired"}]
BY VersionAssumption DEF TypeOK, Version

\* A grant never goes back to none, and only a sale makes one live.
LEMMA Grants ==
    ASSUME TypeOK, ShelfNext
    PROVE  /\ grant' \in [Buyers -> [Version -> {"none", "live", "expired"}]]
           /\ \A b \in Buyers, v \in Version :
                 /\ grant[b][v] # "none" => grant'[b][v] # "none"
                 /\ grant'[b][v] = "live" => grant[b][v] = "live" \/ Sell(b, v)
<1>1. ASSUME NEW a \in Buyers, NEW w \in Version, Sell(a, w) \/ Expire(a, w)
      PROVE  /\ grant' \in [Buyers -> [Version -> {"none", "live", "expired"}]]
             /\ \A b \in Buyers, v \in Version :
                   /\ grant[b][v] # "none" => grant'[b][v] # "none"
                   /\ grant'[b][v] = "live" => grant[b][v] = "live" \/ Sell(b, v)
    <2>1. PICK state \in {"live", "expired"} : /\ grant' = [grant EXCEPT ![a][w] = state]
                                               /\ state = "live" => Sell(a, w)
        BY <1>1 DEF Sell, Expire
    <2>2. /\ grant' \in [Buyers -> [Version -> {"none", "live", "expired"}]]
          /\ \A b \in Buyers, v \in Version :
                grant'[b][v] = IF b = a /\ v = w THEN state ELSE grant[b][v]
        BY <2>1, Shelves
    <2> QED BY <2>1, <2>2
<1>2. CASE ~ \E a \in Buyers, w \in Version : Sell(a, w) \/ Expire(a, w)
    <2>1. grant' = grant
        BY <1>2 DEF ShelfNext, Release, Withdraw, Doom, StopPurge, Remove, Mark
    <2> QED BY <2>1, Shelves
<1> QED BY <1>1, <1>2

LEMMA ShelfType == ASSUME TypeOK, ShelfNext PROVE TypeOK' /\ made <= made'
<1>1. UNCHANGED <<call, event, sent>>
    BY DEF ShelfNext, Release, Withdraw, Doom, StopPurge, Remove, Mark, Sell, Expire
<1>2. /\ made' \in 0..MaxVersion /\ made <= made'
      /\ current' \in 0..made'
      /\ purged' \subseteq 1..made' /\ stored' \subseteq 1..made' /\ doomed' \subseteq 1..made'
    <2>1. CASE Release
        <3>1. /\ made' = made + 1 /\ current' = made' /\ made < MaxVersion
              /\ stored' = stored \cup {made'} /\ purged' = purged /\ doomed' = doomed
            BY <2>1 DEF Release
        <3>2. made' \in 1..made' /\ 1..made \subseteq 1..made' /\ made' \in 0..MaxVersion
              /\ made <= made' /\ made' \in 0..made'
            BY <3>1, Shelves, VersionAssumption
        <3> QED BY <3>1, <3>2, Shelves
    <2>2. CASE made' = made /\ current' \in {0, current} /\ purged' \subseteq purged \cup doomed
               /\ stored' \subseteq stored /\ doomed' \subseteq doomed \cup 1..made
        BY <2>2, Shelves, VersionAssumption
    <2>3. Release \/ (made' = made /\ current' \in {0, current} /\ purged' \subseteq purged \cup doomed
                      /\ stored' \subseteq stored /\ doomed' \subseteq doomed \cup 1..made)
        BY DEF ShelfNext, Withdraw, Doom, StopPurge, Remove, Mark, Sell, Expire, shelf
    <2> QED BY <2>1, <2>2, <2>3
<1>3. raced' \subseteq Buyers \X Version
    BY DEF TypeOK, ShelfNext, Release, Withdraw, Doom, StopPurge, Remove, Mark, Sell, Expire
<1>4. 1..made \subseteq 1..made'
    BY <1>2, Shelves
<1>5. \A r \in Requests : call'[r].phase \notin {"idle", "rows"} => call'[r].version \in 1..made'
    BY <1>1, <1>4 DEF TypeOK
<1>6. /\ event' \in [Copy -> Nat] /\ sent' \in [Copy -> Nat]
      /\ call' \in [Requests -> CallType]
    BY <1>1 DEF TypeOK
<1>7. grant' \in [Buyers -> [Version -> {"none", "live", "expired"}]]
    BY Grants
<1> QED BY <1>2, <1>3, <1>5, <1>6, <1>7 DEF TypeOK

LEMMA ShelfSpared == ASSUME TypeOK, Spared, ShelfNext PROVE Spared'
<1> SUFFICES ASSUME NEW b \in Buyers, NEW v \in Version, grant'[b][v] = "live", <<b, v>> \notin raced'
             PROVE  v \in stored' \ doomed'
    BY DEF Spared, Holds
<1>1. raced \subseteq raced'
    BY DEF ShelfNext, Release, Withdraw, Doom, StopPurge, Remove, Mark, Sell, Expire
<1>2. CASE Sell(b, v)
    <2>1. v \in stored \cup doomed /\ v \notin doomed /\ stored' = stored /\ doomed' = doomed
        BY <1>2 DEF Sell, shelf
    <2> QED BY <2>1
<1>3. CASE ~ Sell(b, v)
    <2>1. Holds(b, v) /\ v \in stored \ doomed
        BY <1>1, <1>3, Grants DEF Spared, Holds
    <2>2. ASSUME NEW w \in Version, Remove(w) PROVE v \in stored' \ doomed'
        BY <2>1, <2>2 DEF Remove
    <2>3. CASE Doom
        BY <2>1, <2>3 DEF Doom
    <2>4. CASE Release
        BY <2>1, <2>4 DEF Release
    <2>5. CASE \/ Withdraw \/ StopPurge \/ \E w \in Version : Mark(w)
               \/ \E a \in Buyers, w \in Version : Sell(a, w) \/ Expire(a, w)
        BY <2>1, <2>5 DEF Withdraw, StopPurge, Mark, Sell, Expire, shelf
    <2> QED BY <2>2, <2>3, <2>4, <2>5 DEF ShelfNext
<1> QED BY <1>2, <1>3

LEMMA ShelfStep == ASSUME IInv, ShelfNext PROVE IInv'
<1>1. TypeOK /\ UNCHANGED <<call, event, sent>>
    BY DEF IInv, ShelfNext, Release, Withdraw, Doom, StopPurge, Remove, Mark, Sell, Expire
<1>2. TypeOK' /\ made <= made' /\ made \in Nat /\ made' \in Nat
    BY <1>1, ShelfType, Shelves DEF TypeOK
<1>3. Ready'
    BY <1>1, <1>2 DEF IInv, Ready
<1>4. Spared'
    BY <1>1, ShelfSpared DEF IInv
<1>5. TrailIsWhole'
    BY <1>1 DEF IInv, TrailIsWhole, Taken
<1>6. Own'
    <2>1. ASSUME NEW b \in Buyers, Single(b)' PROVE Single(b)
        BY <1>1, <2>1, Grants DEF Single
    <2>2. ASSUME NEW r \in Requests, call[r].phase = "rows", call[r].who \in Buyers,
                 NEW v \in call[r].held, grant[call[r].who][v] # "none"
          PROVE  grant'[call[r].who][v] # "none"
        BY <1>1, <2>2, Grants, Fields
    <2> QED BY <1>1, <2>1, <2>2 DEF IInv, Own
<1> QED BY <1>2, <1>3, <1>4, <1>5, <1>6 DEF IInv

-----------------------------------------------------------------------------
\* The requests, beside the shelf.

\* What a step of a request leaves alone.
Beside == UNCHANGED <<shelf, grant, raced>>

LEMMA BesideSpared == ASSUME Spared, Beside PROVE Spared'
BY DEF Spared, Beside, Holds, shelf

LEMMA BesideType ==
    ASSUME TypeOK, Beside, event' \in [Copy -> Nat], sent' \in [Copy -> Nat],
           call' \in [Requests -> CallType], NEW r \in Requests, Same(r),
           call'[r].phase \notin {"idle", "rows"} => call'[r].version \in 1..made
    PROVE  TypeOK'
BY DEF TypeOK, Beside, shelf, Same

LEMMA AskStep ==
    ASSUME IInv, NEW r \in Requests, NEW p \in People, NEW want \in 0..MaxVersion, Ask(r, p, want)
    PROVE  IInv'
<1>1. TypeOK /\ Beside /\ UNCHANGED <<event, sent>>
    BY DEF IInv, Ask, Beside
<1>2. /\ Same(r) /\ call' \in [Requests -> CallType]
      /\ call'[r].phase = "rows" /\ call'[r].who = p /\ call'[r].want = want
      /\ call'[r].rows = Live(p, want) /\ call'[r].held = HeldBy(p)
      /\ Live(p, want) # {}
    BY <1>1, AfterAsk
<1>3. TypeOK'
    BY <1>1, <1>2, BesideType DEF TypeOK
<1>4. Ready'
    <2>1. Live(p, want) \subseteq 1..made /\ (want # 0 => want \in Live(p, want))
        BY <1>2 DEF Live
    <2> QED BY <1>1, <1>2, <2>1 DEF IInv, Ready, Same, Beside, shelf
<1>5. TrailIsWhole'
    <2>1. \A c \in Copy : Under(c)' \subseteq Under(c)
        BY <1>2 DEF Under, Same, Taken
    <2> QED BY <1>1, <2>1, TrailStep DEF IInv
<1>6. Own'
    <2>1. ASSUME NEW b \in Buyers \ Engineers, p = b
          PROVE  Live(p, want) \subseteq HeldBy(p) /\ \A v \in HeldBy(p) : grant[b][v] # "none"
        BY <1>1, <2>1, PeopleAssumption, Shelves DEF Live, HeldBy, Visible, Holds
    <2>2. \A b \in Buyers : Single(b)' => Single(b)
        BY <1>1 DEF Single, Beside
    <2>3. \A b \in Buyers \ Engineers : Single(b) =>
              /\ \A q \in Requests : call'[q].who = b /\ call'[q].phase = "rows" =>
                    /\ call'[q].rows \subseteq call'[q].held
                    /\ \A v \in call'[q].held : grant[b][v] # "none"
              /\ \A q \in Requests : call'[q].who = b /\ call'[q].phase \notin {"idle", "rows"} =>
                    call'[q].reason # "CONTRIBUTOR"
        BY <1>2, <2>1 DEF IInv, Own, Same
    <2> QED BY <1>1, <2>2, <2>3 DEF IInv, Own, Beside
<1> QED BY <1>1, <1>3, <1>4, <1>5, <1>6, BesideSpared DEF IInv

\* A buyer of one version is answered out of what was bought.
LEMMA AllowGround ==
    ASSUME IInv, NEW r \in Requests, Allow(r), call[r].who \in Buyers \ Engineers,
           Single(call[r].who)
    PROVE  call'[r].reason # "CONTRIBUTOR"
<1> DEFINE who == call[r].who
           held == call[r].held \cup HeldBy(who)
           best == Best(call[r].sale, call[r].rows, held)
<1>1. TypeOK /\ Ready /\ call[r].phase = "rows"
    BY DEF IInv, Allow
<1>2. call'[r].version \in call[r].rows /\ call'[r].reason = Ground(who, call'[r].version, best)
    BY <1>1, AfterAllow
<1>3. /\ call[r].rows # {} /\ call[r].rows \subseteq call[r].held
      /\ \A v \in call[r].held : grant[who][v] # "none"
    BY <1>1 DEF IInv, Own, Ready
<1>4. \A v \in HeldBy(who) : grant[who][v] # "none"
    BY DEF HeldBy, Holds
<1>5. held \subseteq Version /\ call[r].rows \subseteq Version
    BY <1>1, Fields DEF HeldBy
<1>6. PICK v \in call[r].rows : held = {v} /\ call[r].rows = {v}
    <2>1. PICK v \in call[r].rows : TRUE
        BY <1>3
    <2>2. \A w \in held : w = v
        BY <1>3, <1>4, <1>5, <2>1 DEF Single
    <2> QED BY <1>3, <2>1, <2>2
<1>7. best = v
    <2>1. v \in Nat
        BY <1>5, Numbers
    <2>2. Max({v}) = v
        BY <2>1, GreatestOfOne
    <2>3. held \cap call[r].rows = {v}
        BY <1>6
    <2> HIDE DEF held
    <2> QED BY <1>6, <2>2, <2>3 DEF Best
<1> QED BY <1>2, <1>6, <1>7, PeopleAssumption DEF Ground

LEMMA AllowStep == ASSUME IInv, NEW r \in Requests, Allow(r) PROVE IInv'
<1>1. TypeOK /\ Ready /\ Beside /\ UNCHANGED <<event, sent>> /\ call[r].phase = "rows"
    BY DEF IInv, Allow, Beside
<1>2. /\ Same(r) /\ call' \in [Requests -> CallType]
      /\ call'[r].phase = "allowed" /\ call'[r].who = call[r].who
      /\ call'[r].version \in call[r].rows
    BY <1>1, AfterAllow
<1>3. call'[r].version \in 1..made
    BY <1>1, <1>2 DEF Ready
<1>4. TypeOK'
    BY <1>1, <1>2, <1>3, BesideType DEF TypeOK
<1>5. Ready'
    BY <1>1, <1>2 DEF Ready, Same, Beside, shelf
<1>6. TrailIsWhole'
    <2>1. \A c \in Copy : Under(c)' \subseteq Under(c)
        BY <1>2 DEF Under, Same, Taken
    <2> QED BY <1>1, <2>1, TrailStep DEF IInv
<1>7. Own'
    <2>1. \A b \in Buyers : Single(b)' => Single(b)
        BY <1>1 DEF Single, Beside
    <2>2. call[r].who \in Buyers \ Engineers /\ Single(call[r].who) =>
              call'[r].reason # "CONTRIBUTOR"
        BY AllowGround
    <2>3. \A b \in Buyers \ Engineers : Single(b) =>
              /\ \A q \in Requests : call'[q].who = b /\ call'[q].phase = "rows" =>
                    /\ call'[q].rows \subseteq call'[q].held
                    /\ \A v \in call'[q].held : grant[b][v] # "none"
              /\ \A q \in Requests : call'[q].who = b /\ call'[q].phase \notin {"idle", "rows"} =>
                    call'[q].reason # "CONTRIBUTOR"
        BY <1>2, <2>2 DEF IInv, Own, Same
    <2> QED BY <1>1, <2>1, <2>3 DEF IInv, Own, Beside
<1> QED BY <1>1, <1>4, <1>5, <1>6, <1>7, BesideSpared DEF IInv

\* A step that moves a request past its queries, or ends it.
LEMMA OwnStep ==
    ASSUME TypeOK, Own, Beside, NEW r \in Requests, Same(r),
           \/ call'[r].phase = "idle"
           \/ /\ call'[r].phase \in {"found", "recorded"} /\ call[r].phase \in {"allowed", "found"}
              /\ call'[r].who = call[r].who /\ call'[r].reason = call[r].reason,
           \A b \in Buyers \ Engineers : Single(b) =>
               \A v \in Version : event'[<<b, v, "CONTRIBUTOR">>] = event[<<b, v, "CONTRIBUTOR">>]
    PROVE  Own'
<1>1. \A b \in Buyers : Single(b)' => Single(b)
    BY DEF Single, Beside
<1>2. \A b \in Buyers \ Engineers : Single(b) =>
          /\ \A q \in Requests : call'[q].who = b /\ call'[q].phase = "rows" =>
                /\ call'[q].rows \subseteq call'[q].held
                /\ \A v \in call'[q].held : grant[b][v] # "none"
          /\ \A q \in Requests : call'[q].who = b /\ call'[q].phase \notin {"idle", "rows"} =>
                call'[q].reason # "CONTRIBUTOR"
    BY DEF Own, Same
<1> QED BY <1>1, <1>2 DEF Own, Beside

LEMMA FindStep == ASSUME IInv, NEW r \in Requests, Find(r) PROVE IInv'
<1>1. /\ TypeOK /\ Beside /\ UNCHANGED <<event, sent>> /\ call[r].phase = "allowed"
      /\ call' = [call EXCEPT ![r].phase = "found"]
    BY DEF IInv, Find, Beside
<1>2. /\ Same(r) /\ call' \in [Requests -> CallType]
      /\ call'[r].phase = "found" /\ call'[r].who = call[r].who
      /\ call'[r].version = call[r].version /\ call'[r].reason = call[r].reason
    BY <1>1, AfterMove
<1>3. TypeOK'
    <2>1. call[r].version \in 1..made
        BY <1>1 DEF TypeOK
    <2> QED BY <1>1, <1>2, <2>1, BesideType DEF TypeOK
<1>4. Ready'
    BY <1>1, <1>2 DEF IInv, Ready, Same, Beside, shelf
<1>5. TrailIsWhole'
    <2>1. \A c \in Copy : Under(c)' \subseteq Under(c)
        BY <1>2 DEF Under, Same, Taken
    <2> QED BY <1>1, <2>1, TrailStep DEF IInv
<1>6. Own'
    BY <1>1, <1>2, OwnStep DEF IInv
<1> QED BY <1>1, <1>3, <1>4, <1>5, <1>6, BesideSpared DEF IInv

LEMMA RecordStep == ASSUME IInv, NEW r \in Requests, Record(r) PROVE IInv'
<1>1. /\ TypeOK /\ Beside /\ sent' = sent /\ call[r].phase = "found"
      /\ event' = [event EXCEPT ![Taken(r)] = @ + 1]
      /\ call' = [call EXCEPT ![r].phase = "recorded"]
    BY DEF IInv, Record, Beside
<1>2. /\ Same(r) /\ call' \in [Requests -> CallType]
      /\ call'[r].phase = "recorded" /\ call'[r].who = call[r].who
      /\ call'[r].version = call[r].version /\ call'[r].reason = call[r].reason
    BY <1>1, AfterMove
<1>3. event \in [Copy -> Nat] /\ Taken(r) \in Copy
    BY <1>1, TakenType DEF TypeOK
<1>4. event' \in [Copy -> Nat]
    BY <1>1, <1>3
<1>5. TypeOK'
    <2>1. call[r].version \in 1..made
        BY <1>1 DEF TypeOK
    <2>2. sent' \in [Copy -> Nat]
        BY <1>1 DEF TypeOK
    <2> QED BY <1>1, <1>2, <1>4, <2>1, <2>2, BesideType
<1>6. Ready'
    BY <1>1, <1>2 DEF IInv, Ready, Same, Beside, shelf
<1>7. TrailIsWhole'
    BY TrailRecord DEF IInv
<1>8. Own'
    <2>1. ASSUME NEW b \in Buyers \ Engineers, Single(b), NEW v \in Version
          PROVE  event'[<<b, v, "CONTRIBUTOR">>] = event[<<b, v, "CONTRIBUTOR">>]
        <3>1. call[r].who = b => call[r].reason # "CONTRIBUTOR"
            BY <1>1, <2>1 DEF IInv, Own
        <3>2. <<b, v, "CONTRIBUTOR">> # Taken(r)
            BY <3>1 DEF Taken
        <3>3. <<b, v, "CONTRIBUTOR">> \in Copy
            BY DEF Copy, People, Reason
        <3> QED BY <1>1, <1>3, <3>2, <3>3
    <2> QED BY <1>1, <1>2, <2>1, OwnStep DEF IInv
<1> QED BY <1>1, <1>5, <1>6, <1>7, <1>8, BesideSpared DEF IInv

LEMMA EndStep == ASSUME IInv, NEW r \in Requests, Answer(r) \/ GiveUp(r) PROVE IInv'
<1>1. TypeOK /\ Beside /\ event' = event /\ call' = [call EXCEPT ![r] = Idle]
    BY DEF IInv, Answer, GiveUp, Beside
<1>2. Same(r) /\ call' \in [Requests -> CallType] /\ call'[r].phase = "idle"
    BY <1>1, AfterEnd
<1>3. sent' \in [Copy -> Nat]
    <2>1. sent \in [Copy -> Nat]
        BY <1>1 DEF TypeOK
    <2>2. CASE Answer(r)
        <3>1. Taken(r) \in Copy
            BY <1>1, <2>2, TakenType DEF Answer
        <3> QED BY <2>1, <2>2, <3>1 DEF Answer
    <2>3. CASE GiveUp(r)
        BY <2>1, <2>3 DEF GiveUp
    <2> QED BY <2>2, <2>3
<1>4. TypeOK'
    BY <1>1, <1>2, <1>3, BesideType DEF TypeOK
<1>5. Ready'
    BY <1>1, <1>2 DEF IInv, Ready, Same, Beside, shelf
<1>6. TrailIsWhole'
    <2>1. CASE Answer(r)
        BY <2>1, TrailAnswer DEF IInv
    <2>2. CASE GiveUp(r)
        <3>1. \A c \in Copy : Under(c)' \subseteq Under(c)
            BY <1>2 DEF Under, Same, Taken
        <3> QED BY <1>1, <2>2, <3>1, TrailStep DEF IInv, GiveUp
    <2> QED BY <2>1, <2>2
<1>7. Own'
    BY <1>1, <1>2, OwnStep DEF IInv
<1> QED BY <1>1, <1>4, <1>5, <1>6, <1>7, BesideSpared DEF IInv

LEMMA IInvInit == Init => IInv
<1> SUFFICES ASSUME Init PROVE IInv
    OBVIOUS
<1>1. \A r \in Requests : call[r] = Idle /\ call[r].phase = "idle"
    BY IdleType DEF Init
<1>2. TypeOK
    <2>1. call \in [Requests -> CallType]
        BY IdleType DEF Init
    <2>2. /\ made \in 0..MaxVersion /\ current \in 0..made
          /\ UNION {purged, stored, doomed} \subseteq 1..made
        BY VersionAssumption DEF Init
    <2>3. /\ grant \in [Buyers -> [Version -> {"none", "live", "expired"}]]
          /\ event \in [Copy -> Nat] /\ sent \in [Copy -> Nat] /\ raced \subseteq Buyers \X Version
        BY DEF Init
    <2> QED BY <1>1, <2>1, <2>2, <2>3 DEF TypeOK
<1>3. Ready
    BY <1>1 DEF Ready
<1>4. Spared
    BY DEF Init, Spared, Holds
<1>5. TrailIsWhole
    <2>1. \A c \in Copy : Under(c) = {} /\ sent[c] = 0 /\ event[c] = 0
        BY <1>1 DEF Under, Init
    <2>2. \A c \in Copy : Cardinality(Under(c)) = 0
        BY <2>1, FS_EmptySet
    <2> QED BY <2>1, <2>2 DEF TrailIsWhole, Under
<1>6. Own
    <2>1. \A b \in Buyers, v \in Version : <<b, v, "CONTRIBUTOR">> \in Copy
        BY DEF Copy, People, Reason
    <2> QED BY <1>1, <2>1 DEF Own, Init
<1> QED BY <1>2, <1>3, <1>4, <1>5, <1>6 DEF IInv

LEMMA IInvNext == IInv /\ [Next]_vars => IInv'
<1> SUFFICES ASSUME IInv, [Next]_vars PROVE IInv'
    OBVIOUS
<1>1. CASE ShelfNext
    BY <1>1, ShelfStep
<1>2. ASSUME NEW r \in Requests, NEW p \in People, NEW want \in 0..MaxVersion, Ask(r, p, want)
      PROVE  IInv'
    BY <1>2, AskStep
<1>3. ASSUME NEW r \in Requests, Allow(r) \/ Find(r) \/ Record(r) \/ Answer(r) \/ GiveUp(r)
      PROVE  IInv'
    BY <1>3, AllowStep, FindStep, RecordStep, EndStep
<1>4. CASE UNCHANGED vars
    BY <1>4 DEF vars, shelf, IInv, TypeOK, Ready, Spared, Holds, TrailIsWhole, Taken, Own, Single
<1> QED BY <1>1, <1>2, <1>3, <1>4 DEF Next, ShelfNext

-----------------------------------------------------------------------------
\* The theorems.

\* The invariant of the requests, the shelf and the grants.
THEOREM Invariance == Spec => []IInv
BY IInvInit, IInvNext, PTL DEF Spec

\* Every variable of delivery keeps its type, and a request past its queries
\* names a version there is.
THEOREM TypeCorrect == Spec => []TypeOK
<1>1. IInv => TypeOK
    BY DEF IInv
<1> QED BY <1>1, Invariance, PTL

\* deliverProductFile never lets more copies leave than are on the trail,
\* wherever requests die.
THEOREM TrailCorrect == Spec => []TrailIsWhole
<1>1. IInv => TrailIsWhole
    BY DEF IInv
<1> QED BY <1>1, Invariance, PTL

\* A buyer of one version is answered on that grant, for any number of versions
\* released and requests in flight.
THEOREM GrantCorrect == Spec => []OneGrantIsCounted
<1>1. IInv => OneGrantIsCounted
    <2> SUFFICES ASSUME IInv, NEW b \in Buyers \ Engineers,
                        Cardinality({v \in Version : grant[b][v] # "none"}) <= 1
                 PROVE  \A v \in Version : event[<<b, v, "CONTRIBUTOR">>] = 0
        BY DEF OneGrantIsCounted
    <2> DEFINE S == {v \in Version : grant[b][v] # "none"}
    <2>1. IsFiniteSet(S)
        <3>1. IsFiniteSet(Version)
            BY VersionAssumption, FS_Interval DEF Version
        <3> QED BY <3>1, FS_Subset
    <2>2. ASSUME NEW v \in S, NEW w \in S, v # w PROVE FALSE
        <3>1. IsFiniteSet({v}) /\ Cardinality({v}) = 1
            BY FS_Singleton
        <3>2. IsFiniteSet({v} \cup {w}) /\ Cardinality({v} \cup {w}) = 2
            <4>1. w \notin {v}
                BY <2>2
            <4>2. Cardinality({v} \cup {w}) = Cardinality({v}) + 1
                BY <3>1, <4>1, FS_AddElement
            <4> QED BY <3>1, <4>2, FS_AddElement
        <3>3. {v} \cup {w} \in SUBSET S
            OBVIOUS
        <3>4. Cardinality({v} \cup {w}) <= Cardinality(S) /\ Cardinality(S) \in Nat
            BY <2>1, <3>3, FS_Subset, FS_CardinalityType
        <3> QED BY <3>2, <3>4
    <2>3. Single(b)
        BY <2>2 DEF Single
    <2> QED BY <2>3 DEF IInv, Own
<1> QED BY <1>1, Invariance, PTL

\* No download is counted outside its window, nor, unless a purge overtook the
\* sale, against an object that is gone.
THEOREM CountedCorrect == Spec => CountedIsThere
<1> DEFINE Counted == \A b \in Buyers, v \in Version :
             LET c == <<b, v, "ENTITLEMENT">>
             IN  event'[c] # event[c] =>
                    /\ Holds(b, v)
                    /\ <<b, v>> \notin raced => v \in stored
<1>1. ASSUME IInv, [Next]_vars PROVE Counted
    <2>1. ASSUME NEW r \in Requests, Record(r) PROVE Counted
        <3> SUFFICES ASSUME NEW b \in Buyers, NEW v \in Version,
                            event'[<<b, v, "ENTITLEMENT">>] # event[<<b, v, "ENTITLEMENT">>]
                     PROVE  Holds(b, v) /\ (<<b, v>> \notin raced => v \in stored)
            OBVIOUS
        <3>1. /\ event' = [event EXCEPT ![Taken(r)] = @ + 1]
              /\ call[r].reason = "ENTITLEMENT" => Holds(call[r].who, call[r].version)
            BY <2>1 DEF Record, MayCount
        <3>2. event \in [Copy -> Nat]
            BY <1>1 DEF IInv, TypeOK
        <3>3. Taken(r) = <<b, v, "ENTITLEMENT">>
            BY <3>1, <3>2
        <3>4. Holds(b, v)
            BY <3>1, <3>3 DEF Taken
        <3> QED BY <1>1, <3>4 DEF IInv, Spared
    <2>2. (\E r \in Requests : Record(r)) \/ event' = event
        BY <1>1 DEF Next, vars, Release, Withdraw, Doom, StopPurge, Remove, Mark, Sell, Expire, Ask,
                    Allow, Find, Answer, GiveUp
    <2> QED BY <2>1, <2>2
<1>2. IInv /\ [Next]_vars => [Counted]_vars
    BY <1>1
<1> QED BY <1>2, Invariance, PTL DEF Spec, CountedIsThere

-----------------------------------------------------------------------------
\* What was bought.

\* What a request of a buyer read, and chose, was bought before.
Bought ==
    \A b \in Buyers \ Engineers :
        /\ \A r \in Requests : call[r].who = b /\ call[r].phase = "rows" =>
              \A v \in call[r].rows : grant[b][v] # "none"
        /\ \A r \in Requests : call[r].who = b /\ call[r].phase \notin {"idle", "rows"} =>
              grant[b][call[r].version] # "none"
        /\ \A v \in Version, g \in Reason :
              event[<<b, v, g>>] # 0 => grant[b][v] # "none"

\* A step that only moves one request keeps what the others read.
LEMMA BoughtBeside ==
    ASSUME Bought, grant' = grant, NEW r \in Requests, Same(r),
           \A b \in Buyers \ Engineers : call'[r].who = b =>
              /\ call'[r].phase = "rows" => \A v \in call'[r].rows : grant[b][v] # "none"
              /\ call'[r].phase \notin {"idle", "rows"} => grant[b][call'[r].version] # "none",
           \A b \in Buyers \ Engineers, v \in Version, g \in Reason :
              event'[<<b, v, g>>] # 0 => grant[b][v] # "none"
    PROVE  Bought'
BY DEF Bought, Same

LEMMA BoughtShelf == ASSUME IInv, Bought, ShelfNext PROVE Bought'
<1>1. UNCHANGED <<call, event, sent>>
    BY DEF ShelfNext, Release, Withdraw, Doom, StopPurge, Remove, Mark, Sell, Expire
<1>2. TypeOK
    BY DEF IInv
<1>3. \A b \in Buyers, v \in Version : grant[b][v] # "none" => grant'[b][v] # "none"
    BY <1>2, Grants
<1>4. \A r \in Requests :
          /\ call[r].rows \subseteq Version
          /\ call[r].phase \notin {"idle", "rows"} => call[r].version \in Version
    BY <1>2, Fields, Shelves DEF TypeOK
<1> QED BY <1>1, <1>3, <1>4 DEF Bought

LEMMA BoughtStep ==
    ASSUME IInv, Bought, NEW r \in Requests,
           Allow(r) \/ Find(r) \/ Record(r) \/ Answer(r) \/ GiveUp(r)
    PROVE  Bought'
<1>1. TypeOK /\ Ready /\ grant' = grant
    BY DEF IInv, Allow, Find, Record, Answer, GiveUp
<1>2. CASE Allow(r)
    <2>1. /\ Same(r) /\ call'[r].phase = "allowed" /\ call'[r].who = call[r].who
          /\ call'[r].version \in call[r].rows
        BY <1>1, <1>2, AfterAllow
    <2>2. call[r].phase = "rows" /\ event' = event
        BY <1>2 DEF Allow
    <2>3. \A b \in Buyers \ Engineers : call[r].who = b =>
              \A v \in call[r].rows : grant[b][v] # "none"
        BY <2>2 DEF Bought
    <2>4. \A b \in Buyers \ Engineers, v \in Version, g \in Reason :
              event'[<<b, v, g>>] # 0 => grant[b][v] # "none"
        BY <2>2 DEF Bought
    <2> QED BY <1>1, <2>1, <2>3, <2>4, BoughtBeside
<1>3. CASE Find(r) \/ Record(r)
    <2>1. PICK phase \in {"found", "recorded"} :
              /\ call' = [call EXCEPT ![r].phase = phase]
              /\ call[r].phase \notin {"idle", "rows"}
        BY <1>3 DEF Find, Record
    <2>2. /\ Same(r) /\ call'[r].phase = phase /\ call'[r].who = call[r].who
          /\ call'[r].version = call[r].version
        BY <1>1, <2>1, AfterMove
    <2>3. \A b \in Buyers \ Engineers : call[r].who = b => grant[b][call[r].version] # "none"
        BY <2>1 DEF Bought
    <2>4. event \in [Copy -> Nat] /\ Taken(r) \in Copy
        BY <1>1, <2>1, TakenType DEF TypeOK
    <2>5. event' = event \/ event' = [event EXCEPT ![Taken(r)] = @ + 1]
        BY <1>3 DEF Find, Record
    <2>6. ASSUME NEW b \in Buyers \ Engineers, NEW v \in Version, NEW g \in Reason,
                 event'[<<b, v, g>>] # 0
          PROVE  grant[b][v] # "none"
        <3>1. CASE event[<<b, v, g>>] # 0
            BY <3>1 DEF Bought
        <3>2. CASE event[<<b, v, g>>] = 0
            <4>1. <<b, v, g>> = Taken(r)
                <5>1. <<b, v, g>> \in Copy
                    BY DEF Copy, People
                <5> QED BY <2>4, <2>5, <2>6, <3>2, <5>1
            <4>2. b = call[r].who /\ v = call[r].version
                BY <4>1 DEF Taken
            <4> QED BY <2>3, <4>2
        <3> QED BY <3>1, <3>2
    <2> QED BY <1>1, <2>1, <2>2, <2>3, <2>6, BoughtBeside
<1>4. CASE Answer(r) \/ GiveUp(r)
    <2>1. call' = [call EXCEPT ![r] = Idle] /\ event' = event
        BY <1>4 DEF Answer, GiveUp
    <2>2. Same(r) /\ call'[r].phase = "idle"
        BY <1>1, <2>1, AfterEnd
    <2>3. \A b \in Buyers \ Engineers, v \in Version, g \in Reason :
              event'[<<b, v, g>>] # 0 => grant[b][v] # "none"
        BY <2>1 DEF Bought
    <2> QED BY <1>1, <2>2, <2>3, BoughtBeside
<1> QED BY <1>2, <1>3, <1>4

LEMMA BoughtNext == IInv /\ Bought /\ [Next]_vars => Bought'
<1> SUFFICES ASSUME IInv, Bought, [Next]_vars PROVE Bought'
    OBVIOUS
<1>1. CASE ShelfNext
    BY <1>1, BoughtShelf
<1>2. ASSUME NEW r \in Requests, NEW p \in People, NEW want \in 0..MaxVersion, Ask(r, p, want)
      PROVE  Bought'
    <2>1. TypeOK /\ grant' = grant /\ event' = event
        BY <1>2 DEF IInv, Ask
    <2>2. /\ Same(r) /\ call'[r].phase = "rows" /\ call'[r].who = p
          /\ call'[r].rows = Live(p, want)
        BY <1>2, <2>1, AfterAsk
    <2>3. ASSUME NEW b \in Buyers \ Engineers, p = b, NEW v \in Live(p, want)
          PROVE  grant[b][v] # "none"
        BY <2>3, PeopleAssumption DEF Live, Visible, Holds
    <2>4. \A b \in Buyers \ Engineers, v \in Version, g \in Reason :
              event'[<<b, v, g>>] # 0 => grant[b][v] # "none"
        BY <2>1 DEF Bought
    <2> QED BY <2>1, <2>2, <2>3, <2>4, BoughtBeside
<1>3. ASSUME NEW r \in Requests, Allow(r) \/ Find(r) \/ Record(r) \/ Answer(r) \/ GiveUp(r)
      PROVE  Bought'
    BY <1>3, BoughtStep
<1>4. CASE UNCHANGED vars
    BY <1>4 DEF vars, shelf, Bought
<1> QED BY <1>1, <1>2, <1>3, <1>4 DEF Next, ShelfNext

\* No version leaves, or is recorded as taken, that its buyer never bought: the
\* rows the policy shows in the first query are all the second one chooses from.
THEOREM BoughtCorrect == Spec => []NothingUnbought
<1>1. Init => Bought
    <2> SUFFICES ASSUME Init PROVE Bought
        OBVIOUS
    <2>1. \A r \in Requests : call[r].phase = "idle"
        BY IdleType DEF Init
    <2>2. \A b \in Buyers, v \in Version, g \in Reason : <<b, v, g>> \in Copy
        BY DEF Copy, People
    <2> QED BY <2>1, <2>2 DEF Bought, Init
<1>2. IInv /\ Bought => NothingUnbought
    <2> SUFFICES ASSUME IInv, Bought, NEW b \in Buyers \ Engineers, NEW v \in Version,
                        grant[b][v] = "none", NEW g \in Reason
                 PROVE  event[<<b, v, g>>] = 0 /\ sent[<<b, v, g>>] = 0
        BY DEF NothingUnbought
    <2> DEFINE c == <<b, v, g>>
    <2>1. c \in Copy
        BY DEF Copy, People
    <2>2. event[c] = 0
        BY DEF Bought
    <2>3. sent[c] + Cardinality(Under(c)) <= event[c]
        BY <2>1 DEF IInv, TrailIsWhole, Under
    <2>4. sent[c] \in Nat /\ Cardinality(Under(c)) \in Nat
        BY <2>1, UnderFinite DEF IInv, TypeOK
    <2> QED BY <2>2, <2>3, <2>4
<1> QED BY <1>1, <1>2, BoughtNext, Invariance, PTL DEF Spec

-----------------------------------------------------------------------------
(* The shelf of Delivery implements Lifecycle.                             *)

\* What a purge is about to remove, or has removed, is not on sale.
Withdrawn == current \notin purged \cup doomed /\ doomed \cap purged = {}

LEMMA WithdrawnNext == ASSUME TypeOK, Withdrawn, [Next]_vars PROVE Withdrawn'
<1>1. CASE Release
    <2>1. made + 1 \notin 1..made
        BY Shelves
    <2> QED BY <1>1, <2>1, Shelves DEF Release, Withdrawn
<1>2. CASE Withdraw
    <2>1. 0 \notin 1..made
        OBVIOUS
    <2> QED BY <1>2, <2>1, Shelves DEF Withdraw, Withdrawn
<1>3. CASE ~ Release /\ ~ Withdraw
    BY <1>3 DEF Withdrawn, Next, vars, shelf, Doom, StopPurge, Remove, Mark, Sell, Expire, Ask,
                Allow, Find, Record, Answer, GiveUp
<1> QED BY <1>1, <1>2, <1>3

\* A step of a version's life, told by the stages before and after.
LEMMA LifeMoves ==
    ASSUME NEW v \in Version, NEW to, NEW clears,
           StageOf(v)' = to,
           \A w \in Version \ {v} :
              StageOf(w)' = IF StageOf(w) \in clears THEN "retired" ELSE StageOf(w)
    PROVE  L!Moves(v, to, clears)
BY DEF L!Moves, L!Version, Version, Life

LEMMA ReleaseLife == ASSUME TypeOK, Withdrawn, Release PROVE L!Next
<1>1. PICK v \in Version :
          /\ v = made + 1 /\ made' = v /\ current' = v /\ purged' = purged
    BY Shelves, VersionAssumption DEF Release, Version
<1>2. /\ made \in Nat /\ current \in 0..made /\ purged \subseteq 1..made
      /\ current \notin purged /\ \A w \in Version : w \in Nat /\ w # 0
    BY Shelves DEF Withdrawn, Version
<1>3. L!IsNext(v)
    <2>1. \A w \in Version : (StageOf(w) = "none" <=> w > made)
        BY DEF StageOf
    <2>2. v > made /\ \A w \in Version : w < v => ~ (w > made)
        BY <1>1, <1>2
    <2> QED BY <2>1, <2>2 DEF L!IsNext, L!Version, Version, Life
<1>4. v \notin purged /\ v # current
    BY <1>1, <1>2
<1>5. \A w \in Version \ {v} : (w > made') <=> (w > made)
    BY <1>1, <1>2
<1>6. StageOf(v)' = "sale"
    BY <1>1, <1>2 DEF StageOf
<1>7. ASSUME NEW w \in Version \ {v}
      PROVE  StageOf(w)' = IF StageOf(w) \in {"waiting", "sale"} THEN "retired" ELSE StageOf(w)
    BY <1>1, <1>2, <1>5 DEF StageOf
<1>8. L!Moves(v, "sale", {"waiting", "sale"})
    BY <1>6, <1>7, LifeMoves
<1> QED BY <1>3, <1>8 DEF L!Next, L!Replace, L!Version, Version

LEMMA WithdrawLife == ASSUME TypeOK, Withdrawn, Withdraw PROVE L!Next
<1>1. PICK v \in Version : v = current /\ v <= made
    BY Shelves DEF Withdraw, Version
<1>2. /\ made' = made /\ purged' = purged /\ current' = 0 /\ v \notin purged
      /\ made \in Nat /\ \A w \in Version : w \in Nat /\ w # 0
    BY <1>1, Shelves DEF Withdraw, Withdrawn, Version
<1>3. StageOf(v) = "sale" /\ StageOf(v)' = "retired"
    BY <1>1, <1>2 DEF StageOf
<1>4. ASSUME NEW w \in Version \ {v}
      PROVE  StageOf(w)' = StageOf(w)
    BY <1>1, <1>2 DEF StageOf
<1>5. L!Moves(v, "retired", {})
    BY <1>3, <1>4, LifeMoves
<1> QED BY <1>3, <1>5 DEF L!Next, L!Retire, L!Version, Version, Life

LEMMA MarkLife == ASSUME TypeOK, Withdrawn, NEW v \in Version, Mark(v) PROVE L!Next
<1>1. /\ made' = made /\ current' = current /\ purged' = purged \cup {v}
      /\ v \in doomed /\ v \notin purged /\ v # current /\ v \in 1..made
    BY Shelves DEF Mark, Withdrawn
<1>2. StageOf(v) = "retired" /\ StageOf(v)' = "gone"
    BY <1>1, Shelves DEF StageOf
<1>3. ASSUME NEW w \in Version \ {v}
      PROVE  StageOf(w)' = StageOf(w)
    BY <1>1 DEF StageOf
<1>4. L!Moves(v, "gone", {})
    BY <1>2, <1>3, LifeMoves
<1> QED BY <1>2, <1>4 DEF L!Next, L!Purge, L!Version, Version, Life

\* The shelf a delivery meets is one that Shelf's owner could have made: it too
\* lives as Lifecycle says, for any buyers, requests and versions.
THEOREM LifecycleCorrect == Spec => ImplementsLifecycle
<1>1. Init => L!Init /\ Withdrawn
    <2> SUFFICES ASSUME Init PROVE L!Init /\ Withdrawn
        OBVIOUS
    <2>1. \A v \in Version : v > made
        BY VersionAssumption DEF Init, Version
    <2> QED BY <2>1 DEF Init, Withdrawn, L!Init, L!Version, Version, Life, StageOf
<1>2. ASSUME TypeOK, Withdrawn, [Next]_vars PROVE [L!Next]_Life
    <2>1. CASE Release \/ Withdraw \/ \E v \in Version : Mark(v)
        BY <1>2, <2>1, ReleaseLife, WithdrawLife, MarkLife
    <2>2. CASE ~ Release /\ ~ Withdraw /\ ~ \E v \in Version : Mark(v)
        <3>1. UNCHANGED <<made, current, purged>>
            BY <1>2, <2>2 DEF Next, vars, shelf, Doom, StopPurge, Remove, Sell, Expire, Ask,
                              Allow, Find, Record, Answer, GiveUp
        <3> QED BY <3>1 DEF Life, StageOf
    <2> QED BY <2>1, <2>2
<1>3. TypeOK /\ Withdrawn /\ [Next]_vars => Withdrawn' /\ [L!Next]_Life
    BY <1>2, WithdrawnNext
<1> QED BY <1>1, <1>3, TypeCorrect, PTL DEF Spec, ImplementsLifecycle, L!Spec
=============================================================================
