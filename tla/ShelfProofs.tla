----------------------------- MODULE ShelfProofs ------------------------------
(***************************************************************************)
(* Proofs about Shelf.  An upload in flight owns an object no version row  *)
(* names (UploadsAreFresh), and a purge in flight only ever names retired  *)
(* versions (PurgesAreRetired): that is why what is on sale keeps its      *)
(* files although neither holds a lock.  While nothing has lapsed, no      *)
(* order is being placed during a purge (Apart), and what the purge found  *)
(* unclaimed stays unclaimed, so the files a claim needs stay (Keeping).   *)
(* Shown says what has left the sale is retired: with it every step of the *)
(* shelf is one of Lifecycle's, or none, each version keeping its stage    *)
(* or moving on.                                                           *)
(***************************************************************************)
EXTENDS Shelf, FiniteSetTheorems, TLAPS

\* A version row names an object of its own.
Rows ==
    /\ \A v \in Version : file[v] # None <=> v <= made
    /\ \A v, w \in Version : file[v] # None /\ file[v] = file[w] => v = w

\* An upload in flight has stored an object nobody else names.
UploadsAreFresh ==
    \A j \in Jobs : job[j].phase = "stored" =>
        /\ job[j].object \in stored
        /\ \A v \in Version : file[v] # job[j].object
        /\ \A i \in Jobs \ {j} : job[i].phase = "stored" => job[i].object # job[j].object

\* The state of each version.
States ==
    /\ published => current # 0
    /\ current # 0 => current \in activated \ Retired
    /\ \A v, w \in Pending : v = w
    /\ purged \subseteq Retired

\* A purge in flight names retired versions, and marks what it removed.
PurgesAreRetired ==
    \A j \in Jobs :
        /\ job[j].todo \cup job[j].doomed \subseteq Retired
        /\ job[j].phase \in {"orders", "mark"} => job[j].version \in Retired
        /\ job[j].phase = "mark" => file[job[j].version] \notin stored

Gone == \A v \in purged : file[v] \notin stored

There == "ack" \notin lapses => \A v \in (1..made) \ Retired : file[v] \in stored

SInv == TypeOK /\ Rows /\ UploadsAreFresh /\ States /\ PurgesAreRetired /\ Gone /\ There

-----------------------------------------------------------------------------
\* The request in a slot, after each of its steps.

Same(j) == \A i \in Jobs \ {j} : job'[i] = job[i]

LEMMA JobFields ==
    ASSUME TypeOK, NEW j \in Jobs
    PROVE  /\ job[j] \in JobType
           /\ job[j].phase \in Phase /\ job[j].object \in Uploads \cup {None}
           /\ job[j].todo \subseteq Version /\ job[j].doomed \subseteq Version
           /\ job[j].version \in 0..MaxVersion
BY DEF TypeOK, JobType

LEMMA IdleType == /\ Idle.phase = "idle" /\ Idle.object = None /\ Idle.todo = {}
                  /\ Idle.doomed = {} /\ Idle.version = 0
                  /\ Idle \in JobType
BY VersionAssumption DEF Idle, JobType, Phase

LEMMA Numbers == 0 \in 0..MaxVersion /\ \A v \in Version : v \in 0..MaxVersion
BY VersionAssumption DEF Version

LEMMA AfterLook ==
    ASSUME TypeOK, NEW j \in Jobs, Look(j)
    PROVE  /\ Same(j) /\ job' \in [Jobs -> JobType]
           /\ job'[j].phase = "grants"
           /\ job'[j].todo = {v \in Retired \ purged : v # current}
           /\ job'[j].doomed = job[j].doomed
<1> DEFINE new == {v \in Retired \ purged : v # current}
<1>1. new \subseteq Version
    BY VersionAssumption DEF TypeOK, Retired, Version
<1>2. job \in [Jobs -> JobType] /\ job[j] \in JobType
    BY JobFields DEF TypeOK
<1>3. job' = [job EXCEPT ![j].phase = "grants", ![j].todo = new]
    BY DEF Look
<1> HIDE DEF new
<1>4. job' = [job EXCEPT ![j] = [job[j] EXCEPT !.phase = "grants", !.todo = new]]
    BY <1>2, <1>3
<1>5. [job[j] EXCEPT !.phase = "grants", !.todo = new] \in JobType
    BY <1>1, <1>2 DEF JobType, Phase
<1>6. /\ Same(j) /\ job' \in [Jobs -> JobType]
      /\ job'[j].phase = "grants" /\ job'[j].todo = new /\ job'[j].doomed = job[j].doomed
    BY <1>2, <1>4, <1>5 DEF Same, JobType
<1> QED BY <1>6 DEF new

LEMMA AfterStart ==
    ASSUME TypeOK, NEW j \in Jobs, NEW new \in JobType, job' = [job EXCEPT ![j] = new]
    PROVE  Same(j) /\ job' \in [Jobs -> JobType] /\ job'[j] = new
BY DEF TypeOK, Same

LEMMA AfterLookForGrants ==
    ASSUME TypeOK, NEW j \in Jobs, NEW v \in Version, LookForGrants(j, v)
    PROVE  /\ Same(j) /\ job' \in [Jobs -> JobType]
           /\ job'[j].doomed = job[j].doomed
           /\ \/ job'[j].phase = "grants" /\ job'[j].todo = job[j].todo \ {v}
              \/ /\ job'[j].phase = "orders" /\ job'[j].version = v
                 /\ job'[j].todo = job[j].todo /\ ~ Held(v)
<1>1. job \in [Jobs -> JobType] /\ job[j] \in JobType
    BY JobFields DEF TypeOK
<1>2. CASE Held(v)
    <2>1. job' = [job EXCEPT ![j] = [job[j] EXCEPT !.todo = @ \ {v}]]
        BY <1>1, <1>2 DEF LookForGrants
    <2>2. [job[j] EXCEPT !.todo = @ \ {v}] \in JobType
        BY <1>1 DEF JobType
    <2>3. job[j].phase = "grants"
        BY DEF LookForGrants
    <2> QED BY <1>1, <2>1, <2>2, <2>3 DEF Same, JobType
<1>3. CASE ~ Held(v)
    <2>1. job' = [job EXCEPT ![j].phase = "orders", ![j].version = v]
        BY <1>3 DEF LookForGrants
    <2>2. job' = [job EXCEPT ![j] = [job[j] EXCEPT !.phase = "orders", !.version = v]]
        BY <1>1, <2>1
    <2>3. [job[j] EXCEPT !.phase = "orders", !.version = v] \in JobType
        BY <1>1, Numbers DEF JobType, Phase
    <2> QED BY <1>1, <1>3, <2>2, <2>3 DEF Same, JobType
<1> QED BY <1>2, <1>3

LEMMA AfterLookForOrders ==
    ASSUME TypeOK, NEW j \in Jobs, LookForOrders(j), job[j].version \in Version
    PROVE  /\ Same(j) /\ job' \in [Jobs -> JobType]
           /\ job'[j].phase = "grants"
           /\ job'[j].todo = job[j].todo \ {job[j].version}
           /\ job'[j].doomed = IF Awaited(job[j].version) THEN job[j].doomed
                               ELSE job[j].doomed \cup {job[j].version}
<1> DEFINE v == job[j].version
           left == job[j].todo \ {v}
           found == IF Awaited(v) THEN job[j].doomed ELSE job[j].doomed \cup {v}
<1>1. job \in [Jobs -> JobType] /\ job[j] \in JobType
    BY JobFields DEF TypeOK
<1>2. left \subseteq Version /\ found \subseteq Version
    BY JobFields
<1>3. job' = [job EXCEPT ![j].phase = "grants", ![j].version = 0, ![j].todo = left,
                         ![j].doomed = found]
    BY <1>1 DEF LookForOrders, JobType
<1> HIDE DEF left, found
<1>4. job' = [job EXCEPT ![j] = [job[j] EXCEPT !.phase = "grants", !.version = 0,
                                               !.todo = left, !.doomed = found]]
    BY <1>1, <1>3
<1>5. [job[j] EXCEPT !.phase = "grants", !.version = 0, !.todo = left, !.doomed = found]
        \in JobType
    BY <1>1, <1>2, Numbers DEF JobType, Phase
<1>6. /\ Same(j) /\ job' \in [Jobs -> JobType]
      /\ job'[j].phase = "grants" /\ job'[j].todo = left /\ job'[j].doomed = found
    BY <1>1, <1>4, <1>5 DEF Same, JobType
<1> QED BY <1>6 DEF left, found

LEMMA AfterRemove ==
    ASSUME TypeOK, NEW j \in Jobs, NEW v \in Version, Remove(j, v)
    PROVE  /\ Same(j) /\ job' \in [Jobs -> JobType]
           /\ job'[j].phase = "mark" /\ job'[j].version = v
           /\ job'[j].todo = job[j].todo /\ job'[j].doomed = job[j].doomed
<1>1. job \in [Jobs -> JobType] /\ job[j] \in JobType
    BY JobFields DEF TypeOK
<1>2. job' = [job EXCEPT ![j] = [job[j] EXCEPT !.phase = "mark", !.version = v]]
    BY <1>1 DEF Remove
<1>3. [job[j] EXCEPT !.phase = "mark", !.version = v] \in JobType
    BY <1>1, Numbers DEF JobType, Phase
<1> QED BY <1>1, <1>2, <1>3 DEF Same, JobType

LEMMA AfterFailRemove ==
    ASSUME TypeOK, NEW j \in Jobs, NEW v \in Version, FailRemove(j, v)
    PROVE  /\ Same(j) /\ job' \in [Jobs -> JobType]
           /\ job'[j].phase = job[j].phase
           /\ job'[j].todo = job[j].todo /\ job'[j].doomed = job[j].doomed \ {v}
<1>1. job \in [Jobs -> JobType] /\ job[j] \in JobType
    BY JobFields DEF TypeOK
<1>2. job' = [job EXCEPT ![j] = [job[j] EXCEPT !.doomed = @ \ {v}]]
    BY <1>1 DEF FailRemove
<1>3. [job[j] EXCEPT !.doomed = @ \ {v}] \in JobType
    BY <1>1 DEF JobType
<1> QED BY <1>1, <1>2, <1>3 DEF Same, JobType

LEMMA AfterMark ==
    ASSUME TypeOK, NEW j \in Jobs, Mark(j)
    PROVE  /\ Same(j) /\ job' \in [Jobs -> JobType]
           /\ job'[j].phase = "grants" /\ job'[j].todo = job[j].todo
           /\ job'[j].doomed = job[j].doomed \ {job[j].version}
<1> DEFINE rest == job[j].doomed \ {job[j].version}
<1>1. job \in [Jobs -> JobType] /\ job[j] \in JobType /\ rest \subseteq Version
    BY JobFields DEF TypeOK
<1>2. job' = [job EXCEPT ![j].phase = "grants", ![j].version = 0, ![j].doomed = rest]
    BY <1>1 DEF Mark, JobType
<1> HIDE DEF rest
<1>3. job' = [job EXCEPT ![j] = [job[j] EXCEPT !.phase = "grants", !.version = 0, !.doomed = rest]]
    BY <1>1, <1>2
<1>4. [job[j] EXCEPT !.phase = "grants", !.version = 0, !.doomed = rest] \in JobType
    BY <1>1, Numbers DEF JobType, Phase
<1>5. /\ Same(j) /\ job' \in [Jobs -> JobType] /\ job'[j].phase = "grants"
      /\ job'[j].todo = job[j].todo /\ job'[j].doomed = rest
    BY <1>1, <1>3, <1>4 DEF Same, JobType
<1> QED BY <1>5 DEF rest

-----------------------------------------------------------------------------
\* Steps that leave the rows of the versions alone.

\* A purge may remove the files of retired versions, and mark those it removed.
LEMMA PurgeStep ==
    ASSUME SInv, NEW j \in Jobs, Same(j), UNCHANGED shelf, lapses \subseteq lapses',
           job'[j].phase # "stored",
           stored' \subseteq stored,
           \A u \in stored \ stored' : \E v \in Retired : u = file[v],
           purged' \subseteq Retired,
           \A v \in purged' : file[v] \notin stored',
           job'[j].todo \cup job'[j].doomed \subseteq Retired,
           job'[j].phase \in {"orders", "mark"} => job'[j].version \in Retired,
           job'[j].phase = "mark" => file[job'[j].version] \notin stored'
    PROVE  Rows' /\ UploadsAreFresh' /\ States' /\ PurgesAreRetired' /\ Gone' /\ There'
<1>1. /\ made' = made /\ file' = file /\ current' = current /\ published' = published
      /\ activated' = activated /\ superseded' = superseded /\ deleted' = deleted
      /\ Retired' = Retired /\ Pending' = Pending
    BY DEF shelf, Retired, Pending
<1>2. Retired \subseteq Version /\ Retired \subseteq 1..made /\ 1..made \subseteq Version
    BY VersionAssumption DEF SInv, TypeOK, Retired, Version
<1>3. Rows'
    BY <1>1 DEF SInv, Rows
<1>4. UploadsAreFresh'
    <2> SUFFICES ASSUME NEW k \in Jobs, job'[k].phase = "stored"
                 PROVE  /\ job'[k].object \in stored'
                        /\ \A v \in Version : file'[v] # job'[k].object
                        /\ \A i \in Jobs \ {k} : job'[i].phase = "stored" =>
                              job'[i].object # job'[k].object
        BY DEF UploadsAreFresh
    <2>1. k # j /\ job'[k] = job[k]
        BY DEF Same
    <2>2. \A i \in Jobs : job'[i].phase = "stored" => job'[i] = job[i]
        BY DEF Same
    <2>3. /\ job[k].object \in stored
          /\ \A v \in Version : file[v] # job[k].object
          /\ \A i \in Jobs \ {k} : job[i].phase = "stored" => job[i].object # job[k].object
        BY <2>1 DEF SInv, UploadsAreFresh
    <2>4. job[k].object \in stored'
        BY <1>2, <2>3
    <2> QED BY <1>1, <2>1, <2>2, <2>3, <2>4
<1>5. States'
    BY <1>1 DEF SInv, States
<1>6. PurgesAreRetired'
    <2> SUFFICES ASSUME NEW k \in Jobs
                 PROVE  /\ job'[k].todo \cup job'[k].doomed \subseteq Retired'
                        /\ job'[k].phase \in {"orders", "mark"} => job'[k].version \in Retired'
                        /\ job'[k].phase = "mark" => file'[job'[k].version] \notin stored'
        BY DEF PurgesAreRetired
    <2>1. CASE k = j
        BY <1>1, <2>1
    <2>2. CASE k # j
        <3>1. job'[k] = job[k]
            BY <2>2 DEF Same
        <3> QED BY <1>1, <3>1 DEF SInv, PurgesAreRetired
    <2> QED BY <2>1, <2>2
<1>7. Gone'
    BY <1>1 DEF Gone
<1>8. There'
    <2> SUFFICES ASSUME "ack" \notin lapses, NEW v \in (1..made) \ Retired
                 PROVE  file[v] \in stored'
        BY <1>1 DEF There
    <2>1. file[v] \in stored
        BY DEF SInv, There
    <2>2. file[v] # None
        BY <1>2 DEF SInv, Rows
    <2>3. \A w \in Retired : file[w] # file[v]
        BY <1>2, <2>2 DEF SInv, Rows
    <2> QED BY <2>1, <2>3
<1> QED BY <1>3, <1>4, <1>5, <1>6, <1>7, <1>8

\* A step on orders alone.
LEMMA SalesStep ==
    ASSUME SInv, UNCHANGED <<shelf, purged, stored, job>>, lapses \subseteq lapses'
    PROVE  Rows' /\ UploadsAreFresh' /\ States' /\ PurgesAreRetired' /\ Gone' /\ There'
<1>1. /\ made' = made /\ file' = file /\ current' = current /\ published' = published
      /\ activated' = activated /\ superseded' = superseded /\ deleted' = deleted
      /\ Retired' = Retired /\ Pending' = Pending
      /\ purged' = purged /\ stored' = stored /\ job' = job
    BY DEF shelf, Retired, Pending
<1>2. Rows' /\ UploadsAreFresh' /\ States'
    BY <1>1 DEF SInv, Rows, UploadsAreFresh, States
<1>3. PurgesAreRetired' /\ Gone' /\ There'
    BY <1>1 DEF SInv, PurgesAreRetired, Gone, There
<1> QED BY <1>2, <1>3

-----------------------------------------------------------------------------
\* The steps of a purge.

LEMMA RetiredType == ASSUME TypeOK
                     PROVE  /\ Retired \subseteq Version /\ Retired \subseteq 1..made
                            /\ 1..made \subseteq Version /\ made \in Nat
BY VersionAssumption DEF TypeOK, Retired, Version

LEMMA PurgeTypes ==
    ASSUME TypeOK, UNCHANGED <<shelf, sales>>, purged' \subseteq Retired, stored' \subseteq stored,
           job' \in [Jobs -> JobType], lapses' \subseteq Lapse
    PROVE  TypeOK'
BY RetiredType DEF TypeOK, shelf, sales, Retired

LEMMA LookStep == ASSUME SInv, NEW j \in Jobs, Look(j) PROVE SInv'
<1>1. TypeOK
    BY DEF SInv
<1>2. /\ Same(j) /\ job' \in [Jobs -> JobType] /\ job'[j].phase = "grants"
      /\ job'[j].todo = {v \in Retired \ purged : v # current}
      /\ job'[j].doomed = job[j].doomed
    BY <1>1, AfterLook
<1>3. /\ UNCHANGED <<shelf, purged, stored, sales>>
      /\ lapses \subseteq lapses' /\ lapses' \subseteq Lapse
    BY <1>1 DEF Look, LapseIf, TypeOK, Lapse
<1>4. job'[j].todo \cup job'[j].doomed \subseteq Retired
    BY <1>2 DEF SInv, PurgesAreRetired
<1>5. purged' \subseteq Retired /\ \A v \in purged' : file[v] \notin stored'
    BY <1>3 DEF SInv, States, Gone
<1>6. TypeOK'
    BY <1>1, <1>2, <1>3, <1>5, PurgeTypes
<1>7. Rows' /\ UploadsAreFresh' /\ States' /\ PurgesAreRetired' /\ Gone' /\ There'
    BY <1>2, <1>3, <1>4, <1>5, PurgeStep
<1> QED BY <1>6, <1>7 DEF SInv

LEMMA LookForGrantsStep ==
    ASSUME SInv, NEW j \in Jobs, NEW v \in Version, LookForGrants(j, v) PROVE SInv'
<1>1. TypeOK
    BY DEF SInv
<1>2. /\ Same(j) /\ job' \in [Jobs -> JobType] /\ job'[j].doomed = job[j].doomed
      /\ \/ job'[j].phase = "grants" /\ job'[j].todo = job[j].todo \ {v}
         \/ job'[j].phase = "orders" /\ job'[j].version = v /\ job'[j].todo = job[j].todo
    BY <1>1, AfterLookForGrants
<1>3. /\ UNCHANGED <<shelf, purged, stored, sales, lapses>>
      /\ v \in Retired /\ lapses' \subseteq Lapse
    BY DEF LookForGrants, SInv, PurgesAreRetired, TypeOK
<1>4. /\ job'[j].todo \cup job'[j].doomed \subseteq Retired
      /\ job'[j].phase \notin {"stored", "mark"}
      /\ job'[j].phase = "orders" => job'[j].version \in Retired
    BY <1>2, <1>3 DEF SInv, PurgesAreRetired
<1>5. purged' \subseteq Retired /\ \A w \in purged' : file[w] \notin stored'
    BY <1>3 DEF SInv, States, Gone
<1>6. TypeOK'
    BY <1>1, <1>2, <1>3, <1>5, PurgeTypes
<1>7. Rows' /\ UploadsAreFresh' /\ States' /\ PurgesAreRetired' /\ Gone' /\ There'
    BY <1>2, <1>3, <1>4, <1>5, PurgeStep
<1> QED BY <1>6, <1>7 DEF SInv

LEMMA LookForOrdersStep == ASSUME SInv, NEW j \in Jobs, LookForOrders(j) PROVE SInv'
<1>1. TypeOK
    BY DEF SInv
<1>2. job[j].version \in Retired /\ job[j].version \in Version
    BY <1>1, RetiredType DEF LookForOrders, SInv, PurgesAreRetired
<1>3. /\ Same(j) /\ job' \in [Jobs -> JobType] /\ job'[j].phase = "grants"
      /\ job'[j].todo \subseteq job[j].todo
      /\ job'[j].doomed \subseteq job[j].doomed \cup {job[j].version}
    BY <1>1, <1>2, AfterLookForOrders
<1>4. UNCHANGED <<shelf, purged, stored, sales, lapses>> /\ lapses' \subseteq Lapse
    BY <1>1 DEF LookForOrders, TypeOK
<1>5. job'[j].todo \cup job'[j].doomed \subseteq Retired
    BY <1>2, <1>3 DEF SInv, PurgesAreRetired
<1>6. purged' \subseteq Retired /\ \A w \in purged' : file[w] \notin stored'
    BY <1>4 DEF SInv, States, Gone
<1>7. TypeOK'
    BY <1>1, <1>3, <1>4, <1>6, PurgeTypes
<1>8. Rows' /\ UploadsAreFresh' /\ States' /\ PurgesAreRetired' /\ Gone' /\ There'
    BY <1>3, <1>4, <1>5, <1>6, PurgeStep
<1> QED BY <1>7, <1>8 DEF SInv

LEMMA RemoveStep == ASSUME SInv, NEW j \in Jobs, NEW v \in Version, Remove(j, v) PROVE SInv'
<1>1. TypeOK
    BY DEF SInv
<1>2. /\ Same(j) /\ job' \in [Jobs -> JobType]
      /\ job'[j].phase = "mark" /\ job'[j].version = v
      /\ job'[j].todo = job[j].todo /\ job'[j].doomed = job[j].doomed
    BY <1>1, AfterRemove
<1>3. /\ UNCHANGED <<shelf, purged, sales, lapses>> /\ stored' = stored \ {file[v]}
      /\ v \in Retired /\ lapses' \subseteq Lapse
    BY DEF Remove, Doomed, SInv, PurgesAreRetired, TypeOK
<1>4. job'[j].todo \cup job'[j].doomed \subseteq Retired
    BY <1>2 DEF SInv, PurgesAreRetired
<1>5. purged' \subseteq Retired /\ \A w \in purged' : file[w] \notin stored'
    BY <1>3 DEF SInv, States, Gone
<1>6. TypeOK'
    BY <1>1, <1>2, <1>3, <1>5, PurgeTypes
<1>7. Rows' /\ UploadsAreFresh' /\ States' /\ PurgesAreRetired' /\ Gone' /\ There'
    BY <1>2, <1>3, <1>4, <1>5, PurgeStep
<1> QED BY <1>6, <1>7 DEF SInv

LEMMA FailRemoveStep ==
    ASSUME SInv, NEW j \in Jobs, NEW v \in Version, FailRemove(j, v) PROVE SInv'
<1>1. TypeOK
    BY DEF SInv
<1>2. /\ Same(j) /\ job' \in [Jobs -> JobType] /\ job'[j].phase = job[j].phase
      /\ job'[j].todo = job[j].todo /\ job'[j].doomed = job[j].doomed \ {v}
    BY <1>1, AfterFailRemove
<1>3. /\ UNCHANGED <<shelf, purged, sales, lapses>>
      /\ stored' = stored \/ stored' = stored \ {file[v]}
      /\ v \in Retired /\ lapses' \subseteq Lapse /\ job[j].phase = "grants"
    BY DEF FailRemove, Doomed, SInv, PurgesAreRetired, TypeOK
<1>4. job'[j].todo \cup job'[j].doomed \subseteq Retired
    BY <1>2 DEF SInv, PurgesAreRetired
<1>5. purged' \subseteq Retired /\ \A w \in purged' : file[w] \notin stored'
    BY <1>3 DEF SInv, States, Gone
<1>6. TypeOK'
    BY <1>1, <1>2, <1>3, <1>5, PurgeTypes
<1>7. Rows' /\ UploadsAreFresh' /\ States' /\ PurgesAreRetired' /\ Gone' /\ There'
    BY <1>2, <1>3, <1>4, <1>5, PurgeStep
<1> QED BY <1>6, <1>7 DEF SInv

LEMMA MarkStep == ASSUME SInv, NEW j \in Jobs, Mark(j) PROVE SInv'
<1>1. TypeOK
    BY DEF SInv
<1>2. /\ Same(j) /\ job' \in [Jobs -> JobType] /\ job'[j].phase = "grants"
      /\ job'[j].todo = job[j].todo /\ job'[j].doomed \subseteq job[j].doomed
    BY <1>1, AfterMark
<1>3. /\ UNCHANGED <<shelf, stored, sales, lapses>> /\ lapses' \subseteq Lapse
      /\ purged' = purged \cup {job[j].version}
      /\ job[j].version \in Retired /\ file[job[j].version] \notin stored
    BY DEF Mark, SInv, PurgesAreRetired, TypeOK
<1>4. job'[j].todo \cup job'[j].doomed \subseteq Retired
    BY <1>2 DEF SInv, PurgesAreRetired
<1>5. purged' \subseteq Retired /\ \A w \in purged' : file[w] \notin stored'
    BY <1>3 DEF SInv, States, Gone
<1>6. TypeOK'
    BY <1>1, <1>2, <1>3, <1>5, PurgeTypes
<1>7. Rows' /\ UploadsAreFresh' /\ States' /\ PurgesAreRetired' /\ Gone' /\ There'
    BY <1>2, <1>3, <1>4, <1>5, PurgeStep
<1> QED BY <1>6, <1>7 DEF SInv

LEMMA StopStep == ASSUME SInv, NEW j \in Jobs, Stop(j) PROVE SInv'
<1>1. TypeOK
    BY DEF SInv
<1>2. Same(j) /\ job' \in [Jobs -> JobType] /\ job'[j] = Idle
    BY <1>1, AfterStart, IdleType DEF Stop
<1>3. /\ UNCHANGED <<shelf, purged, stored, sales, lapses>> /\ lapses' \subseteq Lapse
    BY <1>1 DEF Stop, TypeOK
<1>4. purged' \subseteq Retired /\ \A w \in purged' : file[w] \notin stored'
    BY <1>3 DEF SInv, States, Gone
<1>5. TypeOK'
    BY <1>1, <1>2, <1>3, <1>4, PurgeTypes
<1>6. Rows' /\ UploadsAreFresh' /\ States' /\ PurgesAreRetired' /\ Gone' /\ There'
    BY <1>2, <1>3, <1>4, IdleType, PurgeStep
<1> QED BY <1>5, <1>6 DEF SInv

-----------------------------------------------------------------------------
\* Uploads.

LEMMA PutStep == ASSUME SInv, NEW j \in Jobs, NEW u \in Uploads, PutObject(j, u) PROVE SInv'
<1> DEFINE new == [Idle EXCEPT !.phase = "stored", !.object = u]
<1>1. TypeOK
    BY DEF SInv
<1>2. /\ new \in JobType /\ new.phase = "stored" /\ new.object = u
      /\ new.todo = {} /\ new.doomed = {}
    BY Numbers DEF Idle, JobType, Phase
<1>3. job' = [job EXCEPT ![j] = new]
    BY DEF PutObject
<1> HIDE DEF new
<1>4. Same(j) /\ job' \in [Jobs -> JobType] /\ job'[j] = new
    BY <1>1, <1>2, <1>3, AfterStart
<1>5. /\ stored' = stored \cup {u} /\ u \notin stored /\ \A v \in Version : file[v] # u
      /\ UNCHANGED <<shelf, purged, sales, lapses>>
    BY DEF PutObject
<1>6. /\ made' = made /\ file' = file /\ current' = current /\ published' = published
      /\ activated' = activated /\ superseded' = superseded /\ deleted' = deleted
      /\ Retired' = Retired /\ Pending' = Pending /\ purged' = purged
      /\ order' = order /\ line' = line /\ grant' = grant /\ lapses' = lapses
    BY <1>5 DEF shelf, sales, Retired, Pending
<1>7. TypeOK'
    BY <1>1, <1>4, <1>5, <1>6 DEF TypeOK
<1>8. Rows' /\ States'
    BY <1>6 DEF SInv, Rows, States
<1>9. UploadsAreFresh'
    <2> SUFFICES ASSUME NEW k \in Jobs, job'[k].phase = "stored"
                 PROVE  /\ job'[k].object \in stored'
                        /\ \A v \in Version : file'[v] # job'[k].object
                        /\ \A i \in Jobs \ {k} : job'[i].phase = "stored" =>
                              job'[i].object # job'[k].object
        BY DEF UploadsAreFresh
    <2>1. \A i \in Jobs \ {j} : job'[i].phase = "stored" => job'[i].object \in stored
        BY <1>4 DEF SInv, UploadsAreFresh, Same
    <2>2. CASE k = j
        BY <1>2, <1>4, <1>5, <1>6, <2>1, <2>2
    <2>3. CASE k # j
        <3>1. job'[k] = job[k] /\ \A i \in Jobs \ {j} : job'[i] = job[i]
            BY <1>4, <2>3 DEF Same
        <3>2. job[k].object \in stored /\ \A v \in Version : file[v] # job[k].object
            BY <3>1 DEF SInv, UploadsAreFresh
        <3>3. \A i \in Jobs \ {k, j} : job'[i].phase = "stored" => job'[i].object # job[k].object
            BY <3>1 DEF SInv, UploadsAreFresh
        <3>4. job'[j].object # job[k].object
            BY <1>2, <1>4, <1>5, <3>2
        <3> QED BY <1>5, <1>6, <3>1, <3>2, <3>3, <3>4
    <2> QED BY <2>2, <2>3
<1>10. PurgesAreRetired'
    <2> SUFFICES ASSUME NEW k \in Jobs
                 PROVE  /\ job'[k].todo \cup job'[k].doomed \subseteq Retired
                        /\ job'[k].phase \in {"orders", "mark"} => job'[k].version \in Retired
                        /\ job'[k].phase = "mark" => file[job'[k].version] \notin stored'
        BY <1>6 DEF PurgesAreRetired
    <2>1. CASE k = j
        BY <1>2, <1>4, <2>1
    <2>2. CASE k # j
        <3>1. /\ job'[k] = job[k]
              /\ job[k].todo \cup job[k].doomed \subseteq Retired
              /\ job[k].phase \in {"orders", "mark"} => job[k].version \in Retired
              /\ job[k].phase = "mark" => file[job[k].version] \notin stored
            BY <1>4, <2>2 DEF Same, SInv, PurgesAreRetired
        <3>2. job[k].phase = "mark" => job[k].version \in Version
            BY <1>1, <3>1, RetiredType
        <3> QED BY <1>5, <3>1, <3>2
    <2> QED BY <2>1, <2>2
<1>11. Gone'
    <2>1. purged \subseteq Version
        BY <1>1, RetiredType DEF SInv, States
    <2> QED BY <1>5, <1>6, <2>1 DEF SInv, Gone
<1>12. There'
    BY <1>5, <1>6 DEF SInv, There
<1> QED BY <1>7, <1>8, <1>9, <1>10, <1>11, <1>12 DEF SInv

\* The rows of a version recorded, whatever its request is told.
LEMMA RecordedRows ==
    ASSUME SInv, NEW j \in Jobs, Recorded(j), purged' = purged, stored' \subseteq stored,
           UNCHANGED sales, Same(j), job' \in [Jobs -> JobType],
           job'[j].phase \notin {"stored", "orders", "mark"},
           job'[j].todo = {}, job'[j].doomed = {},
           stored \ {job[j].object} \subseteq stored',
           lapses \subseteq lapses', lapses' \subseteq Lapse,
           "ack" \in lapses' \/ stored' = stored
    PROVE  SInv'
<1> DEFINE n == made + 1
<1>1. TypeOK
    BY DEF SInv
<1>2. /\ job[j].phase = "stored" /\ n \in Version /\ made' = n /\ n \in 1..made'
      /\ made \in Nat /\ n \notin 1..made /\ 1..made' = 1..made \cup {n} /\ n # 0
      /\ 1..made' \subseteq Version
    BY <1>1, VersionAssumption DEF Recorded, NextNumber, Version, TypeOK
<1>3. /\ file' = [file EXCEPT ![n] = job[j].object]
      /\ deleted' = deleted \cup Discarded /\ superseded' = superseded /\ published' = published
      /\ activated' = IF Waits THEN activated ELSE activated \cup {n}
      /\ current' = IF Waits THEN current ELSE n
    BY DEF Recorded, NextNumber
<1>4. /\ job[j].object \in Uploads /\ job[j].object # None /\ job[j].object \in stored
      /\ \A v \in Version : file[v] # job[j].object
    <2>1. job[j].object \in stored /\ \A v \in Version : file[v] # job[j].object
        BY <1>2 DEF SInv, UploadsAreFresh
    <2> QED BY <1>1, <2>1, NoneAssumption DEF TypeOK
<1>5. /\ \A v \in Version : v # n => file'[v] = file[v]
      /\ file'[n] = job[j].object /\ file' \in [Version -> Uploads \cup {None}]
    BY <1>1, <1>2, <1>3, <1>4 DEF TypeOK
<1> HIDE DEF n
<1>6. Discarded \subseteq 1..made
    <2>1. current # 0 => current \in 1..made
        BY <1>1, <1>2 DEF TypeOK
    <2> QED BY <2>1 DEF Discarded, Pending
<1>7. /\ Retired' = Retired \cup Discarded /\ Retired' \subseteq 1..made
      /\ Retired \subseteq 1..made /\ n \notin Retired'
    BY <1>1, <1>2, <1>3, <1>6, RetiredType DEF Retired
<1>8. TypeOK'
    <2>1. current' \in 0..made' /\ made' \in 0..MaxVersion
        BY <1>1, <1>2, <1>3, Numbers DEF TypeOK
    <2>2. UNION {activated', superseded', deleted', purged'} \subseteq 1..made'
        BY <1>1, <1>2, <1>3, <1>6 DEF TypeOK
    <2>3. published' \in BOOLEAN /\ stored' \subseteq Uploads
          /\ order' = order /\ line' = line /\ grant' = grant
        BY <1>1, <1>3 DEF TypeOK, sales
    <2> QED BY <1>1, <1>5, <2>1, <2>2, <2>3 DEF TypeOK
<1>9. Rows'
    <2>1. ASSUME NEW v \in Version PROVE file'[v] # None <=> v <= made'
        <3>1. CASE v = n
            BY <1>2, <1>4, <1>5, <3>1
        <3>2. CASE v # n
            <4>1. file[v] # None <=> v <= made
                BY DEF SInv, Rows
            <4>2. v <= made' <=> v <= made
                BY <1>2, <3>2 DEF Version, n
            <4> QED BY <1>5, <3>2, <4>1, <4>2
        <3> QED BY <3>1, <3>2
    <2>2. ASSUME NEW v \in Version, NEW w \in Version, file'[v] # None, file'[v] = file'[w]
          PROVE  v = w
        BY <1>4, <1>5, <2>2 DEF SInv, Rows
    <2> QED BY <2>1, <2>2 DEF Rows
<1>10. UploadsAreFresh'
    <2> SUFFICES ASSUME NEW k \in Jobs, job'[k].phase = "stored"
                 PROVE  /\ job'[k].object \in stored'
                        /\ \A v \in Version : file'[v] # job'[k].object
                        /\ \A i \in Jobs \ {k} : job'[i].phase = "stored" =>
                              job'[i].object # job'[k].object
        BY DEF UploadsAreFresh
    <2>1. k # j /\ job'[k] = job[k]
        BY DEF Same
    <2>2. \A i \in Jobs : job'[i].phase = "stored" => job'[i] = job[i]
        BY DEF Same
    <2>3. /\ job[k].object \in stored
          /\ \A v \in Version : file[v] # job[k].object
          /\ \A i \in Jobs \ {k} : job[i].phase = "stored" => job[i].object # job[k].object
        BY <2>1 DEF SInv, UploadsAreFresh
    <2>4. job[j].object # job[k].object
        BY <1>2, <2>1, <2>3
    <2>5. job[k].object \in stored'
        BY <2>3, <2>4
    <2>6. \A v \in Version : file'[v] # job[k].object
        BY <1>5, <2>3, <2>4
    <2> QED BY <2>1, <2>2, <2>3, <2>5, <2>6
<1>11. States'
    <2>1. published' => current' # 0
        BY <1>2, <1>3 DEF SInv, States
    <2>2. current' # 0 => current' \in activated' \ Retired'
        <3>1. CASE Waits
            <4>1. Discarded = Pending
                BY <3>1 DEF Discarded
            <4> QED BY <1>3, <1>7, <3>1, <4>1 DEF SInv, States, Pending
        <3>2. CASE ~ Waits
            BY <1>3, <1>7, <3>2
        <3> QED BY <3>1, <3>2
    <2>3. \A v \in Pending' : v = n
        <3> SUFFICES ASSUME NEW v \in Pending', v # n PROVE FALSE
            OBVIOUS
        <3>1. v \in 1..made /\ v \notin activated /\ v \notin deleted /\ v # current'
              /\ v \notin Discarded
            BY <1>2, <1>3 DEF Pending
        <3>2. v = current
            BY <3>1 DEF Discarded, Pending
        <3>3. current # 0
            BY <1>2, <3>1, <3>2
        <3> QED BY <3>1, <3>2, <3>3 DEF SInv, States
    <2>4. purged' \subseteq Retired'
        BY <1>7 DEF SInv, States
    <2> QED BY <2>1, <2>2, <2>3, <2>4 DEF States
<1>12. PurgesAreRetired'
    <2> SUFFICES ASSUME NEW k \in Jobs
                 PROVE  /\ job'[k].todo \cup job'[k].doomed \subseteq Retired'
                        /\ job'[k].phase \in {"orders", "mark"} => job'[k].version \in Retired'
                        /\ job'[k].phase = "mark" => file'[job'[k].version] \notin stored'
        BY DEF PurgesAreRetired
    <2>1. CASE k = j
        BY <2>1
    <2>2. CASE k # j
        <3>1. /\ job'[k] = job[k]
              /\ job[k].todo \cup job[k].doomed \subseteq Retired
              /\ job[k].phase \in {"orders", "mark"} => job[k].version \in Retired
              /\ job[k].phase = "mark" => file[job[k].version] \notin stored
            BY <2>2 DEF Same, SInv, PurgesAreRetired
        <3>2. job[k].phase = "mark" => file'[job[k].version] = file[job[k].version]
            BY <1>1, <1>5, <1>7, <3>1, RetiredType
        <3> QED BY <1>7, <3>1, <3>2
    <2> QED BY <2>1, <2>2
<1>13. Gone'
    <2>1. \A v \in purged : v \in Version /\ v # n
        BY <1>1, <1>7, RetiredType DEF SInv, States
    <2> QED BY <1>5, <2>1 DEF SInv, Gone
<1>14. There'
    <2> SUFFICES ASSUME "ack" \notin lapses', NEW v \in (1..made') \ Retired'
                 PROVE  file'[v] \in stored'
        BY DEF There
    <2>1. stored' = stored /\ "ack" \notin lapses
        OBVIOUS
    <2>2. CASE v = n
        BY <1>4, <1>5, <2>1, <2>2
    <2>3. CASE v # n
        <3>1. v \in (1..made) \ Retired /\ v \in Version
            BY <1>2, <1>7, <2>3
        <3> QED BY <1>5, <2>1, <2>3, <3>1 DEF SInv, There
    <2> QED BY <2>2, <2>3
<1> QED BY <1>8, <1>9, <1>10, <1>11, <1>12, <1>13, <1>14 DEF SInv

LEMMA RecordStep == ASSUME SInv, NEW j \in Jobs, RecordVersion(j) PROVE SInv'
<1> DEFINE new == [Idle EXCEPT !.phase = "look"]
<1>1. TypeOK
    BY DEF SInv
<1>2. new \in JobType /\ new.phase = "look" /\ new.todo = {} /\ new.doomed = {}
    BY Numbers DEF Idle, JobType, Phase
<1>3. /\ Recorded(j) /\ job' = [job EXCEPT ![j] = new]
      /\ UNCHANGED <<purged, stored, sales, lapses>>
    BY DEF RecordVersion
<1> HIDE DEF new
<1>4. Same(j) /\ job' \in [Jobs -> JobType] /\ job'[j] = new
    BY <1>1, <1>2, <1>3, AfterStart
<1>5. lapses' \subseteq Lapse
    BY <1>1, <1>3 DEF TypeOK
<1> QED BY <1>2, <1>3, <1>4, <1>5, RecordedRows

LEMMA FailUploadStep == ASSUME SInv, NEW j \in Jobs, FailUpload(j) PROVE SInv'
<1>1. TypeOK
    BY DEF SInv
<1>2. Same(j) /\ job' \in [Jobs -> JobType] /\ job'[j] = Idle
    BY <1>1, AfterStart, IdleType DEF FailUpload
<1>3. /\ stored' \subseteq stored /\ stored \ {job[j].object} \subseteq stored'
      /\ purged' = purged /\ UNCHANGED sales /\ job[j].phase = "stored"
    BY DEF FailUpload
<1>4. CASE Recorded(j) /\ lapses' = lapses \cup {"ack"}
    <2>1. lapses' \subseteq Lapse
        BY <1>1, <1>4 DEF TypeOK, Lapse
    <2> QED BY <1>2, <1>3, <1>4, <2>1, IdleType, RecordedRows
<1>5. CASE UNCHANGED <<shelf, lapses>>
    <2>1. /\ made' = made /\ file' = file /\ current' = current /\ published' = published
          /\ activated' = activated /\ superseded' = superseded /\ deleted' = deleted
          /\ Retired' = Retired /\ Pending' = Pending /\ lapses' = lapses
          /\ order' = order /\ line' = line /\ grant' = grant
        BY <1>3, <1>5 DEF shelf, sales, Retired, Pending
    <2>2. \A v \in Version : file[v] # job[j].object
        BY <1>3 DEF SInv, UploadsAreFresh
    <2>3. TypeOK'
        BY <1>1, <1>2, <1>3, <2>1 DEF TypeOK
    <2>4. Rows' /\ States'
        BY <1>3, <2>1 DEF SInv, Rows, States
    <2>5. UploadsAreFresh'
        <3> SUFFICES ASSUME NEW k \in Jobs, job'[k].phase = "stored"
                     PROVE  /\ job'[k].object \in stored'
                            /\ \A v \in Version : file'[v] # job'[k].object
                            /\ \A i \in Jobs \ {k} : job'[i].phase = "stored" =>
                                  job'[i].object # job'[k].object
            BY DEF UploadsAreFresh
        <3>1. k # j /\ job'[k] = job[k]
            BY <1>2, IdleType DEF Same
        <3>2. \A i \in Jobs : job'[i].phase = "stored" => job'[i] = job[i]
            BY <1>2, IdleType DEF Same
        <3>3. /\ job[k].object \in stored
              /\ \A v \in Version : file[v] # job[k].object
              /\ \A i \in Jobs \ {k} : job[i].phase = "stored" => job[i].object # job[k].object
            BY <3>1 DEF SInv, UploadsAreFresh
        <3>4. job[k].object \in stored'
            BY <1>3, <3>1, <3>3
        <3> QED BY <2>1, <3>1, <3>2, <3>3, <3>4
    <2>6. PurgesAreRetired'
        <3>1. ASSUME NEW k \in Jobs
              PROVE  /\ job'[k].todo \cup job'[k].doomed \subseteq Retired
                     /\ job'[k].phase \in {"orders", "mark"} => job'[k].version \in Retired
                     /\ job'[k].phase = "mark" => file[job'[k].version] \notin stored'
            BY <1>2, <1>3, IdleType DEF Same, SInv, PurgesAreRetired
        <3> QED BY <2>1, <3>1 DEF PurgesAreRetired
    <2>7. Gone'
        BY <1>3, <2>1 DEF SInv, Gone
    <2>8. There'
        BY <1>1, <1>3, <2>1, <2>2, RetiredType DEF SInv, There
    <2> QED BY <2>3, <2>4, <2>5, <2>6, <2>7, <2>8 DEF SInv
<1> QED BY <1>4, <1>5 DEF FailUpload

-----------------------------------------------------------------------------
\* Release and deletion change the state of versions, and keep their files.

LEMMA StateStep ==
    ASSUME SInv, TypeOK', NEW j \in Jobs, Same(j),
           job'[j].phase = "look", job'[j].todo = {}, job'[j].doomed = {},
           made' = made, file' = file, purged' = purged, stored' = stored, lapses' = lapses,
           Retired \subseteq Retired', States'
    PROVE  SInv'
<1>1. Rows' /\ Gone'
    BY DEF SInv, Rows, Gone
<1>2. There'
    BY DEF SInv, There
<1>3. \A k \in Jobs : \/ job'[k] = job[k]
                      \/ job'[k].phase = "look" /\ job'[k].todo = {} /\ job'[k].doomed = {}
    BY DEF Same
<1>4. UploadsAreFresh'
    BY <1>3 DEF SInv, UploadsAreFresh
<1>5. PurgesAreRetired'
    BY <1>3 DEF SInv, PurgesAreRetired
<1> QED BY <1>1, <1>2, <1>4, <1>5 DEF SInv

LEMMA LookFresh ==
    ASSUME TypeOK, NEW j \in Jobs, job' = [job EXCEPT ![j] = [Idle EXCEPT !.phase = "look"]]
    PROVE  /\ Same(j) /\ job' \in [Jobs -> JobType]
           /\ job'[j].phase = "look" /\ job'[j].todo = {} /\ job'[j].doomed = {}
<1> DEFINE new == [Idle EXCEPT !.phase = "look"]
<1>1. new \in JobType /\ new.phase = "look" /\ new.todo = {} /\ new.doomed = {}
    BY Numbers DEF Idle, JobType, Phase
<1>2. job' = [job EXCEPT ![j] = new]
    OBVIOUS
<1> HIDE DEF new
<1> QED BY <1>1, <1>2, AfterStart

LEMMA ActivateStep ==
    ASSUME SInv, NEW j \in Jobs, NEW v \in Version, Activate(j, v) PROVE SInv'
<1>1. TypeOK
    BY DEF SInv
<1>2. /\ v \in 1..made /\ v # current /\ v \notin Retired /\ v # 0
      /\ current' = v /\ activated' = activated \cup {v}
      /\ superseded' = IF current = 0 THEN superseded ELSE superseded \cup {current}
      /\ UNCHANGED <<published, made, file, deleted, purged, stored, sales, lapses>>
    BY DEF Activate, MayActivate, Version
<1>3. /\ Same(j) /\ job' \in [Jobs -> JobType]
      /\ job'[j].phase = "look" /\ job'[j].todo = {} /\ job'[j].doomed = {}
    BY <1>1, LookFresh DEF Activate
<1>4. current # 0 => current \in 1..made
    BY <1>1, RetiredType DEF TypeOK
<1>5. TypeOK'
    <2>1. current' \in 0..made' /\ UNION {activated', superseded', deleted', purged'} \subseteq 1..made'
        BY <1>1, <1>2, <1>4 DEF TypeOK
    <2> QED BY <1>1, <1>2, <1>3, <2>1 DEF TypeOK, sales
<1>6. /\ Retired \subseteq Retired'
      /\ Retired' \subseteq Retired \cup (IF current = 0 THEN {} ELSE {current})
    BY <1>2 DEF Retired
<1>7. States'
    <2>1. Pending' \subseteq Pending
        <3> SUFFICES ASSUME NEW w \in Pending' PROVE w \in Pending
            OBVIOUS
        <3>1. w \in 1..made /\ w \notin activated \cup deleted /\ w \notin activated' /\ w # current'
            BY <1>2 DEF Pending
        <3>2. w # current
            BY <3>1, RetiredType, <1>1 DEF SInv, States
        <3> QED BY <3>1, <3>2 DEF Pending
    <2>2. current' \in activated' \ Retired'
        BY <1>2, <1>6
    <2> QED BY <1>2, <1>6, <2>1, <2>2 DEF SInv, States
<1> QED BY <1>2, <1>3, <1>5, <1>6, <1>7, StateStep

LEMMA DeleteStep ==
    ASSUME SInv, NEW j \in Jobs, NEW v \in Version, Delete(j, v) PROVE SInv'
<1>1. TypeOK
    BY DEF SInv
<1>2. /\ v \in 1..made /\ deleted' = deleted \cup {v}
      /\ published' = (published /\ v # current)
      /\ current' = IF v = current THEN 0 ELSE current
      /\ UNCHANGED <<made, file, activated, superseded, purged, stored, sales, lapses>>
    BY DEF Delete, PublishedAfter
<1>3. /\ Same(j) /\ job' \in [Jobs -> JobType]
      /\ job'[j].phase = "look" /\ job'[j].todo = {} /\ job'[j].doomed = {}
    BY <1>1, LookFresh DEF Delete
<1>4. TypeOK'
    <2>1. published' \in BOOLEAN
        BY <1>2
    <2>2. current' \in 0..made' /\ UNION {activated', superseded', deleted', purged'} \subseteq 1..made'
        BY <1>1, <1>2, RetiredType DEF TypeOK
    <2> QED BY <1>1, <1>2, <1>3, <2>1, <2>2 DEF TypeOK, sales
<1>5. Retired' = Retired \cup {v}
    BY <1>2 DEF Retired
<1>6. States'
    <2>1. Pending' \subseteq Pending
        BY <1>2 DEF Pending
    <2>2. published => current # 0
        BY DEF SInv, States
    <2>3. published' => current' # 0
        BY <1>2, <2>2
    <2>4. current' # 0 => current' \in activated' \ Retired'
        BY <1>2, <1>5 DEF SInv, States
    <2> QED BY <1>2, <1>5, <2>1, <2>3, <2>4 DEF SInv, States
<1> QED BY <1>2, <1>3, <1>4, <1>5, <1>6, StateStep

LEMMA PublishStep == ASSUME SInv, Publish \/ Unpublish PROVE SInv'
<1>1. TypeOK
    BY DEF SInv
<1>2. /\ published' \in BOOLEAN /\ (published' => current # 0)
      /\ UNCHANGED <<current, made, file, activated, superseded, deleted, purged, stored,
                     order, line, grant, job, lapses>>
    BY DEF Publish, Unpublish, sales
<1>3. Retired' = Retired /\ Pending' = Pending
    BY <1>2 DEF Retired, Pending
<1>4. TypeOK'
    BY <1>1, <1>2 DEF TypeOK
<1>5. States'
    BY <1>2, <1>3 DEF SInv, States
<1>6. Rows' /\ Gone' /\ There'
    BY <1>2, <1>3 DEF SInv, Rows, Gone, There
<1>7. UploadsAreFresh' /\ PurgesAreRetired'
    BY <1>2, <1>3 DEF SInv, UploadsAreFresh, PurgesAreRetired
<1> QED BY <1>4, <1>5, <1>6, <1>7 DEF SInv

-----------------------------------------------------------------------------
\* Orders.

LEMMA BuyerStep == ASSUME SInv, NEW o \in Orders, BuyerNext(o) PROVE SInv'
<1>1. TypeOK
    BY DEF SInv
<1>2. /\ UNCHANGED <<shelf, purged, stored, job>>
      /\ lapses \subseteq lapses' /\ lapses' \subseteq Lapse
    BY <1>1 DEF BuyerNext, ReadShelf, AddLine, DropOrder, Complete, Cancel, Expire, LapseIf,
                TypeOK, Lapse
<1>3. current \in 0..MaxVersion /\ 0 \in 0..MaxVersion
    BY <1>1, VersionAssumption DEF TypeOK
<1>4. /\ order' \in [Orders -> {"none", "reading", "waiting", "completed", "cancelled"}]
      /\ line' \in [Orders -> 0..MaxVersion]
      /\ grant' \in [Orders -> {"none", "live", "expired"}]
    BY <1>1, <1>3 DEF BuyerNext, ReadShelf, AddLine, DropOrder, Complete, Cancel, Expire, TypeOK
<1>5. TypeOK'
    BY <1>1, <1>2, <1>4 DEF TypeOK, shelf
<1> QED BY <1>2, <1>5, SalesStep DEF SInv

-----------------------------------------------------------------------------
LEMMA SInvInit == Init => SInv
<1> SUFFICES ASSUME Init PROVE SInv
    OBVIOUS
<1>1. TypeOK
    <2>1. current \in 0..made /\ made \in 0..MaxVersion /\ 0 \in 0..MaxVersion
        BY VersionAssumption DEF Init
    <2>2. UNION {activated, superseded, deleted, purged} \subseteq 1..made
        BY DEF Init
    <2>3. job \in [Jobs -> JobType]
        BY IdleType DEF Init
    <2> QED BY <2>1, <2>2, <2>3 DEF Init, TypeOK
<1>2. made = 0 /\ Retired = {} /\ Pending = {} /\ purged = {} /\ 1..made = {}
    BY DEF Init, Retired, Pending
<1>3. Rows
    BY DEF Init, Rows, Version
<1>4. UploadsAreFresh /\ PurgesAreRetired
    BY IdleType DEF Init, UploadsAreFresh, PurgesAreRetired
<1>5. States
    BY <1>2 DEF Init, States
<1>6. Gone /\ There
    BY <1>2 DEF Gone, There
<1> QED BY <1>1, <1>3, <1>4, <1>5, <1>6 DEF SInv

LEMMA SInvStutter == ASSUME SInv, UNCHANGED vars PROVE SInv'
<1>1. /\ UNCHANGED <<shelf, purged, stored, job>> /\ UNCHANGED sales /\ lapses' = lapses
    BY DEF vars
<1>2. TypeOK'
    BY <1>1 DEF SInv, TypeOK, shelf, sales
<1> QED BY <1>1, <1>2, SalesStep DEF SInv

LEMMA SInvNext == SInv /\ [Next]_vars => SInv'
<1> SUFFICES ASSUME SInv, [Next]_vars PROVE SInv'
    OBVIOUS
<1>1. ASSUME NEW j \in Jobs, OwnerNext(j) PROVE SInv'
    <2>1. ASSUME NEW u \in Uploads, PutObject(j, u) PROVE SInv'
        BY <2>1, PutStep
    <2>2. ASSUME NEW v \in Version,
                 Activate(j, v) \/ Delete(j, v) \/ LookForGrants(j, v) \/ Remove(j, v)
                   \/ FailRemove(j, v)
          PROVE  SInv'
        BY <2>2, ActivateStep, DeleteStep, LookForGrantsStep, RemoveStep, FailRemoveStep
    <2>3. CASE RecordVersion(j) \/ FailUpload(j)
        BY <2>3, RecordStep, FailUploadStep
    <2>4. CASE Look(j) \/ LookForOrders(j) \/ Mark(j) \/ Stop(j)
        BY <2>4, LookStep, LookForOrdersStep, MarkStep, StopStep
    <2> QED BY <1>1, <2>1, <2>2, <2>3, <2>4 DEF OwnerNext
<1>2. CASE Publish \/ Unpublish
    BY <1>2, PublishStep
<1>3. ASSUME NEW o \in Orders, BuyerNext(o) PROVE SInv'
    BY <1>3, BuyerStep
<1>4. CASE UNCHANGED vars
    BY <1>4, SInvStutter
<1> QED BY <1>1, <1>2, <1>3, <1>4 DEF Next

-----------------------------------------------------------------------------
\* What holds of orders.

\* An order placed or read names a version, and only a completed one grants.
Orderly ==
    \A o \in Orders :
        /\ order[o] # "none" => line[o] \in 1..made
        /\ grant[o] # "none" => order[o] = "completed"

LEMMA OrderlyNext == ASSUME SInv, SInv', Orderly, [Next]_vars PROVE Orderly'
<1>1. TypeOK /\ made \in Nat /\ made' \in Nat /\ 1..made \subseteq 1..made'
    <2>1. made \in Nat /\ made' \in Nat
        BY DEF SInv, TypeOK
    <2>2. made' = made \/ made' = made + 1
        BY DEF Next, OwnerNext, BuyerNext, vars, shelf, PutObject, RecordVersion, FailUpload,
               Recorded, NextNumber, Activate, Delete, Publish, Unpublish, Look, LookForGrants,
               LookForOrders, Remove, FailRemove, Mark, Stop, ReadShelf, AddLine, DropOrder,
               Complete, Cancel, Expire
    <2> QED BY <2>1, <2>2 DEF SInv
<1>2. CASE UNCHANGED sales
    BY <1>1, <1>2 DEF sales, Orderly
<1>3. ASSUME NEW o \in Orders, BuyerNext(o) PROVE Orderly'
    <2>1. made' = made /\ \A p \in Orders \ {o} :
              order'[p] = order[p] /\ line'[p] = line[p] /\ grant'[p] = grant[p]
        BY <1>1, <1>3 DEF BuyerNext, ReadShelf, AddLine, DropOrder, Complete, Cancel, Expire,
                     shelf, TypeOK
    <2>2. /\ order'[o] # "none" => line'[o] \in 1..made
          /\ grant'[o] # "none" => order'[o] = "completed"
        <3>1. ReadShelf(o) => order'[o] = "reading" /\ line'[o] = current /\ grant'[o] = grant[o]
                              /\ current \in 1..made /\ order[o] = "none"
            BY <1>1 DEF ReadShelf, TypeOK
        <3>2. AddLine(o) \/ Cancel(o) =>
                  order[o] \in {"reading", "waiting"} /\ order'[o] # "none"
                  /\ line'[o] = line[o] /\ grant'[o] = grant[o]
            BY <1>1 DEF AddLine, Cancel, TypeOK, Reading
        <3>3. DropOrder(o) => order[o] = "reading" /\ order'[o] = "none" /\ grant'[o] = grant[o]
            BY <1>1 DEF DropOrder, TypeOK, Reading
        <3>4. Complete(o) => order[o] = "waiting" /\ order'[o] = "completed" /\ line'[o] = line[o]
            BY <1>1 DEF Complete, TypeOK
        <3>5. Expire(o) => order'[o] = order[o] /\ line'[o] = line[o] /\ grant[o] = "live"
            BY <1>1 DEF Expire, TypeOK
        <3> QED BY <1>3, <3>1, <3>2, <3>3, <3>4, <3>5 DEF BuyerNext, Orderly
    <2> QED BY <2>1, <2>2 DEF Orderly
<1>4. Next /\ (\A o \in Orders : ~ BuyerNext(o)) => UNCHANGED sales
    BY DEF Next, OwnerNext, PutObject, RecordVersion, FailUpload, Activate, Delete, Publish,
           Unpublish, Look, LookForGrants, LookForOrders, Remove, FailRemove, Mark, Stop
<1>5. UNCHANGED vars => UNCHANGED sales
    BY DEF vars
<1> QED BY <1>2, <1>3, <1>4, <1>5

LEMMA BoughtNext == ASSUME SInv, BoughtOncePerVersion, [Next]_vars PROVE BoughtOncePerVersion'
<1>1. TypeOK
    BY DEF SInv
<1>2. CASE UNCHANGED sales
    BY <1>2 DEF sales, BoughtOncePerVersion, Placed
<1>3. ASSUME NEW o \in Orders, BuyerNext(o) PROVE BoughtOncePerVersion'
    <2>1. \A p \in Orders \ {o} : order'[p] = order[p] /\ line'[p] = line[p]
        BY <1>1, <1>3 DEF BuyerNext, ReadShelf, AddLine, DropOrder, Complete, Cancel, Expire, TypeOK
    <2>2. CASE AddLine(o)
        <3>1. line' = line /\ \A p \in Rivals(o) : line[p] # line[o]
            BY <2>2 DEF AddLine, LineAllowed
        <3>2. \A p \in Orders \ {o} :
                  Buyer[p] = Buyer[o] /\ Placed(p) => line[p] # line[o]
            BY <3>1 DEF Rivals
        <3> QED BY <2>1, <3>1, <3>2 DEF BoughtOncePerVersion, Placed
    <2>3. CASE ~ AddLine(o)
        <3>1. Placed(o)' => Placed(o) /\ line'[o] = line[o]
            BY <1>1, <1>3, <2>3 DEF BuyerNext, ReadShelf, DropOrder, Complete, Cancel, Expire,
                                TypeOK, Placed, Reading
        <3> QED BY <2>1, <3>1 DEF BoughtOncePerVersion, Placed
    <2> QED BY <2>2, <2>3
<1>4. Next /\ (\A o \in Orders : ~ BuyerNext(o)) => UNCHANGED sales
    BY DEF Next, OwnerNext, PutObject, RecordVersion, FailUpload, Activate, Delete, Publish,
           Unpublish, Look, LookForGrants, LookForOrders, Remove, FailRemove, Mark, Stop
<1>5. UNCHANGED vars => UNCHANGED sales
    BY DEF vars
<1> QED BY <1>2, <1>3, <1>4, <1>5

-----------------------------------------------------------------------------
\* Claims, while nothing has lapsed.

\* Only a purge past its first query has found anything unclaimed.
Found == \A j \in Jobs : job[j].doomed # {} => Purging(j)

\* No order is being placed beside a purge; what the purge found unclaimed is.
Apart ==
    /\ \A o \in Orders : Reading(o) => \A j \in Jobs : ~ Purging(j)
    /\ \A j \in Jobs, o \in Orders :
          /\ line[o] \in job[j].doomed => order[o] # "waiting" /\ grant[o] # "live"
          /\ job[j].phase = "orders" /\ line[o] = job[j].version => grant[o] # "live"

\* Who reads, waits or holds has the files of the version.
Keeping ==
    \A o \in Orders : Reading(o) \/ order[o] = "waiting" \/ grant[o] = "live" =>
        file[line[o]] \in stored

KInv == Orderly /\ Found /\ (lapses = {} => Apart /\ Keeping)

\* What a step of an owner's request does to its slot.
LEMMA OwnerSlot ==
    ASSUME SInv, NEW j \in Jobs, OwnerNext(j)
    PROVE  /\ Same(j)
           /\ UNCHANGED sales /\ lapses \subseteq lapses'
           /\ \/ job'[j].doomed = {} /\ ~ Purging(j)'
              \/ Look(j) /\ job'[j].doomed = job[j].doomed /\ job'[j].phase = "grants"
              \/ \E v \in Version : LookForGrants(j, v) /\ job'[j].doomed = job[j].doomed
                    /\ Purging(j)' /\ Purging(j)
                    /\ (job'[j].phase = "orders" => job'[j].version = v /\ ~ Held(v))
              \/ /\ LookForOrders(j) /\ Purging(j) /\ job'[j].phase = "grants"
                 /\ job'[j].doomed = IF Awaited(job[j].version) THEN job[j].doomed
                                     ELSE job[j].doomed \cup {job[j].version}
              \/ /\ Purging(j) /\ Purging(j)' /\ job'[j].phase # "orders"
                 /\ job'[j].doomed \subseteq job[j].doomed
<1>1. TypeOK
    BY DEF SInv
<1>2. ASSUME NEW u \in Uploads, PutObject(j, u)
      PROVE  /\ Same(j) /\ UNCHANGED sales /\ lapses' = lapses
             /\ job'[j].doomed = {} /\ ~ Purging(j)'
    <2> DEFINE new == [Idle EXCEPT !.phase = "stored", !.object = u]
    <2>1. new \in JobType /\ new.phase = "stored" /\ new.doomed = {}
        BY Numbers DEF Idle, JobType, Phase
    <2>2. job' = [job EXCEPT ![j] = new] /\ UNCHANGED sales /\ lapses' = lapses
        BY <1>2 DEF PutObject
    <2> HIDE DEF new
    <2>3. Same(j) /\ job'[j] = new
        BY <1>1, <2>1, <2>2, AfterStart
    <2> QED BY <2>1, <2>2, <2>3 DEF Purging
<1>3. ASSUME RecordVersion(j) \/ (\E v \in Version : Activate(j, v) \/ Delete(j, v))
      PROVE  /\ Same(j) /\ UNCHANGED sales /\ lapses' = lapses
             /\ job'[j].doomed = {} /\ ~ Purging(j)'
    <2>1. /\ job' = [job EXCEPT ![j] = [Idle EXCEPT !.phase = "look"]]
          /\ UNCHANGED sales /\ lapses' = lapses
        BY <1>3 DEF RecordVersion, Activate, Delete
    <2>2. /\ Same(j) /\ job'[j].phase = "look" /\ job'[j].doomed = {}
        BY <1>1, <2>1, LookFresh
    <2> QED BY <2>1, <2>2 DEF Purging
<1>4. ASSUME FailUpload(j) \/ Stop(j)
      PROVE  /\ Same(j) /\ UNCHANGED sales /\ lapses \subseteq lapses'
             /\ job'[j].doomed = {} /\ ~ Purging(j)'
    <2>1. /\ job' = [job EXCEPT ![j] = Idle] /\ UNCHANGED sales /\ lapses \subseteq lapses'
        BY <1>4 DEF FailUpload, Stop
    <2>2. Same(j) /\ job'[j] = Idle
        BY <1>1, <2>1, AfterStart, IdleType
    <2> QED BY <2>1, <2>2, IdleType DEF Purging
<1>5. CASE Look(j)
    BY <1>1, <1>5, AfterLook DEF Look, LapseIf
<1>6. ASSUME NEW v \in Version, LookForGrants(j, v)
      PROVE  /\ Same(j) /\ UNCHANGED sales /\ lapses' = lapses
             /\ job'[j].doomed = job[j].doomed /\ Purging(j)' /\ Purging(j)
             /\ (job'[j].phase = "orders" => job'[j].version = v /\ ~ Held(v))
    BY <1>1, <1>6, AfterLookForGrants DEF LookForGrants, Purging
<1>7. ASSUME LookForOrders(j)
      PROVE  /\ Same(j) /\ UNCHANGED sales /\ lapses' = lapses
             /\ Purging(j) /\ job'[j].phase = "grants"
             /\ job'[j].doomed = IF Awaited(job[j].version) THEN job[j].doomed
                                 ELSE job[j].doomed \cup {job[j].version}
    <2>1. job[j].version \in Version
        BY <1>1, <1>7, RetiredType DEF LookForOrders, SInv, PurgesAreRetired
    <2> QED BY <1>1, <1>7, <2>1, AfterLookForOrders DEF LookForOrders, Purging
<1>8. ASSUME Mark(j) \/ \E v \in Version : Remove(j, v) \/ FailRemove(j, v)
      PROVE  /\ Same(j) /\ UNCHANGED sales /\ lapses' = lapses
             /\ Purging(j) /\ Purging(j)' /\ job'[j].phase # "orders"
             /\ job'[j].doomed \subseteq job[j].doomed
    <2>1. CASE Mark(j)
        BY <1>1, <2>1, AfterMark DEF Mark, Purging
    <2>2. ASSUME NEW v \in Version, Remove(j, v) PROVE <1>8!2
        BY <1>1, <2>2, AfterRemove DEF Remove, Doomed, Purging
    <2>3. ASSUME NEW v \in Version, FailRemove(j, v) PROVE <1>8!2
        BY <1>1, <2>3, AfterFailRemove DEF FailRemove, Doomed, Purging
    <2> QED BY <1>8, <2>1, <2>2, <2>3
<1> QED BY <1>2, <1>3, <1>4, <1>5, <1>6, <1>7, <1>8 DEF OwnerNext

LEMMA FoundNext == ASSUME SInv, Found, [Next]_vars PROVE Found'
<1>1. ASSUME NEW j \in Jobs, OwnerNext(j) PROVE Found'
    <2>1. job'[j].doomed # {} => Purging(j)'
        BY <1>1, OwnerSlot DEF Purging
    <2>2. Same(j)
        BY <1>1, OwnerSlot
    <2> QED BY <2>1, <2>2 DEF Same, Found, Purging
<1>2. CASE Publish \/ Unpublish \/ \E o \in Orders : BuyerNext(o)
    <2>1. job' = job
        BY <1>2 DEF Publish, Unpublish, BuyerNext, ReadShelf, AddLine, DropOrder, Complete,
                    Cancel, Expire
    <2> QED BY <2>1 DEF Found, Purging
<1>3. CASE UNCHANGED vars
    BY <1>3 DEF vars, Found, Purging
<1> QED BY <1>1, <1>2, <1>3 DEF Next

\* No file a claim needs is removed by an owner's request.
LEMMA OwnerKeeps ==
    ASSUME SInv, Orderly, Apart, Keeping, NEW j \in Jobs, OwnerNext(j), lapses' = {}
    PROVE  Keeping'
<1> SUFFICES ASSUME NEW o \in Orders, (Reading(o) \/ order[o] = "waiting" \/ grant[o] = "live")'
             PROVE  file'[line[o]] \in stored'
    BY OwnerSlot DEF Keeping, sales
<1>1. TypeOK /\ UNCHANGED sales
    BY OwnerSlot DEF SInv
<1>2. /\ Reading(o) \/ order[o] = "waiting" \/ grant[o] = "live"
      /\ file[line[o]] \in stored
    BY <1>1 DEF sales, Reading, Keeping
<1>3. line[o] \in 1..made /\ line[o] \in Version
    BY <1>1, <1>2, RetiredType DEF Orderly, Reading
<1>4. CASE file' = file /\ stored \subseteq stored'
    BY <1>2, <1>4
<1>5. CASE RecordVersion(j)
    <2>1. file' = [file EXCEPT ![made + 1] = job[j].object] /\ stored' = stored
        BY <1>5 DEF RecordVersion, Recorded, NextNumber
    <2>2. line[o] # made + 1
        BY <1>1, <1>3, RetiredType
    <2> QED BY <1>1, <1>2, <1>3, <2>1, <2>2 DEF TypeOK
<1>6. CASE FailUpload(j)
    <2>1. file' = file /\ stored \ {job[j].object} \subseteq stored'
        BY <1>6 DEF FailUpload, shelf
    <2>2. file[line[o]] # job[j].object
        BY <1>3, <1>6 DEF FailUpload, SInv, UploadsAreFresh
    <2> QED BY <1>2, <2>1, <2>2
<1>7. ASSUME NEW v \in Version, Remove(j, v) \/ FailRemove(j, v)
      PROVE  file'[line[o]] \in stored'
    <2>1. /\ file' = file /\ stored \ {file[v]} \subseteq stored'
          /\ v \in job[j].doomed /\ Purging(j)
        BY <1>7 DEF Remove, FailRemove, Doomed, shelf, Purging
    <2>2. line[o] # v
        BY <1>2, <2>1 DEF Apart
    <2>3. file[line[o]] # file[v]
        <3>1. file[line[o]] # None
            BY <1>1, <1>2, NoneAssumption DEF TypeOK
        <3> QED BY <1>3, <2>2, <3>1 DEF SInv, Rows
    <2> QED BY <1>2, <2>1, <2>3
<1>8. ~ RecordVersion(j) /\ ~ FailUpload(j)
        /\ (\A v \in Version : ~ Remove(j, v) /\ ~ FailRemove(j, v))
            => file' = file /\ stored \subseteq stored'
    BY DEF OwnerNext, PutObject, Activate, Delete, Look, LookForGrants, LookForOrders, Mark, Stop,
           shelf
<1> QED BY <1>4, <1>5, <1>6, <1>7, <1>8

LEMMA OwnerApart ==
    ASSUME SInv, Found, Apart, NEW j \in Jobs, OwnerNext(j), lapses' = {}
    PROVE  Apart'
<1>1. UNCHANGED sales /\ Same(j)
    BY OwnerSlot
<1>2. order' = order /\ line' = line /\ grant' = grant
    BY <1>1 DEF sales
<1>3. ASSUME NEW o \in Orders, Reading(o), NEW k \in Jobs PROVE ~ Purging(k)'
    <2>1. CASE k # j
        BY <1>1, <1>3, <2>1 DEF Same, Apart, Purging
    <2>2. CASE k = j
        <3>1. ~ Look(j)
            BY <1>3 DEF Look, LapseIf
        <3>2. ~ Purging(j)
            BY <1>3 DEF Apart
        <3> QED BY <2>2, <3>1, <3>2, OwnerSlot
    <2> QED BY <2>1, <2>2
<1>4. ASSUME NEW k \in Jobs, NEW o \in Orders
      PROVE  /\ line[o] \in job'[k].doomed => order[o] # "waiting" /\ grant[o] # "live"
             /\ job'[k].phase = "orders" /\ line[o] = job'[k].version => grant[o] # "live"
    <2>1. CASE k # j
        BY <1>1, <2>1 DEF Same, Apart
    <2>2. CASE k = j
        <3>1. CASE job'[j].doomed \subseteq job[j].doomed /\ job'[j].phase # "orders"
            BY <2>2, <3>1 DEF Apart
        <3>2. CASE \E v \in Version : job'[j].doomed = job[j].doomed
                     /\ (job'[j].phase = "orders" => job'[j].version = v /\ ~ Held(v))
            BY <2>2, <3>2 DEF Apart, Held
        <3>3. CASE /\ LookForOrders(j) /\ job'[j].phase = "grants"
                   /\ job'[j].doomed = IF Awaited(job[j].version) THEN job[j].doomed
                                       ELSE job[j].doomed \cup {job[j].version}
            BY <2>2, <3>3 DEF Apart, Awaited, LookForOrders
        <3>4. CASE job'[j].doomed = {} /\ ~ Purging(j)'
            BY <2>2, <3>4 DEF Purging
        <3> QED BY <3>1, <3>2, <3>3, <3>4, OwnerSlot
    <2> QED BY <2>1, <2>2
<1> QED BY <1>2, <1>3, <1>4 DEF Apart, Reading

LEMMA BuyerKeeps ==
    ASSUME SInv, Orderly, Found, lapses = {} => Apart /\ Keeping,
           NEW o \in Orders, BuyerNext(o), lapses' = {}
    PROVE  Apart' /\ Keeping'
<1>1. TypeOK /\ Apart /\ Keeping /\ lapses = {}
    BY DEF SInv, BuyerNext, ReadShelf, AddLine, DropOrder, Complete, Cancel, Expire, LapseIf
<1>2. /\ job' = job /\ file' = file /\ stored' = stored
      /\ \A p \in Orders \ {o} : order'[p] = order[p] /\ line'[p] = line[p] /\ grant'[p] = grant[p]
    BY <1>1 DEF BuyerNext, ReadShelf, AddLine, DropOrder, Complete, Cancel, Expire, TypeOK, shelf
<1>3. CASE ReadShelf(o) \/ AddLine(o) \/ Complete(o)
    <2>1. \A j \in Jobs : ~ Purging(j)
        BY <1>1, <1>3 DEF ReadShelf, AddLine, Complete, LapseIf, Apart, Reading
    <2>2. \A j \in Jobs : job[j].doomed = {} /\ job[j].phase # "orders"
        BY <2>1 DEF Found, Purging
    <2>3. Apart'
        BY <1>2, <2>1, <2>2 DEF Apart, Purging, Reading
    <2>4. file[line'[o]] \in stored
        <3>1. CASE ReadShelf(o)
            <4>1. line'[o] = current /\ current # 0
                BY <1>1, <3>1 DEF ReadShelf, TypeOK
            <4>2. current \in (1..made) \ Retired
                BY <1>1, <4>1, RetiredType DEF TypeOK, SInv, States
            <4> QED BY <1>1, <4>1, <4>2 DEF SInv, There
        <3>2. CASE AddLine(o) \/ Complete(o)
            <4>1. line'[o] = line[o] /\ (Reading(o) \/ order[o] = "waiting")
                BY <1>1, <3>2 DEF AddLine, Complete, TypeOK
            <4> QED BY <1>1, <4>1 DEF Keeping
        <3> QED BY <1>3, <3>1, <3>2
    <2>5. Keeping'
        BY <1>1, <1>2, <2>4 DEF Keeping, Reading
    <2> QED BY <2>3, <2>5
<1>4. CASE DropOrder(o) \/ Cancel(o) \/ Expire(o)
    <2>1. /\ (Reading(o)' => Reading(o)) /\ (order'[o] = "waiting" => order[o] = "waiting")
          /\ (grant'[o] = "live" => grant[o] = "live")
          /\ order'[o] # "none" => line'[o] = line[o]
          /\ order'[o] = "none" => grant[o] = "none"
        BY <1>1, <1>4 DEF DropOrder, Cancel, Expire, TypeOK, Reading, Orderly
    <2>2. grant'[o] = "live" => order'[o] # "none"
        BY <2>1
    <2>3. Reading(o)' => order'[o] # "none"
        BY DEF Reading
    <2>4. Apart'
        BY <1>1, <1>2, <2>1, <2>2, <2>3 DEF Apart, Purging, Reading
    <2>5. Keeping'
        BY <1>1, <1>2, <2>1, <2>2, <2>3 DEF Keeping, Reading
    <2> QED BY <2>4, <2>5
<1> QED BY <1>3, <1>4 DEF BuyerNext

LEMMA KInvNext == ASSUME SInv, SInv', KInv, [Next]_vars PROVE KInv'
<1>1. Orderly' /\ Found'
    BY OrderlyNext, FoundNext DEF KInv
<1>2. ASSUME NEW j \in Jobs, OwnerNext(j), lapses' = {} PROVE Apart' /\ Keeping'
    <2>1. lapses = {}
        BY <1>2, OwnerSlot
    <2> QED BY <1>2, <2>1, OwnerKeeps, OwnerApart DEF KInv
<1>3. ASSUME NEW o \in Orders, BuyerNext(o), lapses' = {} PROVE Apart' /\ Keeping'
    BY <1>3, BuyerKeeps DEF KInv
<1>4. CASE Publish \/ Unpublish \/ UNCHANGED vars
    <2>1. /\ job' = job /\ file' = file /\ stored' = stored /\ lapses' = lapses
          /\ order' = order /\ line' = line /\ grant' = grant
        BY <1>4 DEF Publish, Unpublish, vars, shelf, sales
    <2> QED BY <1>1, <2>1 DEF KInv, Apart, Keeping, Purging, Reading
<1> QED BY <1>1, <1>2, <1>3, <1>4 DEF Next, KInv

-----------------------------------------------------------------------------
\* The theorems.

LEMMA KInvInit == Init => KInv /\ BoughtOncePerVersion
<1> SUFFICES ASSUME Init PROVE KInv /\ BoughtOncePerVersion
    OBVIOUS
<1>1. \A j \in Jobs : job[j] = Idle
    BY DEF Init
<1>2. \A j \in Jobs : job[j].doomed = {} /\ job[j].phase = "idle" /\ ~ Purging(j)
    BY <1>1, IdleType DEF Purging
<1>3. \A o \in Orders : order[o] = "none" /\ line[o] = 0 /\ grant[o] = "none"
    BY DEF Init
<1> QED BY <1>2, <1>3 DEF KInv, Orderly, Found, Apart, Keeping, Reading, BoughtOncePerVersion, Placed

\* The invariant of the rows, the files and the requests of the owner.
THEOREM Invariance == Spec => []SInv
<1> QED BY SInvInit, SInvNext, PTL DEF Spec

\* The invariant of the claims rests on it.
THEOREM ClaimInvariance == Spec => []KInv
<1>1. Init => KInv
    BY KInvInit
<1>2. SInv /\ SInv' /\ KInv /\ [Next]_vars => KInv'
    BY KInvNext
<1> QED BY <1>1, <1>2, Invariance, PTL DEF Spec

\* Every variable of the shelf keeps its type, for any uploads, orders, requests
\* of the owner in flight and any bound on versions.
THEOREM TypeCorrect == Spec => []TypeOK
<1>1. SInv => TypeOK
    BY DEF SInv
<1> QED BY <1>1, Invariance, PTL

\* versions.ts marks a version purged only once its files are gone.
THEOREM PurgedCorrect == Spec => []PurgedIsGone
<1>1. SInv => PurgedIsGone
    BY DEF SInv, States, Gone, PurgedIsGone
<1> QED BY <1>1, Invariance, PTL

\* Uploads, releases, deletions and purges, in any order and failing anywhere,
\* leave nothing on sale without its files.
THEOREM OnSaleCorrect == Spec => []OnSaleIsWhole
<1>1. SInv => OnSaleIsWhole
    <2> SUFFICES ASSUME SInv PROVE OnSaleIsWhole
        OBVIOUS
    <2>1. published => current # 0
        BY DEF SInv, States
    <2>2. ASSUME current # 0 PROVE current \in activated \ (Retired \cup purged)
        BY <2>2 DEF SInv, States
    <2>3. ASSUME current # 0, "ack" \notin lapses PROVE file[current] \in stored
        <3>1. current \in (1..made) \ Retired
            BY <2>3, RetiredType DEF SInv, States, TypeOK
        <3> QED BY <2>3, <3>1 DEF SInv, There
    <2> QED BY <2>1, <2>2, <2>3 DEF OnSaleIsWhole
<1> QED BY <1>1, Invariance, PTL

\* A new upload replaces the version that waits: two never wait together.
THEOREM OnePendingCorrect == Spec => []OnePendingVersion
<1>1. SInv => OnePendingVersion
    <2> SUFFICES ASSUME SInv PROVE OnePendingVersion
        OBVIOUS
    <2>1. CASE Pending = {}
        BY <2>1, FS_EmptySet DEF OnePendingVersion
    <2>2. ASSUME NEW v \in Pending PROVE OnePendingVersion
        <3>1. Pending = {v}
            BY <2>2 DEF SInv, States, Pending
        <3>2. Cardinality(Pending) = 1
            BY <3>1, FS_Singleton
        <3> QED BY <3>2 DEF OnePendingVersion
    <2> QED BY <2>1, <2>2
<1> QED BY <1>1, Invariance, PTL

\* The trigger on the lines lets no buyer have two claims on one version,
\* however many orders read the shelf together.
THEOREM BoughtCorrect == Spec => []BoughtOncePerVersion
<1>1. Init => BoughtOncePerVersion
    BY KInvInit
<1>2. SInv /\ BoughtOncePerVersion /\ [Next]_vars => BoughtOncePerVersion'
    BY BoughtNext
<1> QED BY <1>1, <1>2, Invariance, PTL DEF Spec

\* The files of a claimed version are never removed, as long as no order is
\* placed or completed while a purge runs.
THEOREM ClaimsCorrect == Spec => []ClaimsAreKept
<1>1. KInv => ClaimsAreKept
    BY DEF KInv, Keeping, ClaimsAreKept, Kept
<1> QED BY <1>1, ClaimInvariance, PTL

\* No step rewrites what happened to a version or what a line sold.
THEOREM HistoryCorrect == Spec => HistoryIsKept
<1>1. ASSUME SInv, SInv', [Next]_vars
      PROVE  [/\ \A v \in Version : file[v] # None => file'[v] = file[v]
              /\ superseded \subseteq superseded' /\ deleted \subseteq deleted'
              /\ purged \subseteq purged'
              /\ current' \notin Retired
              /\ \A o \in Orders : order[o] \notin {"none", "reading"} => line'[o] = line[o]]_vars
    <2>1. CASE UNCHANGED vars
        BY <2>1
    <2> SUFFICES ASSUME Next
                 PROVE  /\ \A v \in Version : file[v] # None => file'[v] = file[v]
                        /\ superseded \subseteq superseded' /\ deleted \subseteq deleted'
                        /\ purged \subseteq purged'
                        /\ current' \notin Retired
                        /\ \A o \in Orders : order[o] \notin {"none", "reading"} =>
                              line'[o] = line[o]
        BY <1>1, <2>1
    <2>2. TypeOK
        BY <1>1 DEF SInv
    <2>3. /\ superseded \subseteq superseded' /\ deleted \subseteq deleted'
          /\ purged \subseteq purged'
        BY DEF Next, OwnerNext, BuyerNext, shelf, PutObject, RecordVersion, FailUpload, Recorded,
               Activate, Delete, Publish, Unpublish, Look, LookForGrants, LookForOrders, Remove,
               FailRemove, Mark, Stop, ReadShelf, AddLine, DropOrder, Complete, Cancel, Expire
    <2>4. current' \notin Retired
        <3>1. 0 \notin Retired /\ 0 \notin Retired'
            BY <1>1, RetiredType DEF SInv, TypeOK, Retired
        <3>2. current' # 0 => current' \notin Retired'
            BY <1>1 DEF SInv, States
        <3>3. Retired \subseteq Retired'
            BY <2>3 DEF Retired
        <3> QED BY <3>1, <3>2, <3>3
    <2>5. ASSUME NEW v \in Version, file[v] # None PROVE file'[v] = file[v]
        <3>1. file' = file \/ \E u : file' = [file EXCEPT ![made + 1] = u]
            BY DEF Next, OwnerNext, BuyerNext, shelf, PutObject, RecordVersion, FailUpload,
                   Recorded, NextNumber, Activate, Delete, Publish, Unpublish, Look,
                   LookForGrants, LookForOrders, Remove, FailRemove, Mark, Stop, ReadShelf,
                   AddLine, DropOrder, Complete, Cancel, Expire
        <3>2. v # made + 1
            BY <1>1, <2>2, <2>5, RetiredType DEF SInv, Rows, Version
        <3> QED BY <2>2, <3>1, <3>2 DEF TypeOK
    <2>6. ASSUME NEW o \in Orders, order[o] \notin {"none", "reading"} PROVE line'[o] = line[o]
        <3>1. CASE \E p \in Orders : BuyerNext(p)
            BY <2>2, <2>6, <3>1 DEF TypeOK, BuyerNext, ReadShelf, AddLine, DropOrder, Complete,
                                    Cancel, Expire, Reading
        <3>2. CASE ~ \E p \in Orders : BuyerNext(p)
            BY <3>2 DEF Next, OwnerNext, sales, PutObject, RecordVersion, FailUpload, Activate,
                        Delete, Publish, Unpublish, Look, LookForGrants, LookForOrders, Remove,
                        FailRemove, Mark, Stop
        <3> QED BY <3>1, <3>2
    <2> QED BY <2>3, <2>4, <2>5, <2>6
<1>2. SInv /\ SInv' /\ [Next]_vars =>
          [/\ \A v \in Version : file[v] # None => file'[v] = file[v]
           /\ superseded \subseteq superseded' /\ deleted \subseteq deleted'
           /\ purged \subseteq purged'
           /\ current' \notin Retired
           /\ \A o \in Orders : order[o] \notin {"none", "reading"} => line'[o] = line[o]]_vars
    BY <1>1
<1> QED BY <1>2, Invariance, PTL DEF Spec, HistoryIsKept

-----------------------------------------------------------------------------
(* Shelf implements Lifecycle.                                             *)

\* Whatever was released and is not on sale any more is retired.
Shown == activated \ Retired \subseteq {current}

LEMMA ShownNext == ASSUME SInv, Shown, [Next]_vars PROVE Shown'
<1>1. ASSUME UNCHANGED <<activated, superseded, deleted, current>> PROVE Shown'
    BY <1>1 DEF Shown, Retired
<1>2. ASSUME NEW j \in Jobs, Recorded(j) PROVE Shown'
    <2>1. CASE Waits
        BY <1>2, <2>1 DEF Recorded, Shown, Retired
    <2>2. CASE ~ Waits
        <3>1. current # 0 => current \in Discarded
            BY <2>2 DEF Discarded
        <3>2. activated \ Retired \subseteq Discarded \cup {0}
            BY <3>1 DEF Shown
        <3>3. \A v \in activated : v # 0
            BY DEF SInv, TypeOK
        <3> QED BY <1>2, <2>2, <3>2, <3>3 DEF Recorded, Shown, Retired
    <2> QED BY <2>1, <2>2
<1>3. ASSUME NEW j \in Jobs, NEW v \in Version, Activate(j, v) \/ Delete(j, v) PROVE Shown'
    <2>1. \A w \in activated : w # 0
        BY DEF SInv, TypeOK
    <2> QED BY <1>3, <2>1 DEF Activate, Delete, Shown, Retired
<1>4. ASSUME NEW j \in Jobs, OwnerNext(j) PROVE Shown'
    BY <1>1, <1>2, <1>3, <1>4
    DEF OwnerNext, PutObject, RecordVersion, FailUpload, shelf, Look, LookForGrants,
        LookForOrders, Remove, FailRemove, Mark, Stop
<1>5. CASE Publish \/ Unpublish
    BY <1>1, <1>5 DEF Publish, Unpublish
<1>6. ASSUME NEW o \in Orders, BuyerNext(o) PROVE Shown'
    BY <1>1, <1>6 DEF BuyerNext, ReadShelf, AddLine, DropOrder, Complete, Cancel, Expire, shelf
<1>7. CASE UNCHANGED vars
    BY <1>1, <1>7 DEF vars, shelf
<1> QED BY <1>4, <1>5, <1>6, <1>7 DEF Next

\* The facts about versions that their stages rest on.
LEMMA StageFacts ==
    ASSUME SInv
    PROVE  /\ made \in Nat /\ made <= MaxVersion /\ MaxVersion \in Nat
           /\ current \in 0..made
           /\ purged \subseteq Retired /\ Retired \subseteq 1..made /\ current \notin Retired
           /\ \A v \in Version : v \in Nat /\ v # 0
<1>1. TypeOK /\ States
    BY DEF SInv
<1>2. Retired \subseteq 1..made /\ made \in Nat /\ made <= MaxVersion /\ current \in 0..made
    BY <1>1, VersionAssumption, RetiredType DEF TypeOK
<1>3. current \notin Retired
    <2>1. CASE current = 0
        BY <1>2, <2>1
    <2>2. CASE current # 0
        BY <1>1, <2>2 DEF States
    <2> QED BY <2>1, <2>2
<1> QED BY <1>1, <1>2, <1>3, VersionAssumption DEF States, Version

LEMMA LifeSame ==
    ASSUME UNCHANGED <<current, made, purged, superseded, deleted>>
    PROVE  Life' = Life
BY DEF Life, StageOf, Retired

\* A step of a version's life, told by the stages before and after.
LEMMA LifeMoves ==
    ASSUME NEW v \in Version, NEW to, NEW clears,
           StageOf(v)' = to,
           \A w \in Version \ {v} :
              StageOf(w)' = IF StageOf(w) \in clears THEN "retired" ELSE StageOf(w)
    PROVE  L!Moves(v, to, clears)
BY DEF L!Moves, L!Version, Version, Life

\* A new version, and what it takes the place of.
LEMMA RecordedLife ==
    ASSUME SInv, Shown, NEW j \in Jobs, Recorded(j), purged' = purged
    PROVE  L!Next
<1>1. PICK n \in Version :
          /\ n = made + 1 /\ made' = n /\ Retired' = Retired \cup Discarded
          /\ current' = IF Waits THEN current ELSE n
    BY DEF Recorded, NextNumber, Retired
<1>2. /\ made \in Nat /\ made < n /\ current \in 0..made /\ Retired \subseteq 1..made
      /\ purged \subseteq Retired /\ current \notin Retired
      /\ \A v \in Version : v \in Nat /\ v # 0
    BY <1>1, StageFacts
<1>3. L!IsNext(n)
    <2>1. \A v \in Version : (StageOf(v) = "none" <=> v > made)
        BY DEF StageOf
    <2>2. \A v \in Version : v < n => ~ (v > made)
        BY <1>1, <1>2
    <2> QED BY <1>1, <1>2, <2>1, <2>2 DEF L!IsNext, L!Version, Version, Life
<1>4. Discarded = Pending \cup (IF ~ Waits /\ current # 0 THEN {current} ELSE {})
    BY DEF Discarded
<1>5. \A w \in Version \ {n} : (w > made') <=> (w > made)
    BY <1>1, <1>2
<1>6. \A w \in Version : StageOf(w) = "waiting" => w \in Pending
    BY <1>2 DEF StageOf, Shown, Pending, Retired
<1>7. \A w \in Pending : w \in Version /\ w <= made /\ w # current /\ w # n
    <2>1. 1..made \subseteq Version /\ n \notin 1..made
        BY <1>1, <1>2, StageFacts DEF Version
    <2> QED BY <1>2, <2>1 DEF Pending
<1>8. n \notin Retired /\ n \notin Pending /\ n \notin purged /\ n # current
    BY <1>1, <1>2, <1>7
<1>9. CASE Waits
    <2>1. StageOf(n)' = "waiting"
        BY <1>1, <1>2, <1>4, <1>8, <1>9 DEF StageOf
    <2>2. ASSUME NEW w \in Version \ {n}
          PROVE  StageOf(w)' = IF StageOf(w) \in {"waiting"} THEN "retired" ELSE StageOf(w)
        BY <1>1, <1>2, <1>4, <1>5, <1>6, <1>7, <1>9 DEF StageOf
    <2>3. L!Moves(n, "waiting", {"waiting"})
        BY <1>1, <2>1, <2>2, LifeMoves
    <2> QED BY <1>1, <1>3, <2>3 DEF L!Next, L!Record, L!Version, Version
<1>10. CASE ~ Waits
    <2>1. StageOf(n)' = "sale"
        BY <1>1, <1>2, <1>10 DEF StageOf
    <2>2. ASSUME NEW w \in Version \ {n}
          PROVE  StageOf(w)' = IF StageOf(w) \in {"waiting", "sale"} THEN "retired" ELSE StageOf(w)
        BY <1>1, <1>2, <1>4, <1>5, <1>6, <1>7, <1>10 DEF StageOf
    <2>3. L!Moves(n, "sale", {"waiting", "sale"})
        BY <1>1, <2>1, <2>2, LifeMoves
    <2> QED BY <1>1, <1>3, <2>3 DEF L!Next, L!Replace, L!Version, Version
<1> QED BY <1>9, <1>10

LEMMA ActivateLife ==
    ASSUME SInv, NEW j \in Jobs, NEW v \in Version, Activate(j, v)
    PROVE  L!Next
<1>1. /\ v \in 1..made /\ v # current /\ v \notin Retired
      /\ made' = made /\ purged' = purged /\ current' = v
      /\ Retired' = IF current = 0 THEN Retired ELSE Retired \cup {current}
    BY DEF Activate, MayActivate, Retired
<1>2. /\ made \in Nat /\ current \in 0..made
      /\ purged \subseteq Retired /\ current \notin Retired
      /\ \A w \in Version : w \in Nat /\ w # 0
    BY StageFacts
<1>3. StageOf(v) = "waiting" /\ StageOf(v)' = "sale"
    BY <1>1, <1>2 DEF StageOf
<1>4. ASSUME NEW w \in Version \ {v}
      PROVE  StageOf(w)' = IF StageOf(w) \in {"sale"} THEN "retired" ELSE StageOf(w)
    BY <1>1, <1>2 DEF StageOf
<1>5. L!Moves(v, "sale", {"sale"})
    BY <1>3, <1>4, LifeMoves
<1> QED BY <1>3, <1>5 DEF L!Next, L!Release, L!Version, Version, Life

LEMMA DeleteLife ==
    ASSUME SInv, NEW j \in Jobs, NEW v \in Version, Delete(j, v)
    PROVE  [L!Next]_Life
<1>1. /\ v \in 1..made /\ made' = made /\ purged' = purged
      /\ Retired' = Retired \cup {v}
      /\ current' = IF v = current THEN 0 ELSE current
    BY DEF Delete, Retired
<1>2. /\ made \in Nat /\ current \in 0..made
      /\ purged \subseteq Retired /\ current \notin Retired
      /\ \A w \in Version : w \in Nat /\ w # 0
    BY StageFacts
<1>3. ASSUME NEW w \in Version \ {v}
      PROVE  StageOf(w)' = StageOf(w)
    BY <1>1, <1>2 DEF StageOf
<1>4. CASE v \in Retired
    <2>1. StageOf(v)' = StageOf(v)
        BY <1>1, <1>2, <1>4 DEF StageOf
    <2> QED BY <1>3, <2>1 DEF Life
<1>5. CASE v \notin Retired
    <2>1. StageOf(v) \in {"waiting", "sale"} /\ StageOf(v)' = "retired"
        BY <1>1, <1>2, <1>5 DEF StageOf
    <2>2. L!Moves(v, "retired", {})
        BY <1>3, <2>1, LifeMoves
    <2> QED BY <2>1, <2>2 DEF L!Next, L!Retire, L!Version, Version, Life
<1> QED BY <1>4, <1>5

\* The mark of a purge, which read that the version was retired long before.
LEMMA MarkLife ==
    ASSUME SInv, NEW j \in Jobs, Mark(j)
    PROVE  [L!Next]_Life
<1>1. job[j].version \in Retired /\ purged' = purged \cup {job[j].version}
    BY DEF Mark, SInv, PurgesAreRetired
<1>2. UNCHANGED <<current, made, superseded, deleted>> /\ Retired' = Retired
    BY DEF Mark, shelf, Retired
<1>3. /\ made \in Nat /\ current \notin Retired /\ Retired \subseteq 1..made
      /\ 1..made \subseteq Version
    BY StageFacts DEF Version
<1>9. PICK v \in Version : v \in Retired /\ purged' = purged \cup {v}
    BY <1>1, <1>3
<1>4. ASSUME NEW w \in Version \ {v}
      PROVE  StageOf(w)' = StageOf(w)
    BY <1>9, <1>2 DEF StageOf
<1>5. CASE v \in purged
    <2>1. purged' = purged
        BY <1>9, <1>5
    <2> QED BY <1>2, <2>1, LifeSame
<1>6. CASE v \notin purged
    <2>1. v \in Version /\ StageOf(v) = "retired" /\ StageOf(v)' = "gone"
        BY <1>9, <1>2, <1>3, <1>6 DEF StageOf
    <2>2. L!Moves(v, "gone", {})
        BY <1>4, <2>1, LifeMoves
    <2> QED BY <2>1, <2>2 DEF L!Next, L!Purge, L!Version, Version, Life
<1> QED BY <1>5, <1>6

LEMMA LifeStep == SInv /\ Shown /\ [Next]_vars => [L!Next]_Life
<1> SUFFICES ASSUME SInv, Shown, [Next]_vars PROVE [L!Next]_Life
    OBVIOUS
<1>1. ASSUME UNCHANGED <<current, made, purged, superseded, deleted>> PROVE [L!Next]_Life
    BY <1>1, LifeSame
<1>2. ASSUME NEW j \in Jobs, OwnerNext(j) PROVE [L!Next]_Life
    <2>1. ASSUME NEW v \in Version, Activate(j, v) \/ Delete(j, v) PROVE [L!Next]_Life
        BY <2>1, ActivateLife, DeleteLife
    <2>2. CASE RecordVersion(j) \/ FailUpload(j)
        BY <1>1, <2>2, RecordedLife DEF RecordVersion, FailUpload, shelf
    <2>3. CASE Mark(j)
        BY <2>3, MarkLife
    <2> QED BY <1>1, <1>2, <2>1, <2>2, <2>3
            DEF OwnerNext, PutObject, Look, LookForGrants, LookForOrders, Remove, FailRemove,
                Stop, shelf
<1>3. CASE Publish \/ Unpublish
    BY <1>1, <1>3 DEF Publish, Unpublish
<1>4. ASSUME NEW o \in Orders, BuyerNext(o) PROVE [L!Next]_Life
    BY <1>1, <1>4 DEF BuyerNext, ReadShelf, AddLine, DropOrder, Complete, Cancel, Expire, shelf
<1>5. CASE UNCHANGED vars
    BY <1>1, <1>5 DEF vars, shelf
<1> QED BY <1>2, <1>3, <1>4, <1>5 DEF Next

\* The versions of a product live as Lifecycle says, whatever requests of the
\* owner run together, fail or are reported as failed, and whatever is sold.
THEOREM LifecycleCorrect == Spec => ImplementsLifecycle
<1>1. Init => L!Init
    <2> SUFFICES ASSUME Init PROVE L!Init
        OBVIOUS
    <2>1. \A v \in Version : v > made
        BY VersionAssumption DEF Init, Version
    <2> QED BY <2>1 DEF L!Init, L!Version, Version, Life, StageOf
<1>2. Init => Shown
    BY DEF Init, Shown
<1>3. SInv /\ Shown /\ [Next]_vars => Shown'
    BY ShownNext
<1> QED BY <1>1, <1>2, <1>3, LifeStep, Invariance, PTL DEF Spec, ImplementsLifecycle, L!Spec

\* No version goes back to a stage it left: neither on sale once retired nor
\* back from a purge.
THEOREM NeverBackCorrect == Spec => L!NeverBack
<1> DEFINE Stages == {"none", "waiting", "sale", "retired", "gone"}
           Forward == \A v \in Version : L!Rank(Life[v]) <= L!Rank(Life'[v])
<1>1. ASSUME L!Next PROVE Forward
    <2>1. PICK v \in Version, to \in Stages, clears \in SUBSET {"waiting", "sale"} :
              L!Moves(v, to, clears) /\ L!Rank(Life[v]) < L!Rank(to)
        BY <1>1 DEF L!Next, L!Record, L!Replace, L!Release, L!Retire, L!Purge, L!IsNext, L!Rank,
                    L!Version, Version
    <2> SUFFICES ASSUME NEW w \in Version PROVE L!Rank(Life[w]) <= L!Rank(Life'[w])
        OBVIOUS
    <2>2. Life[w] \in Stages
        BY DEF Life, StageOf
    <2> QED BY <2>1, <2>2 DEF L!Moves, L!Rank, L!Version, Version
<1>2. [L!Next]_Life => [Forward]_Life
    BY <1>1
<1>3. Forward => \A v \in L!Version : L!Rank(Life[v]) <= L!Rank(Life'[v])
    BY DEF L!Version, Version
<1> QED BY <1>2, <1>3, LifecycleCorrect, PTL DEF ImplementsLifecycle, L!Spec, L!NeverBack

\* "The version waiting" and "the version on sale" each name one version.
THEOREM OneOfEachCorrect == Spec => []L!OneOfEach
<1>1. ASSUME SInv, Shown PROVE L!OneOfEach
    <2> SUFFICES ASSUME NEW v \in Version, NEW w \in Version, StageOf(v) = StageOf(w),
                        StageOf(v) \in {"waiting", "sale"}
                 PROVE  v = w
        BY DEF L!OneOfEach, L!Version, Version, Life
    <2>1. CASE StageOf(v) = "sale"
        BY <2>1 DEF StageOf
    <2>2. CASE StageOf(v) = "waiting"
        <3>1. \A u \in Version : StageOf(u) = "waiting" => u \in Pending
            <4> SUFFICES ASSUME NEW u \in Version, StageOf(u) = "waiting" PROVE u \in Pending
                OBVIOUS
            <4>1. ~ (u > made) /\ u # current /\ u \notin Retired
                BY <1>1, StageFacts DEF StageOf
            <4>2. u \in 1..made
                BY <1>1, <4>1, StageFacts DEF Version
            <4> QED BY <1>1, <4>1, <4>2 DEF Shown, Pending, Retired
        <3>2. v \in Pending /\ w \in Pending
            BY <2>2, <3>1
        <3> QED BY <1>1, <3>2 DEF SInv, States
    <2> QED BY <2>1, <2>2
<1>2. Init => Shown
    BY DEF Init, Shown
<1>3. SInv /\ Shown /\ [Next]_vars => Shown'
    BY ShownNext
<1> QED BY <1>1, <1>2, <1>3, Invariance, PTL DEF Spec
=============================================================================
