-------------------------------- MODULE Shelf --------------------------------
(***************************************************************************)
(* The versions of one product (src/src/media/versions.ts and ingest.ts):  *)
(* which one is on sale, which are waiting for the owner's release or      *)
(* retired, which of their files are still in storage, and who may still   *)
(* claim one.                                                              *)
(*                                                                         *)
(* An owner request changes the rows in one transaction that holds the     *)
(* product row, and then, outside it, purges the files of retired versions *)
(* nobody can claim.  Every query of the purge is a step, because no lock  *)
(* is held and the database runs READ COMMITTED.  So is a buyer's read of  *)
(* the version on sale, and the insertion of the line that names it; the   *)
(* insertion waits for the product row, and commits with its order.        *)
(*                                                                         *)
(* An object stands for all the files of one upload.  Payment is in        *)
(* Checkout.tla: here an order waits, is completed or is cancelled.        *)
(* `lapses` remembers which circumstances, none of them enforced by the    *)
(* code, have failed so far.                                               *)
(***************************************************************************)
EXTENDS Naturals, FiniteSets

CONSTANTS
    Uploads,          \* storage keys, fresh for each upload
    Orders,           \* order identifiers
    Buyer,            \* Buyer[o]: who places order o
    Jobs,             \* owner requests in flight together
    MaxVersion,       \* bound: versions of the product
    None              \* stands for an absent value

ASSUME NoneAssumption == None \notin Uploads
ASSUME VersionAssumption == MaxVersion \in Nat
ASSUME BuyerAssumption == DOMAIN Buyer = Orders

Version == 1..MaxVersion

VARIABLES
    published,   \* the product's status is PUBLISHED
    current,     \* products.current_version_id, 0 when there is none
    made,        \* how many version rows there are
    file,        \* file[v]: the object version v's file rows name
    activated,   \* versions with activated_at
    superseded,  \* versions with superseded_at
    deleted,     \* versions with deleted_at
    purged,      \* versions with files_purged_at
    stored,      \* the objects in the bucket
    order,       \* order[o]: how far the purchase is
    line,        \* line[o]: the version its line names, 0 when it has none
    grant,       \* grant[o]: the window of the entitlement it gave
    job,         \* job[j]: the owner request in slot j
    lapses       \* history: the circumstances that have failed

shelf == <<published, current, made, file, activated, superseded, deleted>>
sales == <<order, line, grant>>
vars == <<shelf, purged, stored, sales, job, lapses>>

\* "order": a purge ran while an order was between its read and its line.
\* "grant": an order was completed while a purge ran.
\* "ack": a transaction committed and was reported as failed.
Lapse == {"order", "grant", "ack"}

Phase == {"idle", "stored", "look", "grants", "orders", "mark"}
Idle == [phase |-> "idle", object |-> None, todo |-> {}, doomed |-> {}, version |-> 0]
JobType == [phase : Phase, object : Uploads \cup {None}, todo : SUBSET Version,
            doomed : SUBSET Version, version : 0..MaxVersion]

TypeOK ==
    /\ published \in BOOLEAN
    /\ current \in 0..made
    /\ made \in 0..MaxVersion
    /\ file \in [Version -> Uploads \cup {None}]
    /\ UNION {activated, superseded, deleted, purged} \subseteq 1..made
    /\ stored \subseteq Uploads
    /\ order \in [Orders -> {"none", "reading", "waiting", "completed", "cancelled"}]
    /\ line \in [Orders -> 0..MaxVersion]
    /\ grant \in [Orders -> {"none", "live", "expired"}]
    /\ job \in [Jobs -> JobType]
    /\ lapses \subseteq Lapse

Init ==
    /\ published = FALSE
    /\ current = 0
    /\ made = 0
    /\ file = [v \in Version |-> None]
    /\ activated = {} /\ superseded = {} /\ deleted = {} /\ purged = {}
    /\ stored = {}
    /\ order = [o \in Orders |-> "none"]
    /\ line = [o \in Orders |-> 0]
    /\ grant = [o \in Orders |-> "none"]
    /\ job = [j \in Jobs |-> Idle]
    /\ lapses = {}

-----------------------------------------------------------------------------
\* Who claims a version.

\* versionEverSold: a line names it, whatever became of the order.
EverSold(v) == \E o \in Orders : line[o] = v /\ order[o] \notin {"none", "reading"}

Held(v) == \E o \in Orders : line[o] = v /\ grant[o] = "live"

\* Seeded fault: only an order whose payment was approved claims its version.
AwaitedPaid(v) == FALSE

Awaited(v) == \E o \in Orders : line[o] = v /\ order[o] = "waiting"

\* Released nowhere yet, and not withdrawn.
Pending == {v \in 1..made : v \notin activated \cup deleted /\ v # current}

Retired == superseded \cup deleted

Purging(j) == job[j].phase \in {"grants", "orders", "mark"}
Reading(o) == order[o] = "reading"

\* What a step does to the circumstances: the code keeps nothing apart.
LapseIf(condition, lapse) == lapses' = lapses \cup (IF condition THEN {lapse} ELSE {})

-----------------------------------------------------------------------------
\* ingestProductFile: store the object, then record the version.

PutObject(j, u) ==
    /\ job[j].phase = "idle"
    /\ u \notin stored
    /\ \A v \in Version : file[v] # u
    /\ stored' = stored \cup {u}
    /\ job' = [job EXCEPT ![j] = [Idle EXCEPT !.phase = "stored", !.object = u]]
    /\ UNCHANGED <<shelf, purged, sales, lapses>>

\* Seeded fault: the number is a count of the versions still there.
NextNumberByCount == Cardinality((1..made) \ deleted) + 1

NextNumber == made + 1

\* On sale, or already sold: the new version waits for its release.
Waits == published \/ (current # 0 /\ EverSold(current))

\* Seeded fault: a version waiting for release is left waiting.
DiscardedOnSale == IF ~ Waits /\ current # 0 THEN {current} ELSE {}

\* What the upload replaces: a version still waiting, an unsold current one.
Discarded == Pending \cup (IF ~ Waits /\ current # 0 THEN {current} ELSE {})

Recorded(j) ==
    LET v == NextNumber IN
    /\ job[j].phase = "stored"
    /\ v \in Version
    /\ made' = v
    /\ file' = [file EXCEPT ![v] = job[j].object]
    /\ deleted' = deleted \cup Discarded
    /\ activated' = IF Waits THEN activated ELSE activated \cup {v}
    /\ current' = IF Waits THEN current ELSE v
    /\ UNCHANGED <<published, superseded>>

RecordVersion(j) ==
    /\ Recorded(j)
    /\ job' = [job EXCEPT ![j] = [Idle EXCEPT !.phase = "look"]]
    /\ UNCHANGED <<purged, stored, sales, lapses>>

\* The transaction is reported as failed: the objects are removed, or are left
\* behind when the removal fails too.
FailUpload(j) ==
    /\ job[j].phase = "stored"
    /\ stored' \in {stored, stored \ {job[j].object}}
    /\ \/ UNCHANGED <<shelf, lapses>>
       \/ Recorded(j) /\ lapses' = lapses \cup {"ack"}
    /\ job' = [job EXCEPT ![j] = Idle]
    /\ UNCHANGED <<purged, sales>>

-----------------------------------------------------------------------------
\* activateVersion, deleteVersion, and the product's publication.

\* Seeded fault: an old version may be put back on sale.
MayActivateOld(v) == v \in 1..made /\ v # current /\ v \notin deleted

MayActivate(v) == v \in 1..made /\ v # current /\ v \notin Retired

Activate(j, v) ==
    /\ job[j].phase = "idle"
    /\ MayActivate(v)
    /\ superseded' = IF current = 0 THEN superseded ELSE superseded \cup {current}
    /\ activated' = activated \cup {v}
    /\ current' = v
    /\ job' = [job EXCEPT ![j] = [Idle EXCEPT !.phase = "look"]]
    /\ UNCHANGED <<published, made, file, deleted, purged, stored, sales, lapses>>

\* Seeded fault: a deletion leaves the product's status alone.
PublishedAfterAll(v) == published

PublishedAfter(v) == published /\ v # current

Delete(j, v) ==
    /\ job[j].phase = "idle"
    /\ v \in (1..made) \ deleted
    /\ deleted' = deleted \cup {v}
    /\ published' = PublishedAfter(v)
    /\ current' = IF v = current THEN 0 ELSE current
    /\ job' = [job EXCEPT ![j] = [Idle EXCEPT !.phase = "look"]]
    /\ UNCHANGED <<made, file, activated, superseded, purged, stored, sales, lapses>>

\* changeProductStatus: the current version's file is checked under the lock.
Publish ==
    /\ ~ published
    /\ current # 0
    /\ published' = TRUE
    /\ UNCHANGED <<current, made, file, activated, superseded, deleted, purged, stored, sales, job, lapses>>

Unpublish ==
    /\ published
    /\ published' = FALSE
    /\ UNCHANGED <<current, made, file, activated, superseded, deleted, purged, stored, sales, job, lapses>>

-----------------------------------------------------------------------------
\* purgeRetiredVersionFiles, one query or one storage call at a time.

Look(j) ==
    /\ job[j].phase = "look"
    /\ job' = [job EXCEPT ![j].phase = "grants",
                          ![j].todo = {v \in Retired \ purged : v # current}]
    /\ LapseIf(\E o \in Orders : Reading(o), "order")
    /\ UNCHANGED <<shelf, purged, stored, sales>>

\* versionStillClaimed asks for a live grant first ...
LookForGrants(j, v) ==
    /\ job[j].phase = "grants"
    /\ v \in job[j].todo
    /\ job' = IF Held(v) THEN [job EXCEPT ![j].todo = @ \ {v}]
                         ELSE [job EXCEPT ![j].phase = "orders", ![j].version = v]
    /\ UNCHANGED <<shelf, purged, stored, sales, lapses>>

\* ... and then for an order still waiting.
LookForOrders(j) ==
    LET v == job[j].version IN
    /\ job[j].phase = "orders"
    /\ job' = [job EXCEPT ![j].phase = "grants", ![j].version = 0,
                          ![j].todo = @ \ {v},
                          ![j].doomed = IF Awaited(v) THEN @ ELSE @ \cup {v}]
    /\ UNCHANGED <<shelf, purged, stored, sales, lapses>>

Doomed(j, v) == job[j].phase = "grants" /\ job[j].todo = {} /\ v \in job[j].doomed

Remove(j, v) ==
    /\ Doomed(j, v)
    /\ stored' = stored \ {file[v]}
    /\ job' = [job EXCEPT ![j].phase = "mark", ![j].version = v]
    /\ UNCHANGED <<shelf, purged, sales, lapses>>

\* Seeded fault: a removal that failed is recorded as done.
FailRemoveMarks(j, v) ==
    /\ Doomed(j, v)
    /\ job' = [job EXCEPT ![j].phase = "mark", ![j].version = v]
    /\ UNCHANGED <<shelf, purged, stored, sales, lapses>>

\* Storage refused all of the version's files, or one of them: not marked.
FailRemove(j, v) ==
    /\ Doomed(j, v)
    /\ stored' \in {stored, stored \ {file[v]}}
    /\ job' = [job EXCEPT ![j].doomed = @ \ {v}]
    /\ UNCHANGED <<shelf, purged, sales, lapses>>

Mark(j) ==
    LET v == job[j].version IN
    /\ job[j].phase = "mark"
    /\ purged' = purged \cup {v}
    /\ job' = [job EXCEPT ![j].phase = "grants", ![j].version = 0, ![j].doomed = @ \ {v}]
    /\ UNCHANGED <<shelf, stored, sales, lapses>>

\* The purge is over, or the process died: nothing is undone.
Stop(j) ==
    /\ job[j].phase # "idle"
    /\ job' = [job EXCEPT ![j] = Idle]
    /\ UNCHANGED <<shelf, purged, stored, sales, lapses>>

-----------------------------------------------------------------------------
\* A buyer's order on the version on sale.

Placed(o) == order[o] \in {"waiting", "completed"}
Rivals(o) == {p \in Orders \ {o} : Buyer[p] = Buyer[o] /\ Placed(p)}

\* createOrder, up to its insertions: on sale, not owned, no live order.
ReadShelf(o) ==
    /\ order[o] = "none"
    /\ published
    /\ current # 0
    /\ \A p \in Rivals(o) : order[p] = "completed" /\ line[p] # current
    /\ order' = [order EXCEPT ![o] = "reading"]
    /\ line' = [line EXCEPT ![o] = current]
    /\ LapseIf(\E j \in Jobs : Purging(j), "order")
    /\ UNCHANGED <<shelf, purged, stored, grant, job>>

\* Seeded fault: the trigger looks at grants, not at orders.
LineAllowedUnowned(o) == \A p \in Rivals(o) : line[p] = line[o] => order[p] = "waiting"

\* The trigger on the line: this buyer has no other claim on this version.
LineAllowed(o) == \A p \in Rivals(o) : line[p] # line[o]

AddLine(o) ==
    /\ Reading(o)
    /\ LineAllowed(o)
    /\ order' = [order EXCEPT ![o] = "waiting"]
    /\ UNCHANGED <<shelf, purged, stored, line, grant, job, lapses>>

\* Refused by the trigger, or failed: the transaction rolls back.
DropOrder(o) ==
    /\ Reading(o)
    /\ order' = [order EXCEPT ![o] = "none"]
    /\ line' = [line EXCEPT ![o] = 0]
    /\ UNCHANGED <<shelf, purged, stored, grant, job, lapses>>

\* The approval, or the taking of a free order: the grant names the line's
\* version and its window opens.
Complete(o) ==
    /\ order[o] = "waiting"
    /\ order' = [order EXCEPT ![o] = "completed"]
    /\ grant' = [grant EXCEPT ![o] = "live"]
    /\ LapseIf(\E j \in Jobs : Purging(j), "grant")
    /\ UNCHANGED <<shelf, purged, stored, line, job>>

Cancel(o) ==
    /\ order[o] = "waiting"
    /\ order' = [order EXCEPT ![o] = "cancelled"]
    /\ UNCHANGED <<shelf, purged, stored, line, grant, job, lapses>>

\* The download window ends.
Expire(o) ==
    /\ grant[o] = "live"
    /\ grant' = [grant EXCEPT ![o] = "expired"]
    /\ UNCHANGED <<shelf, purged, stored, order, line, job, lapses>>

-----------------------------------------------------------------------------
OwnerNext(j) ==
    \/ \E u \in Uploads : PutObject(j, u)
    \/ RecordVersion(j) \/ FailUpload(j)
    \/ \E v \in Version : Activate(j, v) \/ Delete(j, v)
    \/ Look(j) \/ LookForOrders(j) \/ Mark(j) \/ Stop(j)
    \/ \E v \in Version : LookForGrants(j, v) \/ Remove(j, v) \/ FailRemove(j, v)

BuyerNext(o) ==
    ReadShelf(o) \/ AddLine(o) \/ DropOrder(o) \/ Complete(o) \/ Cancel(o) \/ Expire(o)

Next ==
    \/ \E j \in Jobs : OwnerNext(j)
    \/ Publish \/ Unpublish
    \/ \E o \in Orders : BuyerNext(o)

Spec == Init /\ [][Next]_vars

-----------------------------------------------------------------------------
\* Safety.

\* Nothing is left on sale with no file behind it: a published product has a
\* current version, and the current version was released, is not retired and
\* has its files, whatever purges and failed uploads run beside it, unless an upload
\* reported as failed was recorded after all.
OnSaleIsWhole ==
    /\ published => current # 0
    /\ current # 0 => /\ current \in activated \ (Retired \cup purged)
                      /\ "ack" \notin lapses => file[current] \in stored

\* One version at most waits for the owner's release, so "the waiting version"
\* is never ambiguous (two uploads may be recorded one after the other).
OnePendingVersion == Cardinality(Pending) <= 1

\* A version marked as purged is a retired one whose files are gone: bytes are
\* never forgotten in storage by a mark made too early.
PurgedIsGone == \A v \in purged : v \in Retired /\ file[v] \notin stored

\* "A version is still bought once": two requests that read the shelf together
\* do not both get a line on the same version.
BoughtOncePerVersion ==
    \A o, p \in Orders :
        (o # p /\ Buyer[o] = Buyer[p] /\ Placed(o) /\ Placed(p)) => line[o] # line[p]

\* Whoever is inside a window, or waiting for an approval, has a version whose
\* files are stored.
Kept ==
    \A o \in Orders : (order[o] = "waiting" \/ grant[o] = "live") => file[line[o]] \in stored

\* "An object is only ever left behind, never removed while something still
\* points at it", as long as orders are placed and completed outside purges.
ClaimsAreKept == lapses = {} => Kept

\* Every version lives the life Lifecycle promises: the step of one request under
\* the product row, an upload reported as failed and recorded all the same, and
\* the mark of a purge that read the rows long ago are each one step of it, or none.
StageOf(v) ==
    IF v > made THEN "none"
    ELSE IF v = current THEN "sale"
    ELSE IF v \in purged THEN "gone"
    ELSE IF v \in Retired THEN "retired" ELSE "waiting"
Life == [v \in Version |-> StageOf(v)]
L == INSTANCE Lifecycle WITH stage <- Life
ImplementsLifecycle == L!Spec

\* What happened to a version stays: its files are the ones it was recorded
\* with, a retired one never returns to sale, a purge is not undone, and a
\* line keeps the version that was sold.
HistoryIsKept ==
    [][/\ \A v \in Version : file[v] # None => file'[v] = file[v]
       /\ superseded \subseteq superseded' /\ deleted \subseteq deleted' /\ purged \subseteq purged'
       /\ current' \notin Retired
       /\ \A o \in Orders : order[o] \notin {"none", "reading"} => line'[o] = line[o]]_vars
=============================================================================
