------------------------------ MODULE Delivery ------------------------------
(***************************************************************************)
(* Handing out the original of one product (deliverProductFile in          *)
(* src/src/media/deliver.ts), beside the releases, sales, expiries and     *)
(* purges that go on meanwhile.                                            *)
(*                                                                         *)
(* A delivery reads the file rows it may see, then the reader's grants,    *)
(* in one transaction; then it asks the storage for the object; then it    *)
(* counts and records the download in another transaction; then it         *)
(* answers.  Each is a step, and a request may die after any of them.      *)
(*                                                                         *)
(* Versions and purges are in Shelf.tla, orders in Checkout.tla: here the  *)
(* owner's side is reduced to the steps a delivery can notice, and every   *)
(* file passed its scan.  Previews are not modelled: they change nothing.  *)
(***************************************************************************)
EXTENDS Naturals, FiniteSetsExt, Functions

CONSTANTS
    Buyers,         \* accounts that buy
    Engineers,      \* accounts credited on the product
    Owner,          \* the owner's account
    Requests,       \* deliveries in flight together
    MaxVersion,     \* bound: versions of the product
    MaxEvents       \* bound: download events

ASSUME VersionAssumption == MaxVersion \in Nat
ASSUME EventsAssumption == MaxEvents \in Nat
ASSUME PeopleAssumption == Owner \notin Buyers \cup Engineers
ASSUME RequestsAssumption == IsFiniteSet(Requests)

Version == 1..MaxVersion
People == Buyers \cup Engineers \cup {Owner}
Reason == {"OWNER", "ENTITLEMENT", "CONTRIBUTOR"}

VARIABLES
    made,       \* version rows
    current,    \* products.current_version_id, or 0
    purged,     \* versions with files_purged_at
    stored,     \* versions whose object is in the bucket
    doomed,     \* versions a running purge found unclaimed
    grant,      \* grant[b][v]: the entitlement of b on v
    event,      \* event[c]: rows of download_events that say copy c was taken
    sent,       \* sent[c]: answers that carried copy c
    raced,      \* history: sales of a version a purge removed or was about to
    call        \* call[r]: the delivery in slot r

shelf == <<made, current, purged, stored, doomed>>
vars == <<shelf, grant, event, sent, raced, call>>

\* A copy: to whom, of what, and on what ground.  A row of the trail with the
\* ground ENTITLEMENT is also one in the grant's download_count.
Copy == People \X Version \X Reason

Idle == [phase |-> "idle", who |-> Owner, want |-> 0, rows |-> {}, sale |-> 0, held |-> {},
         version |-> 0, reason |-> "OWNER"]

CallType == [phase : {"idle", "rows", "allowed", "found", "recorded"}, who : People,
             want : 0..MaxVersion, rows : SUBSET Version, sale : 0..MaxVersion,
             held : SUBSET Version, version : 0..MaxVersion, reason : Reason]

TypeOK ==
    /\ made \in 0..MaxVersion /\ current \in 0..made
    /\ UNION {purged, stored, doomed} \subseteq 1..made
    /\ grant \in [Buyers -> [Version -> {"none", "live", "expired"}]]
    /\ event \in [Copy -> Nat] /\ sent \in [Copy -> Nat]
    /\ raced \subseteq Buyers \X Version
    /\ call \in [Requests -> CallType]
    /\ \A r \in Requests : call[r].phase \notin {"idle", "rows"} => call[r].version \in 1..made

Init ==
    /\ made = 0 /\ current = 0
    /\ purged = {} /\ stored = {} /\ doomed = {}
    /\ grant = [b \in Buyers |-> [v \in Version |-> "none"]]
    /\ event = [c \in Copy |-> 0] /\ sent = [c \in Copy |-> 0]
    /\ raced = {}
    /\ call = [r \in Requests |-> Idle]

Holds(p, v) == p \in Buyers /\ grant[p][v] = "live"
HeldBy(p) == {v \in Version : Holds(p, v)}

-----------------------------------------------------------------------------
\* The shelf and the sales, as far as a delivery depends on them.

\* A version is recorded and released: the one before it is superseded.
Release ==
    /\ made < MaxVersion
    /\ made' = made + 1
    /\ current' = made'
    /\ stored' = stored \cup {made'}
    /\ UNCHANGED <<purged, doomed, grant, event, sent, raced, call>>

\* The version on sale is deleted; deleting another changes no answer.
Withdraw ==
    /\ current # 0
    /\ current' = 0
    /\ UNCHANGED <<made, purged, stored, doomed, grant, event, sent, raced, call>>

\* The purge chooses the versions nobody is inside a window of ...
Doom ==
    /\ doomed = {}
    /\ doomed' = {v \in (1..made) \ (purged \cup {current}) : \A b \in Buyers : ~ Holds(b, v)}
    /\ UNCHANGED <<made, current, purged, stored, grant, event, sent, raced, call>>

\* ... and removes their objects one by one, marking each, later.
Remove(v) ==
    /\ v \in doomed \cap stored
    /\ stored' = stored \ {v}
    /\ UNCHANGED <<made, current, purged, doomed, grant, event, sent, raced, call>>

Mark(v) ==
    /\ v \in doomed \ stored
    /\ purged' = purged \cup {v}
    /\ doomed' = doomed \ {v}
    /\ UNCHANGED <<made, current, stored, grant, event, sent, raced, call>>

\* The purge is over, or failed on the way: the rest is for another one.
StopPurge ==
    /\ doomed # {}
    /\ doomed' = {}
    /\ UNCHANGED <<made, current, purged, stored, grant, event, sent, raced, call>>

\* An order on the version is completed, whatever has become of its files.  An
\* order claims its version, so only one made inside a purge meets a version
\* that is doomed, removed or marked.
Sell(b, v) ==
    /\ v \in 1..made
    /\ grant[b][v] = "none"
    /\ grant' = [grant EXCEPT ![b][v] = "live"]
    /\ raced' = IF v \in stored \ doomed THEN raced ELSE raced \cup {<<b, v>>}
    /\ UNCHANGED <<shelf, event, sent, call>>

Expire(b, v) ==
    /\ grant[b][v] = "live"
    /\ grant' = [grant EXCEPT ![b][v] = "expired"]
    /\ UNCHANGED <<shelf, event, sent, raced, call>>

-----------------------------------------------------------------------------
\* A delivery.

\* Seeded fault: a grant on one version opens the rows of all.
VisibleOnceBought(p, v) == p = Owner \/ p \in Engineers \/ HeldBy(p) # {}

\* The policy on product_files, under which the rows are read.
Visible(p, v) == p = Owner \/ p \in Engineers \/ Holds(p, v)

\* The rows of one version, or of all, that still have their files.
Live(p, want) == {v \in (1..made) \ purged : Visible(p, v) /\ want \in {0, v}}

\* Phase 1, the file rows.  The transaction's clock stands still, so what is
\* held now stays inside its window until it ends.
Ask(r, p, want) ==
    /\ call[r].phase = "idle"
    /\ Live(p, want) # {}
    /\ call' = [call EXCEPT ![r] =
                  [Idle EXCEPT !.phase = "rows", !.who = p, !.want = want,
                               !.rows = Live(p, want), !.sale = current, !.held = HeldBy(p)]]
    /\ UNCHANGED <<shelf, grant, event, sent, raced>>

\* Seeded fault: an older version's grant is not looked for.
BestOnSale(sale, rows, held) == IF sale \in held THEN sale ELSE 0

\* rank: the grant on the version on sale first, then the newest of the rows.
Best(sale, rows, held) ==
    IF sale \in held THEN sale
    ELSE IF held \cap rows = {} THEN 0 ELSE Max(held \cap rows)

\* Seeded fault: whoever has no grant is handed nothing in particular.
ChosenHeld(want, sale, rows, best) == IF want # 0 THEN want ELSE best

\* The row to hand out.
Chosen(want, sale, rows, best) ==
    IF want # 0 THEN want
    ELSE IF best \in rows THEN best
    ELSE IF sale \in rows THEN sale ELSE Max(rows)

Ground(p, version, best) ==
    IF p = Owner THEN "OWNER" ELSE IF version = best THEN "ENTITLEMENT" ELSE "CONTRIBUTOR"

\* Phase 1, the grants: which version, and the ground written on the trail.
Allow(r) ==
    LET c == call[r]
        held == c.held \cup HeldBy(c.who)
        best == Best(c.sale, c.rows, held)
        version == Chosen(c.want, c.sale, c.rows, best)
    IN  /\ c.phase = "rows"
        /\ call' = [call EXCEPT ![r] = [Idle EXCEPT !.phase = "allowed", !.who = c.who,
                      !.version = version, !.reason = Ground(c.who, version, best)]]
        /\ UNCHANGED <<shelf, grant, event, sent, raced>>

\* Phase 2: the object is read and stamped, or confirmed present and signed for.
Find(r) ==
    /\ call[r].phase = "allowed"
    /\ call[r].version \in stored
    /\ call' = [call EXCEPT ![r].phase = "found"]
    /\ UNCHANGED <<shelf, grant, event, sent, raced>>

\* Seeded fault: the counter asks only that the grant was not revoked.
MayCountAnytime(b, v) == grant[b][v] # "none"

\* app_record_entitlement_download.
MayCount(b, v) == Holds(b, v)

Taken(r) == <<call[r].who, call[r].version, call[r].reason>>

\* The rows of the trail, which MaxEvents bounds.
Rows == FoldFunction(+, 0, event)

\* Phase 3: the count and the event, or neither.  The clock of the window, and
\* the one the event is dated by, is the start of this transaction.
Record(r) ==
    /\ call[r].phase = "found"
    /\ Rows < MaxEvents
    /\ call[r].reason = "ENTITLEMENT" => MayCount(call[r].who, call[r].version)
    /\ event' = [event EXCEPT ![Taken(r)] = @ + 1]
    /\ call' = [call EXCEPT ![r].phase = "recorded"]
    /\ UNCHANGED <<shelf, grant, sent, raced>>

\* Seeded fault: the copy leaves as soon as its bytes are in hand.
AnswerEarly(r) ==
    /\ call[r].phase \in {"found", "recorded"}
    /\ sent' = [sent EXCEPT ![Taken(r)] = @ + 1]
    /\ call' = [call EXCEPT ![r] = Idle]
    /\ UNCHANGED <<shelf, grant, event, raced>>

Answer(r) ==
    /\ call[r].phase = "recorded"
    /\ sent' = [sent EXCEPT ![Taken(r)] = @ + 1]
    /\ call' = [call EXCEPT ![r] = Idle]
    /\ UNCHANGED <<shelf, grant, event, raced>>

\* Not found, refused by the counter, failed, or the process died.
GiveUp(r) ==
    /\ call[r].phase # "idle"
    /\ call' = [call EXCEPT ![r] = Idle]
    /\ UNCHANGED <<shelf, grant, event, sent, raced>>

-----------------------------------------------------------------------------
Next ==
    \/ Release \/ Withdraw \/ Doom \/ StopPurge
    \/ \E v \in Version : Remove(v) \/ Mark(v)
    \/ \E b \in Buyers, v \in Version : Sell(b, v) \/ Expire(b, v)
    \/ \E r \in Requests, p \in People, want \in 0..MaxVersion : Ask(r, p, want)
    \/ \E r \in Requests : Allow(r) \/ Find(r) \/ Record(r) \/ Answer(r) \/ GiveUp(r)

Spec == Init /\ [][Next]_vars

-----------------------------------------------------------------------------
\* Every copy that left is on the trail, whatever died between recording it
\* and sending it ("every delivery of an original is recorded before the bytes
\* go out").
TrailIsWhole ==
    \A c \in Copy :
        sent[c] + Cardinality({r \in Requests : call[r].phase = "recorded" /\ Taken(r) = c}) <= event[c]

\* A buyer of one version gets a counted copy, stamped if it is a PDF, and
\* never as if they were an engineer: the window may close, the product change
\* and versions be released while the request runs.
OneGrantIsCounted ==
    \A b \in Buyers \ Engineers :
        Cardinality({v \in Version : grant[b][v] # "none"}) <= 1 =>
            \A v \in Version : event[<<b, v, "CONTRIBUTOR">>] = 0

\* Nobody outside the product's engineers is recorded with, or sent, a version
\* they never bought, whatever they asked for by name and whatever was released,
\* sold or expired between the two queries of the request.
NothingUnbought ==
    \A b \in Buyers \ Engineers, v \in Version : grant[b][v] = "none" =>
        \A g \in Reason : event[<<b, v, g>>] = 0 /\ sent[<<b, v, g>>] = 0

\* "RLS admitted a non-owner without a live grant: a credited engineer."
ContributorsAreCredited ==
    \A p \in People, v \in Version :
        event[<<p, v, "CONTRIBUTOR">>] > 0 => p \in Engineers

\* The shelf a delivery meets is one that Lifecycle allows, as Shelf's is: a release
\* is seen in one step, and nothing is withdrawn, removed or marked that Shelf's
\* owner could not withdraw, remove or mark.
StageOf(v) ==
    IF v > made THEN "none"
    ELSE IF v = current THEN "sale"
    ELSE IF v \in purged THEN "gone" ELSE "retired"
Life == [v \in Version |-> StageOf(v)]
L == INSTANCE Lifecycle WITH stage <- Life
ImplementsLifecycle == L!Spec

\* A download is only counted inside its window and, unless a purge overtook
\* the sale, while the object is still stored: a signed link that was counted
\* does not point at nothing.
CountedIsThere ==
    [][\A b \in Buyers, v \in Version :
          LET c == <<b, v, "ENTITLEMENT">>
          IN  event'[c] # event[c] =>
                 /\ Holds(b, v)
                 /\ <<b, v>> \notin raced => v \in stored]_vars
=============================================================================
