---------------------------- MODULE TranscriptPages ----------------------------
(***************************************************************************)
(* GET /transcripts: a count and a page, newest first, from two statements *)
(* that under READ COMMITTED see two moments.  A client walks the pages    *)
(* while others post transcripts.  created_at is set when a transcript is  *)
(* made and the row is visible when its transaction commits, so rows do    *)
(* not appear in the order in which they are sorted.                       *)
(***************************************************************************)
EXTENDS Naturals, Sequences, FiniteSets

CONSTANTS
    Rows,           \* transcripts that may be posted
    PageSize        \* page_size of the walk

ASSUME PagesAssumption == IsFiniteSet(Rows) /\ PageSize \in Nat \ {0}

VARIABLES
    created,    \* created[r]: created_at, 0 before the POST (times are distinct)
    committed,  \* rows whose INSERT is committed
    walk,       \* where the client and its call stand
    page,       \* the page it asks for
    total,      \* the count its call read
    seen,       \* the rows it was shown
    base        \* the rows there were when the walk began (history)

pagesVars == <<created, committed, walk, page, total, seen, base>>

PagesTypeOK ==
    /\ created \in [Rows -> Nat]
    /\ committed \subseteq Rows
    /\ walk \in {"idle", "count", "fetch", "answered", "short", "counted"}
    /\ page \in Nat \ {0}
    /\ total \in Nat
    /\ seen \subseteq Rows
    /\ base \subseteq Rows

PagesInit ==
    /\ created = [r \in Rows |-> 0]
    /\ committed = {}
    /\ walk = "idle"
    /\ page = 1
    /\ total = 0
    /\ seen = {}
    /\ base = {}

-------------------------------------------------------------------------------
(* Other clients.                                                           *)

Made == { r \in Rows : created[r] > 0 }

Insert(r) ==
    /\ created[r] = 0
    /\ created' = [created EXCEPT ![r] = Cardinality(Made) + 1]
    /\ UNCHANGED <<committed, walk, page, total, seen, base>>

Commit(r) ==
    /\ created[r] > 0
    /\ r \notin committed
    /\ committed' = committed \cup {r}
    /\ UNCHANGED <<created, walk, page, total, seen, base>>

-------------------------------------------------------------------------------

(* The rows before r in ORDER BY created_at DESC.                           *)
Newer(r) == { s \in committed : created[s] > created[r] }

StartWalk ==
    /\ walk = "idle"
    /\ walk' = "count"
    /\ base' = committed
    /\ UNCHANGED <<created, committed, page, total, seen>>

CountRows ==
    /\ walk = "count"
    /\ total' = Cardinality(committed)
    /\ walk' = "fetch"
    /\ UNCHANGED <<created, committed, page, seen, base>>

(* Mutants: the first page is number 0; a page is one row short.            *)
ItemsFromZero ==
    { r \in committed : /\ page * PageSize <= Cardinality(Newer(r))
                        /\ Cardinality(Newer(r)) < (page + 1) * PageSize }

ItemsShort ==
    { r \in committed : /\ (page - 1) * PageSize <= Cardinality(Newer(r))
                        /\ Cardinality(Newer(r)) < page * PageSize - 1 }

(* The rows of the page: OFFSET (page - 1) * page_size LIMIT page_size.     *)
Items ==
    { r \in committed : /\ (page - 1) * PageSize <= Cardinality(Newer(r))
                        /\ Cardinality(Newer(r)) < page * PageSize }

FetchPage ==
    /\ walk = "fetch"
    /\ seen' = seen \cup Items
    /\ walk' = IF Cardinality(Items) < PageSize THEN "short" ELSE "answered"
    /\ UNCHANGED <<created, committed, page, total, base>>

(* A client that trusts the count stops when it has as many rows.           *)
StopAtTotal ==
    /\ walk = "answered"
    /\ page * PageSize >= total
    /\ walk' = "counted"
    /\ UNCHANGED <<created, committed, page, total, seen, base>>

TurnPage ==
    /\ walk = "answered"
    /\ page' = page + 1
    /\ walk' = "count"
    /\ UNCHANGED <<created, committed, total, seen, base>>

PagesNext ==
    \/ \E r \in Rows : Insert(r) \/ Commit(r)
    \/ StartWalk \/ CountRows \/ FetchPage \/ StopAtTotal \/ TurnPage

PagesSpec == PagesInit /\ [][PagesNext]_pagesVars

-------------------------------------------------------------------------------

(* A walk down to the first short page has shown every transcript there was *)
(* when it began, whatever was posted meanwhile and in whatever order it    *)
(* was committed: rows only ever move to later pages (list_all).            *)
WalkIsComplete == walk = "short" => base \subseteq seen

(* A walk that stops at the count of its last answer may miss transcripts,  *)
(* for the count is older than the page beside it, but no more than were    *)
(* committed since it began (list_all, TranscriptListResponse.total).       *)
CountedMissesNoMore ==
    walk \in {"short", "counted"} =>
        Cardinality(base \ seen) <= Cardinality(committed \ base)

(* Rows differ in their times.                                              *)
TimesDiffer ==
    /\ \A r \in Rows : created[r] <= Cardinality(Made)
    /\ \A r, s \in Made : created[r] = created[s] => r = s
    /\ committed \subseteq Made

(* What the walk has passed it has shown.                                   *)
PassedIsSeen ==
    /\ base \subseteq committed
    /\ walk = "idle" => page = 1
    /\ walk # "idle" =>
          \A r \in base :
             r \notin seen =>
                (IF walk \in {"count", "fetch"} THEN page - 1 ELSE page) * PageSize
                    <= Cardinality(Newer(r))

(* A count that was read is no less than what there was at the start.       *)
CountIsLater ==
    /\ walk \in {"fetch", "answered", "counted"} => Cardinality(base) <= total
    /\ walk = "counted" => total <= page * PageSize

(* Inductive.                                                               *)
PagesInv == PagesTypeOK /\ TimesDiffer /\ PassedIsSeen /\ CountIsLater /\ WalkIsComplete
===============================================================================
