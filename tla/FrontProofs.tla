------------------------------ MODULE FrontProofs ------------------------------
(***************************************************************************)
(* Proofs about what stands in front of the workers: the list of           *)
(* transcripts, for any number of rows and any page size; the start of any *)
(* number of servers; and the web page, for any number of submissions,     *)
(* reloads and lost answers.                                               *)
(***************************************************************************)
EXTENDS TranscriptPages, ServerStart, SubmitForm, RecentList, LoopTheorems

-------------------------------------------------------------------------------
(* How many rows are newer than a row.                                      *)

LEMMA NewerIsFinite ==
  ASSUME PagesInv
  PROVE  /\ IsFiniteSet(committed) /\ Cardinality(committed) \in Nat
         /\ \A r : IsFiniteSet(Newer(r)) /\ Cardinality(Newer(r)) \in Nat
  <1>1. committed \in SUBSET Rows
    BY DEF PagesInv, PagesTypeOK
  <1>2. IsFiniteSet(committed)
    BY <1>1, PagesAssumption, FS_Subset
  <1>3. ASSUME NEW r PROVE IsFiniteSet(Newer(r)) /\ Cardinality(Newer(r)) \in Nat
    <2>1. Newer(r) \in SUBSET committed
      BY DEF Newer
    <2>. QED  BY <1>2, <2>1, FS_Subset, FS_CardinalityType
  <1>. QED  BY <1>2, <1>3, FS_CardinalityType

(* The older of two committed rows has more newer rows.                     *)
LEMMA RankOrder ==
  ASSUME PagesInv, NEW r \in committed, NEW s \in committed, created[r] < created[s]
  PROVE  Cardinality(Newer(s)) < Cardinality(Newer(r))
  <1>1. IsFiniteSet(Newer(r)) /\ IsFiniteSet(Newer(s)) /\ Cardinality(Newer(s)) \in Nat
    BY NewerIsFinite
  <1>2. \A q \in committed : created[q] \in Nat
    BY DEF PagesInv, PagesTypeOK
  <1>3. s \notin Newer(s)
    BY <1>2 DEF Newer
  <1>4. Cardinality(Newer(s) \cup {s}) = Cardinality(Newer(s)) + 1
    BY <1>1, <1>3, FS_AddElement
  <1>5. Newer(s) \cup {s} \in SUBSET Newer(r)
    BY <1>2 DEF Newer
  <1>6. Cardinality(Newer(s) \cup {s}) <= Cardinality(Newer(r))
    BY <1>1, <1>5, FS_Subset
  <1>7. Cardinality(Newer(r)) \in Nat
    BY NewerIsFinite
  <1>. QED  BY <1>1, <1>4, <1>6, <1>7

(* So the committed rows have the ranks 0, 1, 2, ..., one each.             *)
LEMMA RanksDiffer ==
  ASSUME PagesInv, NEW r \in committed, NEW s \in committed,
         Cardinality(Newer(r)) = Cardinality(Newer(s))
  PROVE  r = s
  <1>1. created[r] \in Nat /\ created[s] \in Nat
    BY DEF PagesInv, PagesTypeOK
  <1>2. Cardinality(Newer(r)) \in Nat
    BY NewerIsFinite
  <1>3. created[r] = created[s]
    BY <1>1, <1>2, RankOrder
  <1>. QED  BY <1>3 DEF PagesInv, TimesDiffer

LEMMA RankBound ==
  ASSUME PagesInv, NEW r \in committed
  PROVE  Cardinality(Newer(r)) \in 0 .. Cardinality(committed) - 1
  <1>1. IsFiniteSet(committed) /\ Cardinality(committed) \in Nat /\ Cardinality(Newer(r)) \in Nat
    BY NewerIsFinite
  <1>2. Newer(r) \in SUBSET (committed \ {r})
    BY DEF Newer, PagesInv, PagesTypeOK
  <1>3. IsFiniteSet(committed \ {r}) /\ Cardinality(committed \ {r}) = Cardinality(committed) - 1
    BY <1>1, FS_RemoveElement
  <1>4. Cardinality(Newer(r)) <= Cardinality(committed) - 1
    BY <1>2, <1>3, FS_Subset
  <1>. QED  BY <1>1, <1>4

LEMMA RankReached ==
  ASSUME PagesInv, NEW n \in 0 .. Cardinality(committed) - 1
  PROVE  \E r \in committed : Cardinality(Newer(r)) = n
  <1>. DEFINE rank == [r \in committed |-> Cardinality(Newer(r))]
              N == Cardinality(committed)
  <1>1. IsFiniteSet(committed) /\ N \in Nat
    BY NewerIsFinite
  <1>2. rank \in Injection(committed, 0 .. N - 1)
    BY RankBound, RanksDiffer DEF Injection, IsInjective
  <1>3. IsFiniteSet(0 .. N - 1) /\ Cardinality(0 .. N - 1) = N
    BY <1>1, FS_Interval
  <1>4. rank \in Surjection(committed, 0 .. N - 1)
    BY <1>2, <1>3, FS_Injection
  <1>. QED  BY <1>4 DEF Surjection

(* A page beyond which there are rows is full.                              *)
LEMMA FullPage ==
  ASSUME PagesInv, NEW r \in committed, page * PageSize <= Cardinality(Newer(r))
  PROVE  PageSize <= Cardinality(Items)
  <1>. DEFINE first == (page - 1) * PageSize
              ranks == first .. first + PageSize - 1
              rank == [s \in Items |-> Cardinality(Newer(s))]
  <1>1. page \in Nat \ {0} /\ PageSize \in Nat \ {0}
    BY PagesAssumption DEF PagesInv, PagesTypeOK
  <1>2. first \in Nat /\ first + PageSize = page * PageSize
    BY <1>1
  <1>. HIDE DEF first
  <1>3. IsFiniteSet(Items)
    <2>1. Items \in SUBSET committed
      BY DEF Items
    <2>. QED  BY <2>1, NewerIsFinite, FS_Subset
  <1>4. ASSUME NEW n \in ranks PROVE \E s \in Items : rank[s] = n
    <2>1. Cardinality(Newer(r)) \in 0 .. Cardinality(committed) - 1 /\ Cardinality(committed) \in Nat
      BY RankBound, NewerIsFinite
    <2>2. n \in 0 .. Cardinality(committed) - 1
      BY <1>1, <1>2, <2>1
    <2>3. PICK s \in committed : Cardinality(Newer(s)) = n
      BY <2>2, RankReached
    <2>4. s \in Items
      BY <1>1, <1>2, <2>3 DEF Items, first
    <2>. QED  BY <2>3, <2>4
  <1>5. rank \in [Items -> ranks]
    <2>. SUFFICES ASSUME NEW s \in Items PROVE Cardinality(Newer(s)) \in ranks
      OBVIOUS
    <2>1. first <= Cardinality(Newer(s)) /\ Cardinality(Newer(s)) < page * PageSize
      BY DEF Items, first
    <2>2. Cardinality(Newer(s)) \in Nat
      BY NewerIsFinite
    <2>. QED  BY <1>1, <1>2, <2>1, <2>2
  <1>6. rank \in Surjection(Items, ranks)
    BY <1>4, <1>5 DEF Surjection
  <1>7. Cardinality(ranks) <= Cardinality(Items)
    BY <1>3, <1>6, FS_Surjection
  <1>8. Cardinality(ranks) = PageSize
    <2>. DEFINE last == first + PageSize - 1
    <2>1. first \in Int /\ last \in Int /\ ~ (first > last) /\ last - first + 1 = PageSize
      BY <1>1, <1>2
    <2>. HIDE DEF last
    <2>2. Cardinality(first .. last) = last - first + 1
      BY <2>1, FS_Interval
    <2>. QED  BY <2>1, <2>2 DEF last
  <1>. QED  BY <1>7, <1>8

-------------------------------------------------------------------------------
(* The walk.                                                                *)

LEMMA PagesInit_Inv == PagesInit => PagesInv
  <1>. SUFFICES ASSUME PagesInit PROVE PagesInv
    OBVIOUS
  <1>. USE DEF PagesInit
  <1>1. Made = {}
    BY DEF Made
  <1>2. TimesDiffer
    BY <1>1, FS_EmptySet DEF TimesDiffer
  <1>3. PagesTypeOK
    BY DEF PagesTypeOK
  <1>. QED  BY <1>2, <1>3 DEF PagesInv, PassedIsSeen, CountIsLater, WalkIsComplete

LEMMA MadeIsFinite ==
  ASSUME PagesTypeOK
  PROVE  IsFiniteSet(Made) /\ Cardinality(Made) \in Nat
  <1>1. Made \in SUBSET Rows
    BY DEF Made
  <1>. QED  BY <1>1, PagesAssumption, FS_Subset, FS_CardinalityType

LEMMA InsertStep == ASSUME PagesInv, NEW r \in Rows, Insert(r) PROVE PagesInv'
  <1>1. PagesTypeOK /\ TimesDiffer /\ PassedIsSeen /\ CountIsLater /\ WalkIsComplete
    BY DEF PagesInv
  <1>2. IsFiniteSet(Made) /\ Cardinality(Made) \in Nat
    BY <1>1, MadeIsFinite
  <1>3. PagesTypeOK'
    BY <1>1, <1>2 DEF Insert, PagesTypeOK
  <1>4. created' = [created EXCEPT ![r] = Cardinality(Made) + 1] /\ r \notin Made
    BY <1>1 DEF Insert, Made
  <1>5. Made' = Made \cup {r}
    BY <1>1, <1>2, <1>4 DEF Made, PagesTypeOK
  <1>6. Cardinality(Made') = Cardinality(Made) + 1
    BY <1>2, <1>4, <1>5, FS_AddElement
  <1>7. r \notin committed
    BY <1>1, <1>4 DEF TimesDiffer
  <1>8. TimesDiffer'
    <2>1. \A q \in Rows : created'[q] <= Cardinality(Made')
      BY <1>1, <1>2, <1>4, <1>6 DEF TimesDiffer, PagesTypeOK
    <2>2. \A q \in Made : created'[q] = created[q] /\ created[q] <= Cardinality(Made) /\ created[q] \in Nat
      BY <1>1, <1>4 DEF TimesDiffer, PagesTypeOK, Made
    <2>3. created'[r] = Cardinality(Made) + 1
      BY <1>1, <1>4 DEF PagesTypeOK
    <2>4. ASSUME NEW p \in Made', NEW q \in Made', created'[p] = created'[q] PROVE p = q
      BY <1>1, <1>2, <1>5, <2>2, <2>3, <2>4 DEF TimesDiffer
    <2>5. (committed \subseteq Made)'
      BY <1>1, <1>5 DEF TimesDiffer, Insert
    <2>. QED  BY <2>1, <2>4, <2>5 DEF TimesDiffer
  <1>9. \A q \in committed : Newer(q)' = Newer(q)
    BY <1>1, <1>4, <1>7 DEF Newer, Insert, PagesTypeOK
  <1>10. PassedIsSeen'
    BY <1>1, <1>9 DEF PassedIsSeen, Insert
  <1>. QED  BY <1>1, <1>3, <1>8, <1>10 DEF PagesInv, CountIsLater, WalkIsComplete, Insert

LEMMA CommitStep == ASSUME PagesInv, NEW r \in Rows, Commit(r) PROVE PagesInv'
  <1>1. PagesTypeOK /\ TimesDiffer /\ PassedIsSeen /\ CountIsLater /\ WalkIsComplete
    BY DEF PagesInv
  <1>2. PagesTypeOK'
    BY <1>1 DEF Commit, PagesTypeOK
  <1>3. TimesDiffer'
    BY <1>1 DEF TimesDiffer, Commit, Made
  <1>4. \A q : Cardinality(Newer(q)) <= Cardinality(Newer(q)')
    <2>. SUFFICES ASSUME NEW q PROVE Cardinality(Newer(q)) <= Cardinality(Newer(q)')
      OBVIOUS
    <2>1. Newer(q)' \in SUBSET Rows
      BY <1>2 DEF Newer, PagesTypeOK
    <2>2. IsFiniteSet(Newer(q)')
      BY <2>1, PagesAssumption, FS_Subset
    <2>3. Newer(q) \in SUBSET Newer(q)'
      BY DEF Newer, Commit
    <2>. QED  BY <2>2, <2>3, FS_Subset
  <1>5. PassedIsSeen'
    <2>1. base' \subseteq committed'
      BY <1>1 DEF PassedIsSeen, Commit
    <2>2. ASSUME walk # "idle", NEW q \in base, q \notin seen
          PROVE  (IF walk \in {"count", "fetch"} THEN page - 1 ELSE page) * PageSize
                    <= Cardinality(Newer(q)')
      <3>. DEFINE passed == (IF walk \in {"count", "fetch"} THEN page - 1 ELSE page) * PageSize
      <3>1. passed <= Cardinality(Newer(q))
        BY <1>1, <2>2 DEF PassedIsSeen
      <3>2. passed \in Int
        BY <1>1, PagesAssumption DEF PagesTypeOK
      <3>3. Cardinality(Newer(q)) \in Nat /\ Cardinality(Newer(q)') \in Nat
        <4>1. Newer(q)' \in SUBSET Rows
          BY <1>2 DEF Newer, PagesTypeOK
        <4>. QED  BY <4>1, NewerIsFinite, PagesAssumption, FS_Subset, FS_CardinalityType
      <3>. HIDE DEF passed
      <3>4. passed <= Cardinality(Newer(q)')
        BY <1>4, <3>1, <3>2, <3>3
      <3>. QED  BY <3>4 DEF passed
    <2>. QED  BY <1>1, <2>1, <2>2 DEF PassedIsSeen, Commit
  <1>. QED  BY <1>1, <1>2, <1>3, <1>5 DEF PagesInv, CountIsLater, WalkIsComplete, Commit

LEMMA FetchStep == ASSUME PagesInv, FetchPage PROVE PagesInv'
  <1>1. PagesTypeOK /\ TimesDiffer /\ PassedIsSeen /\ CountIsLater /\ WalkIsComplete
    BY DEF PagesInv
  <1>2. PagesTypeOK'
    BY <1>1 DEF FetchPage, PagesTypeOK, Items
  <1>3. TimesDiffer'
    BY <1>1 DEF TimesDiffer, FetchPage, Made
  <1>4. ASSUME NEW r \in base, r \notin seen' PROVE r \in committed /\ page * PageSize <= Cardinality(Newer(r))
    <2>1. r \in committed /\ (page - 1) * PageSize <= Cardinality(Newer(r))
      BY <1>1, <1>4 DEF PassedIsSeen, FetchPage
    <2>2. r \notin Items
      BY <1>4 DEF FetchPage
    <2>3. page * PageSize \in Nat /\ Cardinality(Newer(r)) \in Nat
      BY <1>1, PagesAssumption, NewerIsFinite DEF PagesTypeOK
    <2>. QED  BY <2>1, <2>2, <2>3 DEF Items
  <1>5. \A r : Newer(r)' = Newer(r)
    BY DEF Newer, FetchPage
  <1>6. PassedIsSeen'
    BY <1>1, <1>4, <1>5 DEF PassedIsSeen, FetchPage
  <1>7. WalkIsComplete'
    <2>. SUFFICES ASSUME walk' = "short", NEW r \in base, r \notin seen' PROVE FALSE
      BY DEF WalkIsComplete, FetchPage
    <2>1. Cardinality(Items) < PageSize
      BY DEF FetchPage
    <2>2. PageSize <= Cardinality(Items)
      BY <1>4, FullPage
    <2>3. Cardinality(Items) \in Nat
      <3>1. Items \in SUBSET committed
        BY DEF Items
      <3>. QED  BY <3>1, NewerIsFinite, FS_Subset, FS_CardinalityType
    <2>. QED  BY <2>1, <2>2, <2>3, PagesAssumption
  <1>8. CountIsLater'
    BY <1>1 DEF CountIsLater, FetchPage
  <1>. QED  BY <1>2, <1>3, <1>6, <1>7, <1>8 DEF PagesInv

(* The steps of the walk that fetch nothing.                                *)
LEMMA WalkStep ==
  ASSUME PagesInv, StartWalk \/ CountRows \/ StopAtTotal \/ TurnPage
  PROVE  PagesInv'
  <1>1. PagesTypeOK /\ TimesDiffer /\ PassedIsSeen /\ CountIsLater /\ WalkIsComplete
    BY DEF PagesInv
  <1>. USE DEF StartWalk, CountRows, StopAtTotal, TurnPage
  <1>2. UNCHANGED <<created, committed>> /\ \A r : Newer(r)' = Newer(r)
    BY DEF Newer
  <1>3. Cardinality(committed) \in Nat /\ IsFiniteSet(committed)
    BY NewerIsFinite
  <1>4. PagesTypeOK'
    BY <1>1, <1>3 DEF PagesTypeOK
  <1>5. TimesDiffer'
    BY <1>1, <1>2 DEF TimesDiffer, Made
  <1>6. PassedIsSeen'
    <2>1. CASE StartWalk
      <3>1. (page' - 1) * PageSize = 0 /\ walk' = "count" /\ base' = committed'
        BY <1>1, <2>1, PagesAssumption DEF PassedIsSeen
      <3>2. \A r \in base' : 0 <= Cardinality(Newer(r)')
        BY <1>2, NewerIsFinite
      <3>. QED  BY <3>1, <3>2 DEF PassedIsSeen
    <2>2. CASE CountRows \/ StopAtTotal
      BY <1>1, <1>2, <2>2 DEF PassedIsSeen
    <2>3. CASE TurnPage
      BY <1>1, <1>2, <2>3 DEF PassedIsSeen, PagesTypeOK
    <2>. QED  BY <2>1, <2>2, <2>3
  <1>7. CountIsLater'
    BY <1>1, <1>3, FS_Subset, PagesAssumption DEF CountIsLater, PagesTypeOK, PassedIsSeen
  <1>8. WalkIsComplete'
    BY <1>1 DEF WalkIsComplete
  <1>. QED  BY <1>4, <1>5, <1>6, <1>7, <1>8 DEF PagesInv

LEMMA PagesStep == PagesInv /\ [PagesNext]_pagesVars => PagesInv'
  <1>. SUFFICES ASSUME PagesInv, [PagesNext]_pagesVars PROVE PagesInv'
    OBVIOUS
  <1>1. CASE UNCHANGED pagesVars
    BY <1>1 DEF pagesVars, PagesInv, PagesTypeOK, TimesDiffer, PassedIsSeen, CountIsLater,
       WalkIsComplete, Newer, Made
  <1>. QED  BY <1>1, InsertStep, CommitStep, FetchStep, WalkStep DEF PagesNext

LEMMA PagesInvariant == PagesSpec => []PagesInv
  BY PagesInit_Inv, PagesStep, PTL DEF PagesSpec

(* A walk down to the first short page has shown every transcript there was *)
(* when it began, for any page size, whatever is posted meanwhile and in    *)
(* whatever order it commits (list_all).                                    *)
THEOREM WalksAreComplete == PagesSpec => []WalkIsComplete
  <1>1. PagesInv => WalkIsComplete
    BY DEF PagesInv
  <1>. QED  BY <1>1, PagesInvariant, PTL

(* A walk that stops at its last count misses no more transcripts than were *)
(* committed since it began: what it missed has moved behind them, in ranks *)
(* that differ (list_all).                                                  *)
THEOREM CountsMissNoMore == PagesSpec => []CountedMissesNoMore
  <1>1. PagesInv => CountedMissesNoMore
    <2>. SUFFICES ASSUME PagesInv, walk \in {"short", "counted"}
                  PROVE  Cardinality(base \ seen) <= Cardinality(committed \ base)
      BY DEF CountedMissesNoMore
    <2>. DEFINE missed == base \ seen
                N == Cardinality(committed)
    <2>1. PagesTypeOK /\ PassedIsSeen /\ CountIsLater /\ WalkIsComplete
      BY DEF PagesInv
    <2>2. IsFiniteSet(committed) /\ N \in Nat /\ base \in SUBSET committed
      BY <2>1, NewerIsFinite DEF PassedIsSeen
    <2>3. IsFiniteSet(base) /\ Cardinality(base) \in Nat /\ Cardinality(base) <= N
      BY <2>2, FS_Subset, FS_CardinalityType
    <2>4. Cardinality(committed \ base) = N - Cardinality(base)
      <3>1. committed \cap base = base
        BY <2>2
      <3>. QED  BY <2>2, <3>1, FS_Difference
    <2>5. CASE walk = "short"
      <3>1. missed = {}
        BY <2>1, <2>5 DEF WalkIsComplete
      <3>2. Cardinality(missed) = 0
        BY <3>1, FS_EmptySet
      <3>. QED  BY <2>2, <2>3, <2>4, <3>2
    <2>6. CASE walk = "counted"
      <3>. DEFINE low == Cardinality(base)
                  rank == [r \in missed |-> Cardinality(Newer(r))]
      <3>1. low <= page * PageSize /\ page * PageSize \in Nat
        BY <2>1, <2>3, <2>6, PagesAssumption DEF CountIsLater, PagesTypeOK
      <3>2. \A r \in missed : r \in committed /\ page * PageSize <= Cardinality(Newer(r))
        BY <2>1, <2>2, <2>6 DEF PassedIsSeen
      <3>. HIDE DEF missed
      <3>3. rank \in [missed -> low .. N - 1]
        <4>. SUFFICES ASSUME NEW r \in missed PROVE Cardinality(Newer(r)) \in low .. N - 1
          OBVIOUS
        <4>. HIDE DEF low, N
        <4>1. Cardinality(Newer(r)) \in 0 .. N - 1
          BY <3>2, RankBound DEF N
        <4>2. low \in Nat
          BY <2>3 DEF low
        <4>. QED  BY <2>2, <3>1, <3>2, <4>1, <4>2
      <3>4. rank \in Injection(missed, low .. N - 1)
        BY <3>2, <3>3, RanksDiffer DEF Injection, IsInjective
      <3>5. low \in Int /\ N - 1 \in Int
        BY <2>2, <2>3
      <3>6. IsFiniteSet(low .. N - 1)
        BY <3>5, FS_Interval
      <3>7. Cardinality(missed) <= Cardinality(low .. N - 1)
        BY <3>4, <3>6, FS_Injection
      <3>8. Cardinality(low .. N - 1) = IF low > N - 1 THEN 0 ELSE N - 1 - low + 1
        BY <3>5, FS_Interval
      <3>9. Cardinality(low .. N - 1) = N - low
        <4>. HIDE DEF low, N
        <4>1. low \in Nat /\ N \in Nat /\ low <= N
          BY <2>2, <2>3 DEF low
        <4>. QED  BY <3>8, <4>1
      <3>. QED  BY <2>4, <3>7, <3>9 DEF missed
    <2>. QED  BY <2>5, <2>6
  <1>. QED  BY <1>1, PagesInvariant, PTL

-------------------------------------------------------------------------------
(* The start.                                                               *)

LEMMA StartStep_Inv ==
  StartTypeOK /\ PlaceInv /\ [StartNext]_startVars => StartTypeOK' /\ PlaceInv'
  <1>. SUFFICES ASSUME StartTypeOK, PlaceInv, [StartNext]_startVars
                PROVE  StartTypeOK' /\ PlaceInv'
    OBVIOUS
  <1>. USE StartAssumption DEF StartTypeOK, PlaceInv, TasksFindTheirPlace, Stages, Become
  <1>1. ASSUME NEW s \in Servers, Launch(s) PROVE StartTypeOK' /\ PlaceInv'
    BY <1>1 DEF Launch
  <1>2. ASSUME NEW s \in Servers, ReadVersion(s) PROVE StartTypeOK' /\ PlaceInv'
    BY <1>2 DEF ReadVersion
  <1>3. ASSUME NEW s \in Servers, Migrate(s) PROVE StartTypeOK' /\ PlaceInv'
    <2>1. schema => schema'
      BY <1>3 DEF Migrate
    <2>. QED  BY <1>3, <2>1 DEF Migrate
  <1>4. ASSUME NEW s \in Servers, HeadBucket(s) \/ HeadRefused(s) PROVE StartTypeOK' /\ PlaceInv'
    BY <1>4 DEF HeadBucket, HeadRefused
  <1>5. ASSUME NEW s \in Servers, CreateBucket(s) PROVE StartTypeOK' /\ PlaceInv'
    BY <1>5 DEF CreateBucket
  <1>6. ASSUME NEW s \in Servers, StartRefused(s) \/ Stop(s) \/ Restart(s)
        PROVE  StartTypeOK' /\ PlaceInv'
    <2>1. UNCHANGED <<schema, bucket, sawSchema, tasks>>
      BY <1>6 DEF StartRefused, Stop, Restart
    <2>2. PICK stage \in {"version", "exited"} : server' = [server EXCEPT ![s] = stage]
      BY <1>6 DEF StartRefused, Stop, Restart
    <2>3. restarts' \in 0 .. MaxRestarts
      BY <1>6 DEF StartRefused, Stop, Restart
    <2>4. faulty' \in BOOLEAN
      BY <1>6 DEF StartRefused, Stop, Restart
    <2>5. StartTypeOK'
      BY <2>1, <2>2, <2>3, <2>4
    <2>6. PlaceInv'
      BY <2>1, <2>2
    <2>. QED  BY <2>5, <2>6
  <1>7. ASSUME NEW s \in Servers, PostTask(s) PROVE StartTypeOK' /\ PlaceInv'
    BY <1>7 DEF PostTask
  <1>8. CASE TakeTask
    BY <1>8 DEF TakeTask
  <1>9. CASE UNCHANGED startVars
    BY <1>9 DEF startVars
  <1>. QED  BY <1>1, <1>2, <1>3, <1>4, <1>5, <1>6, <1>7, <1>8, <1>9 DEF StartNext, StartStep

LEMMA StartInvariant == StartSpec => [](StartTypeOK /\ PlaceInv)
  <1>1. StartInit => StartTypeOK /\ PlaceInv
    <2>. SUFFICES ASSUME StartInit PROVE StartTypeOK /\ PlaceInv
      OBVIOUS
    <2>1. 0 \in 0 .. MaxTasks /\ 0 \in 0 .. MaxRestarts
      BY StartAssumption
    <2>2. StartTypeOK
      BY <2>1 DEF StartInit, StartTypeOK, Stages
    <2>3. ~ (tasks > 0)
      BY DEF StartInit
    <2>. QED  BY <2>2, <2>3 DEF StartInit, PlaceInv, TasksFindTheirPlace
  <1>. QED  BY <1>1, StartStep_Inv, PTL DEF StartSpec

(* A worker never meets a missing table or bucket, for any number of        *)
(* servers, however they start, fail and stop (entrypoint.sh,               *)
(* ensure_bucket).                                                          *)
THEOREM WorkersFindTheirPlace == StartSpec => []TasksFindTheirPlace
  <1>1. PlaceInv => TasksFindTheirPlace
    BY DEF PlaceInv
  <1>. QED  BY <1>1, StartInvariant, PTL

-------------------------------------------------------------------------------
(* The form.                                                                *)

LEMMA FormInit_Inv == FormInit => FormTypeOK /\ NoLeakedTimer /\ BusyHasCause
  <1>. SUFFICES ASSUME FormInit PROVE FormTypeOK /\ NoLeakedTimer /\ BusyHasCause
    OBVIOUS
  <1>1. FormTypeOK
    BY FormAssumption DEF FormInit, FormTypeOK
  <1>. QED  BY <1>1 DEF FormInit, NoLeakedTimer, BusyHasCause

LEMMA FormStep_Types == FormTypeOK /\ [FormNext]_formVars => FormTypeOK'
  <1>. SUFFICES ASSUME FormTypeOK, [FormNext]_formVars PROVE FormTypeOK'
    OBVIOUS
  <1>. USE FormAssumption DEF FormTypeOK, Answers
  <1>1. ASSUME NEW t \in Submissions, Submit(t) \/ PostStep(t) PROVE FormTypeOK'
    BY <1>1 DEF Submit, PostStep, AnswerPost, StartPolling, PostRefused
  <1>2. ASSUME NEW t \in Submissions, Poll(t) \/ AnswerPoll(t) \/ Receive(t) PROVE FormTypeOK'
    BY <1>2 DEF Poll, AnswerPoll, Receive, ReceiveStatus
  <1>3. ASSUME NEW t \in Submissions, PostLost(t) PROVE FormTypeOK'
    BY <1>3 DEF PostLost
  <1>4. ASSUME NEW t \in Submissions, AnswerPollError(t) \/ LoseStatus(t) PROVE FormTypeOK'
    BY <1>4 DEF AnswerPollError, LoseStatus
  <1>5. ASSUME NEW t \in Submissions, FinishJob(t) \/ ReopenJob(t) PROVE FormTypeOK'
    BY <1>5 DEF FinishJob, ReopenJob
  <1>6. CASE UNCHANGED formVars
    BY <1>6 DEF formVars
  <1>. QED  BY <1>1, <1>2, <1>3, <1>4, <1>5, <1>6 DEF FormNext

(* Timers change when a POST succeeds, which clears the interval that there *)
(* is, and when a final status arrives, which clears it too.                *)
LEMMA FormStep_Timers == NoLeakedTimer /\ [FormNext]_formVars => NoLeakedTimer'
  <1>. SUFFICES ASSUME NoLeakedTimer, [FormNext]_formVars PROVE NoLeakedTimer'
    OBVIOUS
  <1>1. ASSUME UNCHANGED <<timers, current>> PROVE NoLeakedTimer'
    BY <1>1 DEF NoLeakedTimer
  <1>2. ASSUME NEW t \in Submissions, StartPolling(t) \/ Receive(t) PROVE NoLeakedTimer'
    BY <1>2 DEF NoLeakedTimer, StartPolling, Receive, ReceiveStatus
  <1>. QED
    BY <1>1, <1>2 DEF FormNext, formVars, Submit, PostStep, AnswerPost, PostRefused, FinishJob, ReopenJob,
       Poll, AnswerPoll, PostLost, AnswerPollError, LoseStatus

(* The button is enabled by the very steps that end a POST or the polling.  *)
LEMMA FormStep_Busy ==
  FormTypeOK /\ NoLeakedTimer /\ BusyHasCause /\ [FormNext]_formVars => BusyHasCause'
  <1>. SUFFICES ASSUME FormTypeOK, NoLeakedTimer, BusyHasCause, [FormNext]_formVars, button' = "busy"
                PROVE  timers' # {} \/ \E t \in Submissions : post'[t] \in {"sent", "created", "refused"}
    BY DEF BusyHasCause
  <1>. USE DEF FormTypeOK
  <1>1. ASSUME UNCHANGED <<timers, post, button>>
        PROVE  timers' # {} \/ \E t \in Submissions : post'[t] \in {"sent", "created", "refused"}
    BY <1>1 DEF BusyHasCause
  <1>2. ASSUME NEW t \in Submissions, Submit(t) PROVE post'[t] = "sent"
    BY <1>2 DEF Submit
  <1>3. ASSUME NEW t \in Submissions, AnswerPost(t) PROVE post'[t] \in {"created", "refused"}
    BY <1>3 DEF AnswerPost
  <1>4. ASSUME NEW t \in Submissions, StartPolling(t) PROVE timers' # {}
    BY <1>4 DEF StartPolling
  <1>5. ASSUME NEW t \in Submissions, PostRefused(t) \/ PostLost(t) PROVE FALSE
    BY <1>5 DEF PostRefused, PostLost
  <1>6. ASSUME NEW t \in Submissions, Receive(t) PROVE UNCHANGED <<timers, post, button>>
    BY <1>6 DEF Receive, ReceiveStatus
  <1>. QED
    BY <1>1, <1>2, <1>3, <1>4, <1>5, <1>6 DEF FormNext, formVars, PostStep, FinishJob, ReopenJob, Poll,
       AnswerPoll, AnswerPollError, LoseStatus

LEMMA FormInvariant == FormSpec => [](FormTypeOK /\ NoLeakedTimer /\ BusyHasCause)
  BY FormInit_Inv, FormStep_Types, FormStep_Timers, FormStep_Busy, PTL DEF FormSpec

(* At most one interval polls, and it is the one the page can clear, for any*)
(* number of submissions and any order of answers (pollStatus).             *)
THEOREM TimersDoNotLeak == FormSpec => []NoLeakedTimer
  BY FormInvariant, PTL

(* A disabled button always has a POST or an interval that will enable it:  *)
(* no order of answers leaves it to nobody (submitTranscript, pollStatus).  *)
THEOREM DisabledForACause == FormSpec => []BusyHasCause
  BY FormInvariant, PTL

-------------------------------------------------------------------------------
(* The list.                                                                *)

(* ListTypeOK has two parts: the data, and the interval with its handle.    *)
DataTypeOK ==
    /\ row \in [Posted -> {"absent", "active", "completed", "failed"}]
    /\ lists \subseteq {"waiting"} \cup Lists
    /\ listed \in {"loading", "error"} \cup Lists
    /\ retrying \in BOOLEAN
    /\ loads \in 0 .. MaxLoads /\ missing \in 0 .. MaxMissing

HandleFits == listTimer \in BOOLEAN /\ listHandle = listTimer

LEMMA ListTypeParts == ListTypeOK <=> DataTypeOK /\ HandleFits
  BY Zenon DEF ListTypeOK, DataTypeOK, HandleFits

LEMMA ListInit_Types == ListInit => DataTypeOK /\ HandleFits
  <1>. SUFFICES ASSUME ListInit PROVE DataTypeOK /\ HandleFits
    OBVIOUS
  <1>1. row = [t \in Posted |-> "absent"] /\ lists = {"waiting"} /\ listed = "loading"
    BY DEF ListInit
  <1>2. loads = 0 /\ missing = 0 /\ retrying \in BOOLEAN
    BY DEF ListInit
  <1>3. HandleFits
    BY DEF ListInit, HandleFits
  <1>. QED  BY <1>1, <1>2, <1>3, ListAssumption DEF DataTypeOK

LEMMA ListStep_Data == DataTypeOK /\ [ListNext]_listVars => DataTypeOK'
  <1>. SUFFICES ASSUME DataTypeOK, [ListNext]_listVars PROVE DataTypeOK'
    OBVIOUS
  <1>. USE ListAssumption DEF DataTypeOK
  <1>1. ASSUME NEW t \in Posted, PostRow(t) PROVE DataTypeOK'
    BY <1>1 DEF PostRow
  <1>2. ASSUME NEW t \in Posted, EndRow(t) PROVE DataTypeOK'
    BY <1>2 DEF EndRow
  <1>3. ASSUME NEW t \in Posted, ClickRetry(t) PROVE DataTypeOK'
    <2>1. loads' \in 0 .. MaxLoads
      BY <1>3 DEF ClickRetry
    <2>2. retrying' \in BOOLEAN
      BY <1>3 DEF ClickRetry
    <2>. QED  BY <1>3, <2>1, <2>2 DEF ClickRetry
  <1>4. ASSUME NEW answer \in Lists, ReceiveList(answer) PROVE DataTypeOK'
    BY <1>4 DEF ReceiveList
  <1>5. CASE AnswerList
    BY <1>5 DEF AnswerList, Snapshot, Lists
  <1>6. CASE ReloadList \/ RefreshList
    <2>1. loads' \in 0 .. MaxLoads
      BY <1>6 DEF ReloadList, RefreshList
    <2>2. lists' \subseteq {"waiting"} \cup Lists
      BY <1>6 DEF ReloadList, RefreshList, LoadTranscripts
    <2>3. UNCHANGED <<row, listed, retrying, missing>>
      BY <1>6 DEF ReloadList, RefreshList
    <2>. QED  BY <2>1, <2>2, <2>3
  <1>7. CASE LoseList
    BY <1>7 DEF LoseList
  <1>8. CASE ReceiveRetry \/ LoseRetry
    <2>1. retrying' \in BOOLEAN
      BY <1>8 DEF ReceiveRetry, LoseRetry
    <2>2. missing' \in 0 .. MaxMissing
      BY <1>8 DEF ReceiveRetry, LoseRetry
    <2>3. lists' \subseteq {"waiting"} \cup Lists /\ UNCHANGED <<row, listed, loads>>
      BY <1>8 DEF ReceiveRetry, LoseRetry, LoadTranscripts
    <2>. QED  BY <2>1, <2>2, <2>3
  <1>9. CASE UNCHANGED listVars
    BY <1>9 DEF listVars
  <1>10. ASSUME NEW t \in Posted, ReopenRow(t) PROVE DataTypeOK'
    BY <1>10 DEF ReopenRow
  <1>11. CASE AnswerListError
    <2>1. missing' \in 0 .. MaxMissing
      BY <1>11 DEF AnswerListError
    <2>2. lists' \subseteq {"waiting"} \cup Lists /\ UNCHANGED <<row, listed, retrying, loads>>
      BY <1>11 DEF AnswerListError, Lists
    <2>. QED  BY <2>1, <2>2
  <1>. QED  BY <1>1, <1>2, <1>3, <1>4, <1>5, <1>6, <1>7, <1>8, <1>9, <1>10, <1>11
          DEF ListNext

(* The interval and its handle come and go together.                        *)
LEMMA ListStep_Handle == HandleFits /\ [ListNext]_listVars => HandleFits'
  <1>. SUFFICES ASSUME HandleFits, [ListNext]_listVars PROVE HandleFits'
    OBVIOUS
  <1>1. CASE UNCHANGED <<listTimer, listHandle>>
    BY <1>1 DEF HandleFits
  <1>2. ASSUME NEW answer \in Lists, ReceiveList(answer) PROVE HandleFits'
    <2>1. CASE answer = "none"
      BY <1>1, <1>2, <2>1 DEF ReceiveList
    <2>2. CASE answer = "active"
      <3>1. listTimer' = (listTimer \/ ~listHandle) /\ listHandle' = TRUE
        BY <1>2, <2>2 DEF ReceiveList
      <3>. QED  BY <3>1, Zenon DEF HandleFits
    <2>3. CASE answer = "quiet"
      BY <1>2, <2>3 DEF ReceiveList, HandleFits
    <2>. QED  BY <1>2, <2>1, <2>2, <2>3 DEF Lists
  <1>. QED
    BY <1>1, <1>2 DEF ListNext, listVars, PostRow, EndRow, ReopenRow, ClickRetry, AnswerList,
       AnswerListError, ReloadList, RefreshList, LoseList, ReceiveRetry, LoseRetry

(* The script holds a handle to the interval exactly while there is one, so *)
(* that no second one starts beside it, and the other variables keep to     *)
(* their types, for any number of transcripts, reloads, retries and lost    *)
(* answers (loadTranscripts: transcriptsPollInterval).                      *)
THEOREM ListTypeCorrect == ListSpec => []ListTypeOK
  BY ListInit_Types, ListStep_Data, ListStep_Handle, ListTypeParts, PTL DEF ListSpec
===============================================================================
