---------------------------- MODULE ExtractionProofs ----------------------------
(***************************************************************************)
(* Proofs about an extraction: what validation makes of lists of any       *)
(* length, whatever entries they repeat, and how a call may end.           *)
(***************************************************************************)
EXTENDS LlmExtraction, LoopTheorems, SequenceTheorems

-------------------------------------------------------------------------------
(* Which entries the iterator comes to.                                     *)

LEMMA ExaminedValue ==
  ASSUME NEW entries \in Seq(Mentions)
  PROVE  \A i \in 1 .. Len(entries) :
            Examined(entries)[i] <=>
                i = 1 \/ ~(Examined(entries)[i - 1] /\ entries[i - 1] \in Nameless)
  <1>. DEFINE N == Len(entries)
              Skips(f, i) == i = 1 \/ ~(f[i - 1] /\ entries[i - 1] \in Nameless)
              IsSeen(f) == f = [i \in 1 .. N |-> Skips(f, i)]
              seen == CHOOSE f : IsSeen(f)
  <1>1. N \in Nat /\ DOMAIN entries = 1 .. N
    BY LenProperties
  <1>. HIDE DEF N
  <1>2. \E f : IsSeen(f)
    <2>. DEFINE V == BOOLEAN
                start == FALSE
                body == [x \in (1 .. N) \X V |-> x[1] = 1 \/ ~(x[2] /\ entries[x[1] - 1] \in Nameless)]
    <2>1. body \in Bodies(N, V) /\ start \in V
      BY DEF Bodies
    <2>2. PICK g : IsRun(g, N, V, start, body)
      <3>. HIDE DEF V, start, body
      <3>. QED  BY <1>1, <2>1, LoopFunction
    <2>. DEFINE f == [i \in 1 .. N |-> g[i]]
    <2>3. ASSUME NEW i \in 1 .. N PROVE g[i] = Skips(g, i)
      <3>1. <<i, g[i - 1]>> \in (1 .. N) \X V
        BY <1>1, <2>2 DEF IsRun
      <3>2. g[i] = body[<<i, g[i - 1]>>]
        BY <2>2 DEF IsRun
      <3>3. body[<<i, g[i - 1]>>] = Skips(g, i)
        BY <3>1
      <3>. QED  BY <3>2, <3>3
    <2>4. ASSUME NEW i \in 1 .. N PROVE f[i] = Skips(f, i)
      <3>1. CASE i = 1
        BY <2>3, <3>1
      <3>2. CASE i # 1
        <4>1. i - 1 \in 1 .. N
          BY <1>1, <3>2
        <4>. QED  BY <2>3, <4>1
      <3>. QED  BY <3>1, <3>2
    <2>5. IsSeen(f)
      BY <2>4
    <2>. HIDE DEF IsSeen
    <2>. QED  BY <2>5
  <1>3. IsSeen(seen)
    <2>. HIDE DEF IsSeen
    <2>. QED  BY <1>2
  <1>4. Examined(entries) = seen
    BY <1>1 DEF Examined
  <1>. HIDE DEF seen
  <1>5. \A i \in 1 .. N : seen[i] = Skips(seen, i)
    BY <1>3
  <1>. QED  BY <1>4, <1>5 DEF N

-------------------------------------------------------------------------------
(* list.remove.                                                             *)

LEMMA RemoveFirstValue ==
  ASSUME NEW S, NEW s \in Seq(S), NEW n \in 1 .. Len(s)
  PROVE  \E q \in 1 .. n :
            /\ s[q] = s[n]
            /\ RemoveFirst(s, s[n]) \in Seq(S)
            /\ Len(RemoveFirst(s, s[n])) = Len(s) - 1
            /\ \A i \in 1 .. Len(s) - 1 : RemoveFirst(s, s[n])[i] = IF i < q THEN s[i] ELSE s[i + 1]
  <1>. DEFINE M == Len(s)
              I == { i \in 1 .. M : s[i] = s[n] }
              q == Min(I)
  <1>1. M \in Nat /\ n \in 1 .. M /\ n \in I /\ I \in SUBSET Nat
    BY LenProperties
  <1>2. q \in I /\ \A i \in I : q <= i
    <2>. HIDE DEF I
    <2>1. \E i \in I : \A j \in I : i <= j
      BY <1>1, LeastOfSet
    <2>. QED  BY <2>1 DEF Min
  <1>3. q \in 1 .. n /\ s[q] = s[n]
    BY <1>1, <1>2
  <1>4. RemoveFirst(s, s[n]) = RemoveAt(s, q)
    BY <1>1 DEF RemoveFirst, SelectInSeq
  <1>. HIDE DEF q, M
  <1>5. RemoveAt(s, q) = SubSeq(s, 1, q - 1) \o SubSeq(s, q + 1, M)
    BY DEF RemoveAt, M
  <1>6. \A i \in 1 .. M : s[i] \in S
    BY ElementOfSeq DEF M
  <1>7. /\ SubSeq(s, 1, q - 1) \in Seq(S)
        /\ Len(SubSeq(s, 1, q - 1)) = q - 1
        /\ \A i \in 1 .. q - 1 : SubSeq(s, 1, q - 1)[i] = s[i]
    <2>1. \A i \in 1 .. q - 1 : s[i] \in S
      BY <1>1, <1>3, <1>6
    <2>2. /\ SubSeq(s, 1, q - 1) \in Seq(S)
          /\ Len(SubSeq(s, 1, q - 1)) = IF 1 <= q - 1 THEN q - 1 - 1 + 1 ELSE 0
          /\ \A i \in 1 .. q - 1 - 1 + 1 : SubSeq(s, 1, q - 1)[i] = s[1 + i - 1]
      BY <1>1, <1>3, <2>1, SubSeqProperties
    <2>. QED  BY <1>1, <1>3, <2>2
  <1>8. /\ SubSeq(s, q + 1, M) \in Seq(S)
        /\ Len(SubSeq(s, q + 1, M)) = M - q
        /\ \A i \in 1 .. M - q : SubSeq(s, q + 1, M)[i] = s[q + i]
    <2>1. \A i \in q + 1 .. M : s[i] \in S
      BY <1>1, <1>3, <1>6
    <2>2. /\ SubSeq(s, q + 1, M) \in Seq(S)
          /\ Len(SubSeq(s, q + 1, M)) = IF q + 1 <= M THEN M - (q + 1) + 1 ELSE 0
          /\ \A i \in 1 .. M - (q + 1) + 1 : SubSeq(s, q + 1, M)[i] = s[q + 1 + i - 1]
      BY <1>1, <1>3, <2>1, SubSeqProperties
    <2>. QED  BY <1>1, <1>3, <2>2
  <1>. DEFINE front == SubSeq(s, 1, q - 1)
              back == SubSeq(s, q + 1, M)
  <1>9. /\ front \o back \in Seq(S)
        /\ Len(front \o back) = Len(front) + Len(back)
        /\ \A i \in 1 .. Len(front) + Len(back) :
              (front \o back)[i] = IF i <= Len(front) THEN front[i] ELSE back[i - Len(front)]
    BY <1>7, <1>8, ConcatProperties
  <1>. HIDE DEF front, back
  <1>10. Len(front) = q - 1 /\ Len(back) = M - q /\ Len(front) + Len(back) = M - 1
    BY <1>1, <1>3, <1>7, <1>8 DEF front, back
  <1>11. ASSUME NEW i \in 1 .. M - 1
         PROVE  (front \o back)[i] = IF i < q THEN s[i] ELSE s[i + 1]
    <2>1. CASE i < q
      <3>1. i \in 1 .. q - 1
        BY <1>1, <1>3, <2>1
      <3>. QED  BY <1>7, <1>9, <1>10, <2>1, <3>1 DEF front
    <2>2. CASE ~(i < q)
      <3>1. i - (q - 1) \in 1 .. M - q /\ q + (i - (q - 1)) = i + 1 /\ ~(i <= q - 1)
        BY <1>1, <1>3, <2>2
      <3>. QED  BY <1>8, <1>9, <1>10, <2>2, <3>1 DEF back
    <2>. QED  BY <2>1, <2>2
  <1>. QED  BY <1>3, <1>4, <1>5, <1>9, <1>10, <1>11 DEF front, back, M

-------------------------------------------------------------------------------
(* One turn of a loop of _validate_extraction, for lists of any length.     *)

Removed(entries, items) == Len(entries) - Len(items)

ExaminedNameless(entries, reach) ==
    { i \in DOMAIN entries : i < reach /\ entries[i] \in Nameless /\ Examined(entries)[i] }

(* Where the iterator stands.                                               *)
LEMMA IteratorPoints ==
  ASSUME NEW entries \in Seq(Mentions), NEW items \in Seq(ListItems), NEW n \in Nat \ {0},
         Iterated(entries, items, n)
  PROVE  /\ Removed(entries, items) \in Nat
         /\ Len(entries) \in Nat /\ DOMAIN entries = 1 .. Len(entries)
         /\ Len(items) \in Nat /\ DOMAIN items = 1 .. Len(items)
         /\ Len(entries) = Len(items) + Removed(entries, items)
         /\ \A r : IsFiniteSet(ExaminedNameless(entries, r))
         /\ Removed(entries, items) =
                Cardinality(ExaminedNameless(entries, n + Removed(entries, items)))
         /\ n \in DOMAIN items =>
               LET reach == n + Removed(entries, items) IN
               /\ reach \in DOMAIN entries
               /\ Examined(entries)[reach]
               /\ items[n] = [entry |-> entries[reach], cut |-> FALSE]
  <1>1. /\ Len(entries) \in Nat /\ DOMAIN entries = 1 .. Len(entries)
        /\ Len(items) \in Nat /\ DOMAIN items = 1 .. Len(items)
    BY LenProperties
  <1>. DEFINE removed == Removed(entries, items)
              reach == n + removed
  <1>2. ASSUME NEW r PROVE IsFiniteSet(ExaminedNameless(entries, r))
    <2>1. IsFiniteSet(1 .. Len(entries))
      BY <1>1, FS_Interval
    <2>2. ExaminedNameless(entries, r) \subseteq 1 .. Len(entries)
      BY <1>1 DEF ExaminedNameless
    <2>. QED  BY <2>1, <2>2, FS_Subset
  <1>3. removed = Cardinality(ExaminedNameless(entries, reach))
    BY DEF Iterated, Removed, ExaminedNameless
  <1>4. removed \in Nat
    <2>1. Cardinality(ExaminedNameless(entries, reach)) \in Nat
      <3>1. IsFiniteSet(ExaminedNameless(entries, reach))
        BY <1>2
      <3>. QED  BY <3>1, FS_CardinalityType
    <2>. QED  BY <1>3, <2>1
  <1>5. Len(entries) = Len(items) + removed
    BY <1>1 DEF Removed
  <1>6. ASSUME n \in DOMAIN items
        PROVE  reach \in DOMAIN entries /\ reach >= reach /\ reach - removed = n
    BY <1>1, <1>4, <1>5, <1>6
  <1>7. ASSUME n \in DOMAIN items
        PROVE  Examined(entries)[reach] /\ items[n] = [entry |-> entries[reach], cut |-> FALSE]
    BY <1>6, <1>7 DEF Iterated, Removed
  <1>. QED  BY <1>1, <1>2, <1>3, <1>4, <1>5, <1>6, <1>7

(* An entry that has a name stays.                                          *)
LEMMA ExamineNamed ==
  ASSUME NEW entries \in Seq(Mentions), NEW items \in Seq(ListItems), NEW n \in DOMAIN items,
         Iterated(entries, items, n), items[n].entry \notin Nameless
  PROVE  LET done == [items EXCEPT ![n].cut = items[n].entry \in LongSlugs]
         IN  done \in Seq(ListItems) /\ Iterated(entries, done, n + 1)
  <1>. DEFINE done == [items EXCEPT ![n].cut = items[n].entry \in LongSlugs]
              removed == Removed(entries, items)
              reach == n + removed
              E == Examined(entries)
              Named == NamedPositions(entries)
  <1>1. /\ removed \in Nat /\ Len(entries) \in Nat /\ DOMAIN entries = 1 .. Len(entries)
        /\ Len(items) \in Nat /\ DOMAIN items = 1 .. Len(items)
        /\ Len(entries) = Len(items) + removed
        /\ n \in Nat \ {0} /\ n \in 1 .. Len(items)
        /\ removed = Cardinality(ExaminedNameless(entries, reach))
        /\ reach \in DOMAIN entries /\ E[reach]
        /\ items[n] = [entry |-> entries[reach], cut |-> FALSE]
    <2>1. n \in Nat \ {0} /\ n \in 1 .. Len(items)
      BY LenProperties
    <2>. QED  BY <2>1, IteratorPoints
  <1>2. entries[reach] \notin Nameless /\ reach \in Named
    BY <1>1 DEF NamedPositions
  <1>3. /\ done \in Seq(ListItems)
        /\ Len(done) = Len(items) /\ DOMAIN done = DOMAIN items
        /\ \A p \in DOMAIN items : p # n => done[p] = items[p]
        /\ done[n] = [entry |-> entries[reach], cut |-> entries[reach] \in LongSlugs]
        /\ \A p \in DOMAIN items : done[p].entry = items[p].entry
    <2>1. done = [items EXCEPT ![n] = [entry |-> entries[reach], cut |-> entries[reach] \in LongSlugs]]
      <3>1. done = [items EXCEPT ![n] = [items[n] EXCEPT !.cut = items[n].entry \in LongSlugs]]
        OBVIOUS
      <3>. HIDE DEF done, reach
      <3>2. items[n].entry = entries[reach]
        BY <1>1
      <3>3. [items[n] EXCEPT !.cut = items[n].entry \in LongSlugs]
              = [entry |-> entries[reach], cut |-> entries[reach] \in LongSlugs]
        BY <1>1, <3>2
      <3>. QED  BY <3>1, <3>3
    <2>2. [entry |-> entries[reach], cut |-> entries[reach] \in LongSlugs] \in ListItems
      BY <1>1, ElementOfSeq DEF ListItems
    <2>3. done \in Seq(ListItems) /\ Len(done) = Len(items)
      BY <1>1, <2>1, <2>2, ExceptSeq
    <2>. HIDE DEF done
    <2>4. /\ \A p \in DOMAIN items : p # n => done[p] = items[p]
          /\ done[n] = [entry |-> entries[reach], cut |-> entries[reach] \in LongSlugs]
          /\ DOMAIN done = DOMAIN items
      BY <1>1, <2>1
    <2>5. \A p \in DOMAIN items : done[p].entry = items[p].entry
      BY <1>1, <2>4
    <2>. QED  BY <2>3, <2>4, <2>5
  <1>. HIDE DEF done
  <1>4. Removed(entries, done) = removed
    BY <1>3 DEF Removed
  <1>. DEFINE reach2 == n + 1 + removed
  <1>5. reach2 = reach + 1
    BY <1>1
  <1>6. reach2 \in DOMAIN entries => E[reach2]
    <2>. SUFFICES ASSUME reach2 \in DOMAIN entries PROVE E[reach2]
      OBVIOUS
    <2>1. reach2 - 1 = reach /\ reach2 \in 1 .. Len(entries)
      BY <1>1, <1>5
    <2>. HIDE DEF reach, reach2
    <2>. QED  BY <1>2, <2>1, ExaminedValue
  <1>7. ExaminedNameless(entries, reach2) = ExaminedNameless(entries, reach)
    <2>1. ASSUME NEW i \in DOMAIN entries, entries[i] \in Nameless PROVE i < reach2 <=> i < reach
      <3>1. i # reach
        BY <1>2, <2>1
      <3>. QED  BY <1>1, <1>5, <3>1
    <2>. HIDE DEF reach, reach2
    <2>. QED  BY <2>1 DEF ExaminedNameless
  <1>8. ASSUME NEW i \in DOMAIN entries, i >= reach2
        PROVE  done[i - removed] = [entry |-> entries[i], cut |-> FALSE]
    <2>1. i - removed \in DOMAIN items /\ i - removed # n /\ i >= reach
      BY <1>1, <1>8
    <2>2. items[i - removed] = [entry |-> entries[i], cut |-> FALSE]
      BY <2>1 DEF Iterated, Removed
    <2>. QED  BY <1>3, <2>1, <2>2
  <1>9. PICK place \in [Named -> DOMAIN items] :
              /\ KeepsNamed(place, entries, items, reach)
              /\ \A i \in Named : IF i < reach THEN place[i] < n ELSE place[i] = i - removed
    BY DEF Iterated, Removed
  <1>10. ASSUME NEW i \in Named
         PROVE  IF i < reach2 THEN place[i] < n + 1 ELSE place[i] = i - removed
    <2>1. i \in Nat /\ place[i] \in Nat
      BY <1>1 DEF NamedPositions
    <2>. QED  BY <1>1, <1>9, <2>1
  <1>11. ASSUME NEW i \in Named PROVE done[place[i]] = Validated(entries, i, reach2)
    <2>1. i \in Nat /\ i \in DOMAIN entries /\ place[i] \in DOMAIN items
      BY <1>1 DEF NamedPositions
    <2>2. items[place[i]] = Validated(entries, i, reach)
      BY <1>9 DEF KeepsNamed
    <2>3. CASE i = reach
      <3>1. place[i] = n /\ i < reach2
        BY <1>1, <1>9, <2>3
      <3>2. Validated(entries, i, reach2) = [entry |-> entries[i], cut |-> entries[i] \in LongSlugs]
        BY <1>1, <2>3, <3>1 DEF Validated
      <3>. QED  BY <1>3, <2>3, <3>1, <3>2
    <2>4. CASE i # reach
      <3>1. (i < reach2 <=> i < reach) /\ place[i] # n
        BY <1>1, <1>9, <2>1, <2>4
      <3>2. Validated(entries, i, reach2) = Validated(entries, i, reach)
        BY <3>1 DEF Validated
      <3>. QED  BY <1>3, <2>1, <2>2, <3>1, <3>2
    <2>. QED  BY <2>3, <2>4
  <1>12. KeepsNamed(place, entries, done, reach2)
    <2>. HIDE DEF reach, reach2
    <2>. QED  BY <1>3, <1>9, <1>11 DEF KeepsNamed
  <1>13. \E q \in [Named -> DOMAIN done] :
            /\ KeepsNamed(q, entries, done, reach2)
            /\ \A i \in Named : IF i < reach2 THEN q[i] < n + 1 ELSE q[i] = i - removed
    BY <1>3, <1>10, <1>12
  <1>14. removed = Cardinality(ExaminedNameless(entries, reach2))
    BY <1>1, <1>7
  <1>15. Iterated(entries, done, n + 1)
    <2>1. Len(entries) - Len(done) = removed
      BY <1>4 DEF Removed
    <2>. HIDE DEF removed, reach
    <2>. QED  BY <1>6, <1>8, <1>13, <1>14, <2>1 DEF Iterated, ExaminedNameless
  <1>. QED  BY <1>3, <1>15 DEF done

(* A nameless one, or the first that equals it, is taken out: what follows  *)
(* moves up, and the iterator passes over the next.                         *)
LEMMA ExamineNameless ==
  ASSUME NEW entries \in Seq(Mentions), NEW items \in Seq(ListItems), NEW n \in DOMAIN items,
         Iterated(entries, items, n), items[n].entry \in Nameless
  PROVE  LET rest == RemoveFirst(items, items[n])
         IN  rest \in Seq(ListItems) /\ Iterated(entries, rest, n + 1)
  <1>. DEFINE rest == RemoveFirst(items, items[n])
              removed == Removed(entries, items)
              reach == n + removed
              E == Examined(entries)
              Named == NamedPositions(entries)
  <1>1. /\ removed \in Nat /\ Len(entries) \in Nat /\ DOMAIN entries = 1 .. Len(entries)
        /\ Len(items) \in Nat /\ DOMAIN items = 1 .. Len(items)
        /\ Len(entries) = Len(items) + removed
        /\ n \in Nat \ {0} /\ n \in 1 .. Len(items)
        /\ removed = Cardinality(ExaminedNameless(entries, reach))
        /\ IsFiniteSet(ExaminedNameless(entries, reach))
        /\ reach \in DOMAIN entries /\ E[reach]
        /\ items[n] = [entry |-> entries[reach], cut |-> FALSE]
    <2>1. n \in Nat \ {0} /\ n \in 1 .. Len(items)
      BY LenProperties
    <2>. QED  BY <2>1, IteratorPoints
  <1>2. entries[reach] \in Nameless /\ reach \notin Named
    BY <1>1 DEF NamedPositions
  <1>3. PICK q \in 1 .. n :
              /\ items[q] = items[n]
              /\ rest \in Seq(ListItems)
              /\ Len(rest) = Len(items) - 1
              /\ \A p \in 1 .. Len(items) - 1 : rest[p] = IF p < q THEN items[p] ELSE items[p + 1]
    <2>. HIDE DEF removed, reach, E, Named
    <2>1. n \in 1 .. Len(items)
      BY <1>1
    <2>. QED  BY <2>1, RemoveFirstValue
  <1>. HIDE DEF rest
  <1>4. DOMAIN rest = 1 .. Len(items) - 1 /\ q \in Nat /\ q <= n
    BY <1>1, <1>3, LenProperties
  <1>. DEFINE removed2 == Removed(entries, rest)
              reach2 == n + 1 + removed2
  <1>5. removed2 = removed + 1 /\ reach2 = reach + 2
    BY <1>1, <1>3 DEF Removed
  <1>20. reach \in Nat /\ reach2 \in Nat /\ reach2 = reach + 2
    BY <1>1, <1>5
  <1>21. /\ removed \in Nat /\ removed2 \in Nat /\ n \in Nat
         /\ removed2 = removed + 1 /\ reach = n + removed
    BY <1>1, <1>5
  <1>22. q \in Nat /\ Len(items) \in Nat /\ 1 <= q /\ q <= n /\ n <= Len(items)
    BY <1>1, <1>4
  <1>23. Len(entries) \in Nat /\ Len(entries) = Len(items) + removed
    BY <1>1
  <1>. HIDE DEF removed, removed2, reach, reach2
  <1>6. reach + 1 \in DOMAIN entries => ~E[reach + 1]
    <2>. SUFFICES ASSUME reach + 1 \in DOMAIN entries PROVE ~E[reach + 1]
      OBVIOUS
    <2>1. reach + 1 - 1 = reach /\ reach + 1 # 1 /\ reach + 1 \in 1 .. Len(entries)
      <3>1. reach \in 1 .. Len(entries) /\ reach + 1 \in 1 .. Len(entries)
        BY <1>1
      <3>. QED  BY <3>1
    <2>. QED  BY <1>1, <1>2, <2>1, ExaminedValue
  <1>7. reach2 \in DOMAIN entries => E[reach2]
    <2>. SUFFICES ASSUME reach2 \in DOMAIN entries PROVE E[reach2]
      OBVIOUS
    <2>1. reach2 - 1 = reach + 1 /\ reach + 1 \in DOMAIN entries /\ reach2 \in 1 .. Len(entries)
      <3>1. reach2 \in 1 .. Len(entries)
        BY <1>1
      <3>2. reach + 1 \in 1 .. Len(entries)
        BY <1>1, <1>20, <3>1
      <3>. QED  BY <1>1, <1>20, <3>1, <3>2
    <2>. QED  BY <1>6, <2>1, ExaminedValue
  <1>8. removed2 = Cardinality(ExaminedNameless(entries, reach2))
    <2>1. ASSUME NEW i \in DOMAIN entries
          PROVE  i < reach2 <=> i < reach \/ i = reach \/ i = reach + 1
      <3>1. i \in Nat
        BY <1>1
      <3>. QED  BY <1>20, <3>1
    <2>2. reach \notin ExaminedNameless(entries, reach)
      BY <1>20 DEF ExaminedNameless
    <2>3. ExaminedNameless(entries, reach2) = ExaminedNameless(entries, reach) \cup {reach}
      <3>. DEFINE r == reach
                  s == reach + 1
      <3>1. r \in DOMAIN entries /\ entries[r] \in Nameless /\ E[r] /\ (s \in DOMAIN entries => ~E[s])
        BY <1>1, <1>2, <1>6
      <3>2. \A i \in DOMAIN entries : i < reach2 <=> i < r \/ i = r \/ i = s
        BY <2>1
      <3>. HIDE DEF r, s
      <3>3. ExaminedNameless(entries, reach2) = ExaminedNameless(entries, r) \cup {r}
        BY <3>1, <3>2 DEF ExaminedNameless
      <3>. QED  BY <3>3 DEF r
    <2>4. Cardinality(ExaminedNameless(entries, reach) \cup {reach})
            = Cardinality(ExaminedNameless(entries, reach)) + 1
      BY <1>1, <2>2, FS_AddElement
    <2>. QED  BY <1>1, <1>5, <2>3, <2>4
  <1>9. ASSUME NEW i \in DOMAIN entries, i >= reach2
        PROVE  rest[i - removed2] = [entry |-> entries[i], cut |-> FALSE]
    <2>1. /\ i - removed2 \in 1 .. Len(items) - 1 /\ ~(i - removed2 < q)
          /\ i - removed2 + 1 = i - removed /\ i >= reach
      <3>1. i \in Nat /\ i <= Len(entries)
        BY <1>1
      <3>2. i >= n + removed + 2
        BY <1>9, <1>20, <1>21
      <3>3. i >= reach
        BY <1>9, <1>20, <3>1
      <3>. DEFINE k == i - removed2
      <3>4. k \in Int /\ k >= n + 1 /\ k + 1 = i - removed
        BY <1>21, <3>1, <3>2
      <3>5. i - removed <= Len(items)
        BY <1>21, <1>22, <1>23, <3>1
      <3>. HIDE DEF k
      <3>6. k \in 1 .. Len(items) - 1 /\ ~(k < q)
        BY <1>21, <1>22, <3>4, <3>5
      <3>. QED  BY <3>3, <3>4, <3>6 DEF k
    <2>2. items[i - removed] = [entry |-> entries[i], cut |-> FALSE]
      BY <2>1 DEF Iterated, Removed, removed, reach
    <2>. QED  BY <1>3, <2>1, <2>2
  <1>10. PICK place \in [Named -> DOMAIN items] :
              /\ KeepsNamed(place, entries, items, reach)
              /\ \A i \in Named : IF i < reach THEN place[i] < n ELSE place[i] = i - removed
    BY DEF Iterated, Removed, removed, reach
  <1>. DEFINE MovedUp(p) == IF p > q THEN p - 1 ELSE p
              place2 == [i \in Named |-> MovedUp(place[i])]
  <1>11. ASSUME NEW i \in Named
         PROVE  /\ i \in DOMAIN entries /\ i \in Nat /\ i # reach
                /\ place[i] \in DOMAIN items /\ place[i] \in Nat /\ place[i] # q
                /\ items[place[i]] = Validated(entries, i, reach)
    <2>1. items[place[i]] = Validated(entries, i, reach) /\ place[i] \in DOMAIN items
      BY <1>10 DEF KeepsNamed
    <2>2. items[place[i]].entry \notin Nameless
      BY <2>1 DEF Validated, NamedPositions
    <2>. QED  BY <1>1, <1>2, <1>3, <2>1, <2>2 DEF NamedPositions
  <1>12. ASSUME NEW i \in Named
         PROVE  /\ place2[i] \in DOMAIN rest
                /\ rest[place2[i]] = items[place[i]]
                /\ IF i < reach2 THEN place2[i] < n + 1 ELSE place2[i] = i - removed2
    <2>1. place2[i] = MovedUp(place[i])
      OBVIOUS
    <2>2. MovedUp(place[i]) \in 1 .. Len(items) - 1
      <3>1. place[i] \in 1 .. Len(items) /\ place[i] # q
        BY <1>1, <1>11
      <3>. QED  BY <1>22, <3>1
    <2>3. rest[MovedUp(place[i])] = items[place[i]]
      <3>1. CASE place[i] > q
        <4>1. ~(place[i] - 1 < q) /\ place[i] - 1 + 1 = place[i] /\ MovedUp(place[i]) = place[i] - 1
          BY <1>4, <1>11, <3>1
        <4>. QED  BY <1>3, <2>2, <4>1
      <3>2. CASE ~(place[i] > q)
        <4>1. place[i] < q /\ MovedUp(place[i]) = place[i]
          BY <1>4, <1>11, <3>2
        <4>. QED  BY <1>3, <2>2, <4>1
      <3>. QED  BY <3>1, <3>2
    <2>4. IF i < reach2 THEN MovedUp(place[i]) < n + 1 ELSE MovedUp(place[i]) = i - removed2
      <3>1. IF i < reach THEN place[i] < n ELSE place[i] = i - removed
        BY <1>10
      <3>2. i \in Nat /\ i # reach /\ place[i] \in Nat
        BY <1>11
      <3>3. CASE i < reach
        <4>1. place[i] < n /\ i < reach2
          BY <1>20, <3>1, <3>2, <3>3
        <4>. QED  BY <1>21, <1>22, <3>2, <4>1
      <3>4. CASE i = reach + 1
        <4>1. i < reach2
          BY <1>20, <3>4
        <4>2. place[i] = n + 1
          <5>1. ~(i < reach)
            BY <1>20, <3>2, <3>4
          <5>2. i - removed = n + 1
            <6>1. i = n + removed + 1
              BY <1>20, <1>21, <3>4
            <6>2. n + removed + 1 - removed = n + 1
              BY <1>21
            <6>. QED  BY <1>21, <3>2, <6>1, <6>2
          <5>. QED  BY <3>1, <5>1, <5>2
        <4>. QED  BY <1>21, <1>22, <4>1, <4>2
      <3>5. CASE i >= reach2
        <4>1. ~(i < reach) /\ ~(i < reach2)
          BY <1>20, <3>2, <3>5
        <4>2. place[i] = i - removed /\ i - removed >= n + 2
          BY <1>20, <1>21, <3>1, <3>2, <3>5, <4>1
        <4>. QED  BY <1>21, <1>22, <3>2, <4>1, <4>2
      <3>. QED  BY <1>20, <3>2, <3>3, <3>4, <3>5
    <2>. QED  BY <1>4, <2>1, <2>2, <2>3, <2>4
  <1>13. ASSUME NEW i \in Named, NEW j \in Named, i < j
         PROVE  place2[i] < place2[j]
    <2>1. place[i] < place[j]
      BY <1>10, <1>13 DEF KeepsNamed
    <2>2. place2[i] = MovedUp(place[i]) /\ place2[j] = MovedUp(place[j])
      OBVIOUS
    <2>3. MovedUp(place[i]) < MovedUp(place[j])
      <3>1. /\ place[i] \in Nat /\ place[i] # q
            /\ place[j] \in Nat /\ place[j] # q
        BY <1>11
      <3>. QED  BY <1>4, <2>1, <3>1
    <2>. QED  BY <2>2, <2>3
  <1>14. ASSUME NEW p \in DOMAIN rest, rest[p].entry \notin Nameless
         PROVE  \E i \in Named : place2[i] = p
    <2>. DEFINE before == IF p < q THEN p ELSE p + 1
    <2>1. before \in DOMAIN items /\ rest[p] = items[before]
      BY <1>1, <1>3, <1>4
    <2>2. PICK i \in Named : place[i] = before
      BY <1>10, <1>14, <2>1 DEF KeepsNamed
    <2>3. MovedUp(before) = p
      BY <1>1, <1>4
    <2>. QED  BY <2>2, <2>3
  <1>15. ASSUME NEW i \in Named PROVE rest[place2[i]] = Validated(entries, i, reach2)
    <2>1. Validated(entries, i, reach2) = Validated(entries, i, reach)
      <3>1. i < reach2 <=> i < reach \/ i = reach + 1
        <4>1. i \in Nat /\ i # reach
          BY <1>11
        <4>. QED  BY <1>20, <4>1
      <3>2. i = reach + 1 => ~E[i]
        BY <1>6, <1>11
      <3>. QED  BY <3>1, <3>2 DEF Validated
    <2>. QED  BY <1>11, <1>12, <2>1
  <1>16. place2 \in [Named -> DOMAIN rest]
    <2>1. \A i \in Named : MovedUp(place[i]) \in DOMAIN rest
      BY <1>12
    <2>. HIDE DEF MovedUp
    <2>. QED  BY <2>1
  <1>. HIDE DEF place2
  <1>17. KeepsNamed(place2, entries, rest, reach2)
    BY <1>13, <1>14, <1>15, <1>16 DEF KeepsNamed
  <1>18. \E f \in [Named -> DOMAIN rest] :
            /\ KeepsNamed(f, entries, rest, reach2)
            /\ \A i \in Named : IF i < reach2 THEN f[i] < n + 1 ELSE f[i] = i - removed2
    BY <1>12, <1>16, <1>17
  <1>19. Iterated(entries, rest, n + 1)
    <2>1. Len(entries) - Len(rest) = removed2
      BY DEF Removed, removed2
    <2>2. n + 1 + removed2 = reach2
      BY DEF reach2
    <2>. QED  BY <1>7, <1>8, <1>9, <1>18, <2>1, <2>2 DEF Iterated, ExaminedNameless
  <1>. QED  BY <1>3, <1>19 DEF rest

(* Before the first turn.                                                   *)
LEMMA IterationStarts ==
  ASSUME NEW entries \in Seq(Mentions)
  PROVE  Uncut(entries) \in Seq(ListItems) /\ Iterated(entries, Uncut(entries), 1)
  <1>. DEFINE items == Uncut(entries)
              Named == NamedPositions(entries)
              place == [i \in Named |-> i]
  <1>1. Len(entries) \in Nat /\ DOMAIN entries = 1 .. Len(entries)
    BY LenProperties
  <1>2. \A i \in DOMAIN entries : [entry |-> entries[i], cut |-> FALSE] \in ListItems
    BY ElementOfSeq, <1>1 DEF ListItems
  <1>3. /\ DOMAIN items = 1 .. Len(entries)
        /\ \A i \in DOMAIN entries : items[i] = [entry |-> entries[i], cut |-> FALSE]
    BY <1>1 DEF Uncut
  <1>4. items \in Seq(ListItems)
    <2>1. items \in [1 .. Len(entries) -> ListItems]
      BY <1>1, <1>2 DEF Uncut
    <2>. HIDE DEF items
    <2>. QED  BY <1>1, <2>1
  <1>5. Len(items) = Len(entries)
    <2>. HIDE DEF items
    <2>1. Len(items) \in Nat /\ DOMAIN items = 1 .. Len(items)
      BY <1>4, LenProperties
    <2>. QED  BY <1>1, <1>3, <1>4, <2>1
  <1>. HIDE DEF items
  <1>. DEFINE removed == Len(entries) - Len(items)
              reach == 1 + removed
  <1>6. removed = 0 /\ reach = 1 /\ (\A i \in DOMAIN entries : i - removed = i /\ ~(i < reach))
    BY <1>1, <1>5
  <1>. HIDE DEF removed, reach
  <1>7. reach \in DOMAIN entries => Examined(entries)[reach]
    BY <1>1, <1>6, ExaminedValue
  <1>8. removed = Cardinality({ i \in DOMAIN entries :
                             i < reach /\ entries[i] \in Nameless /\ Examined(entries)[i] })
    <2>1. { i \in DOMAIN entries : i < reach /\ entries[i] \in Nameless /\ Examined(entries)[i] } = {}
      BY <1>6
    <2>. QED  BY <1>6, <2>1, FS_EmptySet
  <1>9. place \in [Named -> DOMAIN items] /\ Named \subseteq DOMAIN entries
    BY <1>1, <1>3 DEF NamedPositions
  <1>10. ASSUME NEW i \in Named
         PROVE  /\ IF i < reach THEN place[i] < 1 ELSE place[i] = i - removed
                /\ items[place[i]] = Validated(entries, i, reach)
    <2>1. i \in DOMAIN entries /\ place[i] = i
      BY <1>9
    <2>2. Validated(entries, i, reach) = [entry |-> entries[i], cut |-> FALSE]
      BY <1>6, <2>1 DEF Validated
    <2>. QED  BY <1>3, <1>6, <2>1, <2>2
  <1>11. KeepsNamed(place, entries, items, reach)
    <2>1. \A i, j \in Named : i < j => place[i] < place[j]
      OBVIOUS
    <2>2. \A p \in DOMAIN items : items[p].entry \notin Nameless => \E i \in Named : place[i] = p
      <3>. SUFFICES ASSUME NEW p \in DOMAIN items, items[p].entry \notin Nameless
                    PROVE  \E i \in Named : place[i] = p
        OBVIOUS
      <3>1. p \in Named
        BY <1>1, <1>3 DEF NamedPositions
      <3>. QED  BY <3>1
    <2>. HIDE DEF place
    <2>. QED  BY <1>9, <1>10, <2>1, <2>2 DEF KeepsNamed
  <1>12. \E f \in [Named -> DOMAIN items] :
            /\ KeepsNamed(f, entries, items, reach)
            /\ \A i \in Named : IF i < reach THEN f[i] < 1 ELSE f[i] = i - removed
    BY <1>9, <1>10, <1>11
  <1>13. \A i \in DOMAIN entries : i >= reach =>
            items[i - removed] = [entry |-> entries[i], cut |-> FALSE]
    BY <1>3, <1>6
  <1>14. Iterated(entries, items, 1)
    BY <1>7, <1>8, <1>12, <1>13 DEF Iterated, removed, reach
  <1>. QED  BY <1>4, <1>14 DEF items

(* After the last: the iterator has come past the end of the list.          *)
LEMMA IterationEnds ==
  ASSUME NEW entries \in Seq(Mentions), NEW items \in Seq(ListItems), NEW n \in Nat \ {0},
         Iterated(entries, items, n), n \notin DOMAIN items
  PROVE  /\ \E place \in [NamedPositions(entries) -> DOMAIN items] :
                KeepsNamed(place, entries, items, Len(entries) + 1)
         /\ Len(items) = Cardinality({ i \in DOMAIN entries :
                              entries[i] \in Nameless => ~Examined(entries)[i] })
  <1>. DEFINE removed == Removed(entries, items)
              reach == n + removed
              Named == NamedPositions(entries)
              Gone == ExaminedNameless(entries, reach)
  <1>1. /\ removed \in Nat
        /\ Len(entries) \in Nat /\ DOMAIN entries = 1 .. Len(entries)
        /\ Len(items) \in Nat /\ DOMAIN items = 1 .. Len(items)
        /\ Len(entries) = Len(items) + removed
        /\ removed = Cardinality(Gone)
    BY IteratorPoints
  <1>2. \A i \in DOMAIN entries : i < reach /\ i < Len(entries) + 1
    <2>1. n > Len(items)
      BY <1>1
    <2>. QED  BY <1>1, <2>1
  <1>3. \E place \in [Named -> DOMAIN items] : KeepsNamed(place, entries, items, Len(entries) + 1)
    <2>1. PICK place \in [Named -> DOMAIN items] : KeepsNamed(place, entries, items, reach)
      BY DEF Iterated, Removed
    <2>. HIDE DEF reach
    <2>2. ASSUME NEW i \in Named
          PROVE  Validated(entries, i, Len(entries) + 1) = Validated(entries, i, reach)
      <3>1. i < reach /\ i < Len(entries) + 1
        BY <1>2 DEF NamedPositions
      <3>. QED  BY <3>1 DEF Validated
    <2>3. KeepsNamed(place, entries, items, Len(entries) + 1)
      BY <2>1, <2>2 DEF KeepsNamed
    <2>. QED  BY <2>3
  <1>4. Len(items) = Cardinality({ i \in DOMAIN entries :
                              entries[i] \in Nameless => ~Examined(entries)[i] })
    <2>1. { i \in DOMAIN entries : entries[i] \in Nameless => ~Examined(entries)[i] }
             = (1 .. Len(entries)) \ Gone
      <3>. HIDE DEF reach
      <3>. QED  BY <1>1, <1>2 DEF ExaminedNameless
    <2>2. Gone \subseteq 1 .. Len(entries)
      BY <1>1 DEF ExaminedNameless
    <2>. HIDE DEF Gone
    <2>3. IsFiniteSet(1 .. Len(entries)) /\ Cardinality(1 .. Len(entries)) = Len(entries)
      BY <1>1, FS_Interval
    <2>4. (1 .. Len(entries)) \cap Gone = Gone
      BY <2>2
    <2>5. Cardinality((1 .. Len(entries)) \ Gone) = Len(entries) - removed
      <3>. DEFINE all == 1 .. Len(entries)
      <3>1. IsFiniteSet(all) /\ Cardinality(all) = Len(entries) /\ all \cap Gone = Gone
        BY <2>3, <2>4
      <3>. HIDE DEF all
      <3>2. Cardinality(all \ Gone) = Cardinality(all) - Cardinality(all \cap Gone)
        BY <3>1, FS_Difference
      <3>3. Cardinality(all \ Gone) = Len(entries) - removed
        BY <1>1, <3>1, <3>2
      <3>. QED  BY <3>3 DEF all
    <2>6. Len(entries) - removed = Len(items)
      BY <1>1
    <2>. QED  BY <2>1, <2>5, <2>6
  <1>. QED  BY <1>3, <1>4

-------------------------------------------------------------------------------
(* The call as a whole.                                                     *)

LEMMA ReportedLists ==
  ASSUME reply \in Replies
  PROVE  /\ Reported("people") \in Seq(Mentions) /\ Reported("topics") \in Seq(Mentions)
         /\ \A l \in EntityLists : Reported(l) \in Seq(Mentions)
  <1>1. reply \in [people : Seq(Mentions), topics : Seq(Mentions), event : BOOLEAN]
    BY ExtractionAssumption
  <1>2. reply.people \in Seq(Mentions) /\ reply.topics \in Seq(Mentions)
    BY <1>1
  <1>. QED  BY <1>2 DEF Reported

LEMMA ExtractInv_Init == ExtractInit => ExtractInv
  <1>. SUFFICES ASSUME ExtractInit PROVE ExtractInv
    OBVIOUS
  <1>1. << >> \in Seq(ListItems)
    BY EmptySeq
  <1>2. ExtractTypeOK
    BY <1>1, ExtractionAssumption DEF ExtractInit, ExtractTypeOK
  <1>. QED  BY <1>2 DEF ExtractInit, ExtractInv

(* A turn of the loop over list l.                                          *)
LEMMA ExamineStep ==
  ASSUME ExtractInv, NEW l \in EntityLists, Examine(l)
  PROVE  /\ left' \in [EntityLists -> Seq(ListItems)]
         /\ next' \in [EntityLists -> Nat \ {0}]
         /\ \A m \in EntityLists \ {l} : left'[m] = left[m] /\ next'[m] = next[m]
         /\ \A m \in EntityLists : Iterated(Reported(m), left'[m], next'[m])
  <1>. DEFINE items == left[l]
              n == next[l]
              item == items[n]
              entries == Reported(l)
              after == IF item.entry \in Nameless THEN RemoveFirst(items, item)
                       ELSE [items EXCEPT ![n].cut = item.entry \in LongSlugs]
  <1>1. /\ stage \in {"people", "topics"} /\ reply \in Replies
        /\ left \in [EntityLists -> Seq(ListItems)] /\ next \in [EntityLists -> Nat \ {0}]
        /\ items \in Seq(ListItems) /\ n \in Nat \ {0} /\ n \in DOMAIN items
        /\ \A m \in EntityLists : Iterated(Reported(m), left[m], next[m])
    <2>1. stage \in {"people", "topics"}
      BY DEF Examine, EntityLists
    <2>. QED  BY <2>1 DEF ExtractInv, ExtractTypeOK, Examine
  <1>2. entries \in Seq(Mentions) /\ Iterated(entries, items, n)
    BY <1>1, ReportedLists
  <1>3. left' = [left EXCEPT ![l] = after] /\ next' = [next EXCEPT ![l] = n + 1]
    BY DEF Examine
  <1>4. after \in Seq(ListItems) /\ Iterated(entries, after, n + 1)
    <2>. HIDE DEF items, n, entries
    <2>1. CASE item.entry \in Nameless
      BY <1>1, <1>2, <2>1, ExamineNameless
    <2>2. CASE item.entry \notin Nameless
      <3>1. /\ [items EXCEPT ![n].cut = item.entry \in LongSlugs] \in Seq(ListItems)
            /\ Iterated(entries, [items EXCEPT ![n].cut = item.entry \in LongSlugs], n + 1)
        BY <1>1, <1>2, <2>2, ExamineNamed
      <3>. QED  BY <2>2, <3>1
    <2>. QED  BY <2>1, <2>2
  <1>. HIDE DEF after
  <1>5. left' \in [EntityLists -> Seq(ListItems)] /\ left'[l] = after
    BY <1>1, <1>3, <1>4
  <1>6. next' \in [EntityLists -> Nat \ {0}] /\ next'[l] = n + 1
    <2>1. n + 1 \in Nat \ {0}
      BY <1>1
    <2>. QED  BY <1>1, <1>3, <2>1
  <1>7. \A m \in EntityLists \ {l} : left'[m] = left[m] /\ next'[m] = next[m]
    BY <1>1, <1>3
  <1>8. \A m \in EntityLists : Iterated(Reported(m), left'[m], next'[m])
    BY <1>1, <1>4, <1>5, <1>6, <1>7
  <1>. QED  BY <1>5, <1>6, <1>7, <1>8

LEMMA ExtractInv_Step ==
  ASSUME ExtractInv, [ExtractNext]_extractVars
  PROVE  ExtractInv'
  <1>. USE DEF ExtractInv, ExtractTypeOK, End
  <1>1. CASE Answer
    <2>1. ExtractTypeOK'
      BY <1>1 DEF Answer
    <2>. QED  BY <1>1, <2>1 DEF Answer
  <1>2. ASSUME NEW kind, Fail(kind)
        PROVE  ExtractInv'
    <2>1. ExtractTypeOK'
      BY <1>2 DEF Fail
    <2>2. CASE attempt < MaxAttempts
      BY <1>2, <2>1, <2>2 DEF Fail
    <2>3. CASE ~(attempt < MaxAttempts)
      BY <1>2, <2>1, <2>3 DEF Fail
    <2>. QED  BY <2>2, <2>3
  <1>3. CASE TryAnew
    <2>1. attempt + 1 \in 1 .. MaxAttempts
      <3>1. attempt \in 1 .. MaxAttempts /\ attempt < MaxAttempts
        BY <1>3 DEF TryAnew
      <3>2. MaxAttempts \in Nat
        BY ExtractionAssumption
      <3>. QED  BY <3>1, <3>2
    <2>2. ExtractTypeOK'
      BY <1>3, <2>1 DEF TryAnew
    <2>. QED  BY <1>3, <2>2 DEF TryAnew
  <1>4. CASE LimitStrikes
    <2>1. ExtractTypeOK'
      BY <1>4 DEF LimitStrikes
    <2>. QED  BY <1>4, <2>1 DEF LimitStrikes
  <1>5. CASE ParseFails
    <2>1. ExtractTypeOK'
      BY <1>5 DEF ParseFails
    <2>. QED  BY <1>5, <2>1 DEF ParseFails
  <1>6. CASE Parse
    <2>1. reply \in Replies /\ reply' = reply /\ next' = next /\ next = [l \in EntityLists |-> 1]
      BY <1>6 DEF Parse
    <2>2. /\ reply.people \in Seq(Mentions) /\ reply.topics \in Seq(Mentions)
          /\ Reported("people") = reply.people /\ Reported("topics") = reply.topics
      <3>1. reply \in [people : Seq(Mentions), topics : Seq(Mentions), event : BOOLEAN]
        BY <2>1, ExtractionAssumption
      <3>. QED  BY <3>1 DEF Reported
    <2>3. /\ Uncut(reply.people) \in Seq(ListItems) /\ Iterated(reply.people, Uncut(reply.people), 1)
          /\ Uncut(reply.topics) \in Seq(ListItems) /\ Iterated(reply.topics, Uncut(reply.topics), 1)
      BY <2>2, IterationStarts
    <2>4. /\ left' \in [EntityLists -> Seq(ListItems)]
          /\ left'["people"] = Uncut(reply.people) /\ left'["topics"] = Uncut(reply.topics)
      <3>1. left' = [people |-> Uncut(reply.people), topics |-> Uncut(reply.topics)]
        BY <1>6 DEF Parse
      <3>. QED  BY <2>3, <3>1 DEF EntityLists
    <2>5. \A l \in EntityLists : Iterated(Reported(l), left'[l], next[l])
      BY <2>1, <2>2, <2>3, <2>4 DEF EntityLists
    <2>6. \A l : Reported(l)' = Reported(l)
      BY <2>1 DEF Reported
    <2>7. \A l \in EntityLists : Iterated(Reported(l)', left'[l], next'[l])
      BY <2>1, <2>5, <2>6
    <2>8. ExtractTypeOK'
      BY <1>6, <2>4 DEF Parse
    <2>9. CASE IsEmpty(reply)
      <3>1. stage' = "done" /\ outcome' = "value_error"
        BY <1>6, <2>9 DEF Parse
      <3>2. IsEmpty(reply)'
        BY <2>1, <2>9 DEF IsEmpty
      <3>. QED  BY <2>1, <2>8, <3>1, <3>2
    <2>10. CASE ~IsEmpty(reply)
      <3>1. stage' = "people" /\ outcome' = "none"
        BY <1>6, <2>10 DEF Parse
      <3>. QED  BY <2>1, <2>7, <2>8, <3>1
    <2>. QED  BY <2>9, <2>10
  <1>7. ASSUME NEW l \in EntityLists, Examine(l)
        PROVE  ExtractInv'
    <2>1. /\ stage = l /\ stage' = stage /\ reply' = reply /\ attempt' = attempt
          /\ limit' = limit /\ outcome' = outcome /\ stage \in {"people", "topics"}
      BY <1>7 DEF Examine, EntityLists
    <2>2. /\ left' \in [EntityLists -> Seq(ListItems)]
          /\ next' \in [EntityLists -> Nat \ {0}]
          /\ \A m \in EntityLists \ {l} : left'[m] = left[m] /\ next'[m] = next[m]
          /\ \A m \in EntityLists : Iterated(Reported(m), left'[m], next'[m])
      BY <1>7, ExamineStep
    <2>3. \A m : Reported(m)' = Reported(m)
      BY <2>1 DEF Reported
    <2>4. \A m \in EntityLists : Iterated(Reported(m)', left'[m], next'[m])
      BY <2>2, <2>3
    <2>5. ExtractTypeOK'
      BY <2>1, <2>2
    <2>6. outcome = "none"
      BY <2>1
    <2>7. stage = "topics" => next'["people"] \notin DOMAIN left'["people"]
      BY <2>1, <2>2 DEF EntityLists
    <2>. QED  BY <2>1, <2>4, <2>5, <2>6, <2>7
  <1>8. CASE EndPeople
    <2>1. /\ stage = "people" /\ stage' = "topics" /\ outcome' = outcome /\ outcome = "none"
          /\ left' = left /\ next' = next /\ reply' = reply /\ reply \in Replies
          /\ next["people"] \notin DOMAIN left["people"]
          /\ \A m \in EntityLists : Iterated(Reported(m), left[m], next[m])
      BY <1>8 DEF EndPeople
    <2>2. \A m : Reported(m)' = Reported(m)
      BY <2>1 DEF Reported
    <2>3. \A m \in EntityLists : Iterated(Reported(m)', left'[m], next'[m])
      BY <2>1, <2>2
    <2>4. ExtractTypeOK'
      BY <1>8 DEF EndPeople
    <2>. QED  BY <2>1, <2>3, <2>4
  <1>9. CASE EndTopics
    <2>1. /\ stage = "topics" /\ stage' = "done" /\ outcome' = "extraction"
          /\ left' = left /\ next' = next /\ reply' = reply /\ reply \in Replies
          /\ next["people"] \notin DOMAIN left["people"]
          /\ next["topics"] \notin DOMAIN left["topics"]
          /\ \A m \in EntityLists : Iterated(Reported(m), left[m], next[m])
      BY <1>9 DEF EndTopics
    <2>2. \A m : Reported(m)' = Reported(m)
      BY <2>1 DEF Reported
    <2>3. \A m \in EntityLists : Iterated(Reported(m)', left'[m], next'[m])
      BY <2>1, <2>2
    <2>4. ExtractTypeOK'
      BY <1>9 DEF EndTopics
    <2>. QED  BY <2>1, <2>3, <2>4
  <1>10. CASE UNCHANGED extractVars
    <2>1. /\ stage' = stage /\ attempt' = attempt /\ reply' = reply /\ left' = left
          /\ next' = next /\ limit' = limit /\ outcome' = outcome
      BY <1>10 DEF extractVars
    <2>2. IsEmpty(reply)' <=> IsEmpty(reply)
      BY <2>1 DEF IsEmpty
    <2>3. \A l : Reported(l)' = Reported(l)
      BY <2>1 DEF Reported
    <2>4. ExtractTypeOK'
      BY <2>1
    <2>. QED  BY <2>1, <2>2, <2>3, <2>4
  <1>11. "people" \in EntityLists /\ "topics" \in EntityLists
    BY DEF EntityLists
  <1>12. ASSUME NEW l \in EntityLists, ExamineFails(l)
         PROVE  ExtractInv'
    <2>1. /\ attempt' = attempt /\ reply' = reply /\ left' = left /\ next' = next
          /\ limit' = limit /\ stage' = "done" /\ outcome' = "exception"
      BY <1>12 DEF ExamineFails
    <2>2. ExtractTypeOK'
      BY <2>1
    <2>. QED  BY <2>1, <2>2
  <1>. QED  BY <1>1, <1>2, <1>3, <1>4, <1>5, <1>6, <1>7, <1>8, <1>9, <1>10, <1>11, <1>12
            DEF ExtractNext, ExtractStep, AttemptFails, LimitSwallowed

THEOREM ExtractInvariant == ExtractSpec => []ExtractInv
  <1>1. ExtractInit => ExtractInv
    BY ExtractInv_Init
  <1>2. ExtractInv /\ [ExtractNext]_extractVars => ExtractInv'
    BY ExtractInv_Step
  <1>. QED  BY <1>1, <1>2, PTL DEF ExtractSpec

-------------------------------------------------------------------------------
(* What an extraction promises, for replies of any length.                  *)

(* Every variable of a call keeps to its type.                              *)
THEOREM ExtractionTypes == ExtractSpec => []ExtractTypeOK
  <1>1. ExtractInv => ExtractTypeOK
    BY DEF ExtractInv
  <1>. QED  BY <1>1, ExtractInvariant, PTL

(* Both lists have been iterated to their ends when extract returns.        *)
LEMMA ListsAreValidated ==
  ASSUME ExtractInv, outcome = "extraction", NEW l \in EntityLists
  PROVE  /\ \E place \in [NamedPositions(Reported(l)) -> DOMAIN left[l]] :
                KeepsNamed(place, Reported(l), left[l], Len(Reported(l)) + 1)
         /\ Len(left[l]) = Cardinality({ i \in DOMAIN Reported(l) :
                               Reported(l)[i] \in Nameless => ~Examined(Reported(l))[i] })
  <1>1. reply \in Replies /\ left[l] \in Seq(ListItems) /\ next[l] \in Nat \ {0}
    BY DEF ExtractInv, ExtractTypeOK
  <1>2. Iterated(Reported(l), left[l], next[l]) /\ next[l] \notin DOMAIN left[l]
    BY DEF ExtractInv, EntityLists
  <1>3. Reported(l) \in Seq(Mentions)
    BY <1>1, ReportedLists
  <1>. QED  BY <1>1, <1>2, <1>3, IterationEnds

(* However many entries repeat one another and however many have no name,   *)
(* those that have one are all there, in order, with the long slugs cut     *)
(* that the iterator came to (_validate_extraction).                        *)
THEOREM NamedEntriesKept == ExtractSpec => []NamedKept
  <1>1. ExtractInv => NamedKept
    BY ListsAreValidated DEF NamedKept
  <1>. QED  BY <1>1, ExtractInvariant, PTL

(* Of nameless entries in a row every other one is removed, in lists of any *)
(* length (_validate_extraction).                                           *)
THEOREM EveryOtherNamelessRemoved == ExtractSpec => []EveryOtherRemoved
  <1>1. ExtractInv => EveryOtherRemoved
    BY ListsAreValidated DEF EveryOtherRemoved
  <1>. QED  BY <1>1, ExtractInvariant, PTL

(* The one failure that the task takes for permanent comes of a reply       *)
(* without entities, after however many attempts (extractor.py, tasks.py).  *)
THEOREM PermanentFailureIsEmpty == ExtractSpec => []PermanentOnlyIfEmpty
  <1>1. ExtractInv => PermanentOnlyIfEmpty
    <2>. SUFFICES ASSUME ExtractInv, outcome = "value_error"
                  PROVE  reply # NoReply /\ IsEmpty(reply)
      BY DEF PermanentOnlyIfEmpty
    <2>1. reply \in Replies /\ IsEmpty(reply)
      BY DEF ExtractInv
    <2>. QED  BY <2>1, ExtractionAssumption
  <1>. QED  BY <1>1, ExtractInvariant, PTL
===============================================================================
