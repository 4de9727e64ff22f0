------------------------------ MODULE ReadProofs ------------------------------
(***************************************************************************)
(* Proofs about the memory endpoints, for any clients, files, transcripts  *)
(* and paths: what a path is normalized to, and what a grep, an ls and a   *)
(* cat may answer while workers write.                                     *)
(***************************************************************************)
EXTENDS MemoryReads, LoopTheorems, SequenceTheorems

-------------------------------------------------------------------------------
(* Paths.  Normalize is a recursive function: what it returns is shown by   *)
(* induction over the components of the path.                               *)

(* One turn of the loop makes names of names.                               *)
LEMMA WalkType ==
  ASSUME NEW parts \in Seq(Names), NEW part
  PROVE  Walk(parts, part) \in Seq(Names)
  BY AppendProperties, SubSeqProperties, LenProperties, EmptySeq DEF Walk, Pop

(* The loop has a value after every component, a sequence of names.         *)
LEMMA LoopValue ==
  ASSUME NEW path \in RawPaths
  PROVE  \E f \in [0 .. Len(path) -> Seq(Names)] :
            /\ f[0] = << >>
            /\ \A i \in 1 .. Len(path) : f[i] = Walk(f[i - 1], path[i])
            /\ Normalize(path) = f[Len(path)]
  <1>. DEFINE N == Len(path)
              IsLoop(f) == f = [i \in 0 .. N |-> IF i = 0 THEN << >> ELSE Walk(f[i - 1], path[i])]
              loop == CHOOSE f : IsLoop(f)
  <1>1. N \in Nat
    BY LenProperties DEF RawPaths
  <1>. HIDE DEF N
  <1>2. \E f : IsLoop(f)
    <2>. DEFINE V == Seq(Names)
                start == << >>
                body == [x \in (1 .. N) \X V |-> Walk(x[2], path[x[1]])]
    <2>1. body \in Bodies(N, V) /\ start \in V
      BY WalkType, EmptySeq DEF Bodies
    <2>2. PICK f : IsRun(f, N, V, start, body)
      <3>. HIDE DEF V, start, body
      <3>. QED  BY <1>1, <2>1, LoopFunction
    <2>3. ASSUME NEW i \in 1 .. N PROVE f[i] = Walk(f[i - 1], path[i])
      <3>1. <<i, f[i - 1]>> \in (1 .. N) \X V
        BY <1>1, <2>2 DEF IsRun
      <3>. QED  BY <2>2, <3>1 DEF IsRun
    <2>4. ASSUME NEW i \in 0 .. N PROVE f[i] = IF i = 0 THEN << >> ELSE Walk(f[i - 1], path[i])
      <3>1. i # 0 => i \in 1 .. N
        BY <1>1
      <3>. QED  BY <2>2, <2>3, <3>1 DEF IsRun
    <2>5. IsLoop(f)
      BY <2>2, <2>4 DEF IsRun
    <2>. HIDE DEF IsLoop
    <2>. QED  BY <2>5
  <1>3. IsLoop(loop)
    <2>. HIDE DEF IsLoop
    <2>. QED  BY <1>2
  <1>4. Normalize(path) = loop[N]
    BY DEF Normalize, N
  <1>. HIDE DEF loop
  <1>5. loop[0] = << >> /\ \A i \in 1 .. N : loop[i] = Walk(loop[i - 1], path[i])
    BY <1>1, <1>3
  <1>6. \A n \in 0 .. N : loop[n] \in Seq(Names)
    <2>. DEFINE S == { n \in 0 .. N : loop[n] \in Seq(Names) }
    <2>1. 0 \in S
      <3>1. << >> \in Seq(Names)
        BY EmptySeq
      <3>2. loop[0] \in Seq(Names)
        BY <1>5, <3>1
      <3>. QED  BY <1>1, <3>2
    <2>2. ASSUME NEW n \in 0 .. N - 1, n \in S PROVE n + 1 \in S
      <3>1. n + 1 \in 1 .. N /\ (n + 1) - 1 = n /\ n + 1 \in 0 .. N
        BY <1>1
      <3>2. loop[n] \in Seq(Names) /\ loop[n + 1] = Walk(loop[n], path[n + 1])
        BY <1>5, <2>2, <3>1
      <3>3. Walk(loop[n], path[n + 1]) \in Seq(Names)
        BY <3>2, WalkType
      <3>. QED  BY <3>1, <3>2, <3>3
    <2>3. \A n \in 0 .. N : n \in S
      <3>. HIDE DEF S
      <3>. QED  BY <1>1, <2>1, <2>2, TurnInduction
    <2>. QED  BY <2>3
  <1>7. loop \in [0 .. N -> Seq(Names)]
    BY <1>3, <1>6
  <1>. QED  BY <1>4, <1>5, <1>7 DEF N

(* Whatever a client writes, only names reach the store: no "..", no "." and*)
(* no empty component (_normalize_path).                                    *)
THEOREM NormalizedIsNames == \A path \in RawPaths : Normalize(path) \in Seq(Names)
  <1>. SUFFICES ASSUME NEW path \in RawPaths PROVE Normalize(path) \in Seq(Names)
    OBVIOUS
  <1>1. Len(path) \in Nat
    BY LenProperties DEF RawPaths
  <1>. QED  BY <1>1, LoopValue

(* A path that is a key already stays as it is: the keys that a listing     *)
(* returns are normalized once more when search_files reads them.           *)
THEOREM NormalizedOnce == \A path \in Seq(Names) : Normalize(path) = path
  <1>. SUFFICES ASSUME NEW path \in Seq(Names) PROVE Normalize(path) = path
    OBVIOUS
  <1>1. path \in RawPaths
    BY SeqMonotonic DEF RawPaths
  <1>2. Len(path) \in Nat /\ \A i \in 1 .. Len(path) : path[i] \in Names
    BY LenProperties, ElementOfSeq
  <1>3. PICK f \in [0 .. Len(path) -> Seq(Names)] :
            /\ f[0] = << >>
            /\ \A i \in 1 .. Len(path) : f[i] = Walk(f[i - 1], path[i])
            /\ Normalize(path) = f[Len(path)]
    BY <1>1, LoopValue
  <1>. DEFINE Bad == { n \in 0 .. Len(path) : f[n] # SubSeq(path, 1, n) }
  <1>4. Bad = {}
    <2>. SUFFICES ASSUME Bad # {} PROVE FALSE
      OBVIOUS
    <2>1. PICK n \in Bad : \A m \in Bad : n <= m
      <3>1. Bad \in SUBSET Nat
        BY <1>2
      <3>. HIDE DEF Bad
      <3>. QED  BY <3>1, LeastOfSet
    <2>2. n # 0
      <3>1. SubSeq(path, 1, 0) = << >>
        BY SubSeqEmpty
      <3>. QED  BY <1>3, <2>1, <3>1
    <2>3. n \in 1 .. Len(path) /\ f[n - 1] = SubSeq(path, 1, n - 1)
      BY <1>2, <2>1, <2>2
    <2>4. f[n] = Append(SubSeq(path, 1, n - 1), path[n])
      BY <1>2, <1>3, <2>3 DEF Walk
    <2>5. Append(SubSeq(path, 1, n - 1), path[n]) = SubSeq(path, 1, n)
      BY <1>2, <2>3, SubSeqRecursiveSecond
    <2>. QED  BY <2>1, <2>4, <2>5
  <1>5. f[Len(path)] = SubSeq(path, 1, Len(path))
    BY <1>2, <1>4
  <1>6. SubSeq(path, 1, Len(path)) = path
    BY SubSeqFull
  <1>. QED  BY <1>3, <1>5, <1>6

-------------------------------------------------------------------------------
(* What a path means.  The loop keeps a stack of names; the proof keeps,    *)
(* beside it, the stack of the positions they come from.                    *)

Balance(path, i, n) == Count(path, i + 1, n, Names) - Count(path, i + 1, n, {".."})

(* Position i counts, as far as the components up to n tell.                *)
StaysUpTo(path, i, n) ==
    /\ path[i] \in Names
    /\ \A j \in i + 1 .. n : Count(path, i + 1, j, {".."}) <= Count(path, i + 1, j, Names)

(* After n components, parts are the names at positions places: these are   *)
(* the positions that count, in order, and above each there are as many     *)
(* more as names prevail over ".." behind it.                               *)
StackOf(path, n, parts, places) ==
    /\ parts \in Seq(Names) /\ places \in Seq(Nat) /\ Len(parts) = Len(places)
    /\ \A k \in 1 .. Len(places) :
          /\ places[k] \in 1 .. n
          /\ parts[k] = path[places[k]]
          /\ StaysUpTo(path, places[k], n)
          /\ Balance(path, places[k], n) = Len(places) - k
    /\ \A k, l \in 1 .. Len(places) : k < l => places[k] < places[l]
    /\ \A i \in 1 .. n : StaysUpTo(path, i, n) => \E k \in 1 .. Len(places) : places[k] = i

LEMMA CountNext ==
  ASSUME NEW path, NEW S, NEW i \in Nat, NEW j \in Nat, i <= j + 1
  PROVE  /\ Count(path, i, j, S) \in Nat
         /\ Count(path, i, j + 1, S) = IF path[j + 1] \in S THEN Count(path, i, j, S) + 1
                                                            ELSE Count(path, i, j, S)
  <1>. DEFINE C(n) == { m \in i .. n : path[m] \in S }
  <1>1. IsFiniteSet(C(j)) /\ Cardinality(C(j)) \in Nat
    <2>1. IsFiniteSet(i .. j) /\ C(j) \in SUBSET (i .. j)
      BY FS_Interval
    <2>. HIDE DEF C
    <2>. QED  BY <2>1, FS_Subset, FS_CardinalityType
  <1>2. C(j + 1) = IF path[j + 1] \in S THEN C(j) \cup {j + 1} ELSE C(j)
    OBVIOUS
  <1>3. j + 1 \notin C(j)
    OBVIOUS
  <1>. HIDE DEF C
  <1>4. Cardinality(C(j + 1)) = IF path[j + 1] \in S THEN Cardinality(C(j)) + 1 ELSE Cardinality(C(j))
    BY <1>1, <1>2, <1>3, FS_AddElement
  <1>. QED  BY <1>1, <1>4 DEF C, Count

LEMMA CountNone == ASSUME NEW path, NEW S, NEW i \in Nat PROVE Count(path, i + 1, i, S) = 0
  <1>1. { m \in i + 1 .. i : path[m] \in S } = {}
    OBVIOUS
  <1>. QED  BY <1>1, FS_EmptySet DEF Count

(* One component more.                                                      *)
LEMMA BalanceNext ==
  ASSUME NEW path, NEW n \in Nat, NEW i \in 1 .. n
  PROVE  /\ Balance(path, i, n) \in Int
         /\ path[n + 1] \in Names => Balance(path, i, n + 1) = Balance(path, i, n) + 1
         /\ path[n + 1] = ".." => Balance(path, i, n + 1) = Balance(path, i, n) - 1
         /\ path[n + 1] \notin Names \cup {".."} => Balance(path, i, n + 1) = Balance(path, i, n)
         /\ StaysUpTo(path, i, n + 1) <=> StaysUpTo(path, i, n) /\ 0 <= Balance(path, i, n + 1)
  <1>1. i + 1 \in Nat /\ i + 1 <= n + 1 /\ i + 1 .. n + 1 = (i + 1 .. n) \cup {n + 1}
    OBVIOUS
  <1>2. ".." \notin Names
    BY NamesAssumption DEF Dots
  <1>3. Count(path, i + 1, n, Names) \in Nat /\ Count(path, i + 1, n, {".."}) \in Nat
    BY <1>1, CountNext
  <1>4. Count(path, i + 1, n + 1, Names) = IF path[n + 1] \in Names THEN Count(path, i + 1, n, Names) + 1
                                                                    ELSE Count(path, i + 1, n, Names)
    BY <1>1, CountNext
  <1>5. Count(path, i + 1, n + 1, {".."}) = IF path[n + 1] \in {".."} THEN Count(path, i + 1, n, {".."}) + 1
                                                                      ELSE Count(path, i + 1, n, {".."})
    BY <1>1, CountNext
  <1>6. StaysUpTo(path, i, n + 1) <=> StaysUpTo(path, i, n) /\ 0 <= Balance(path, i, n + 1)
    BY <1>1, <1>3, <1>4, <1>5 DEF StaysUpTo, Balance
  <1>. QED  BY <1>2, <1>3, <1>4, <1>5, <1>6 DEF Balance

(* The last component counts if it is a name.                               *)
LEMMA LastStays ==
  ASSUME NEW path, NEW n \in Nat
  PROVE  /\ Balance(path, n + 1, n + 1) = 0
         /\ StaysUpTo(path, n + 1, n + 1) <=> path[n + 1] \in Names
  BY CountNone DEF Balance, StaysUpTo

(* A name is pushed.                                                        *)
LEMMA PushStack ==
  ASSUME NEW path, NEW n \in Nat, NEW parts, NEW places, StackOf(path, n, parts, places),
         path[n + 1] \in Names
  PROVE  StackOf(path, n + 1, Append(parts, path[n + 1]), Append(places, n + 1))
  <1>. DEFINE m == Len(places)
              more == Append(parts, path[n + 1])
              upto == Append(places, n + 1)
  <1>1. m \in Nat /\ parts \in Seq(Names) /\ places \in Seq(Nat) /\ Len(parts) = m
    BY LenProperties DEF StackOf
  <1>2. /\ upto \in Seq(Nat) /\ Len(upto) = m + 1 /\ upto[m + 1] = n + 1
        /\ \A k \in 1 .. m : upto[k] = places[k]
    BY <1>1, AppendProperties
  <1>3. /\ more \in Seq(Names) /\ Len(more) = m + 1 /\ more[m + 1] = path[n + 1]
        /\ \A k \in 1 .. m : more[k] = parts[k]
    BY <1>1, AppendProperties
  <1>. HIDE DEF more, upto
  <1>4. ASSUME NEW k \in 1 .. m + 1
        PROVE  /\ upto[k] \in 1 .. n + 1
               /\ more[k] = path[upto[k]]
               /\ StaysUpTo(path, upto[k], n + 1)
               /\ Balance(path, upto[k], n + 1) = m + 1 - k
    <2>1. CASE k = m + 1
      BY <1>1, <1>2, <1>3, <2>1, LastStays
    <2>2. CASE k # m + 1
      <3>1. k \in 1 .. m
        BY <1>1, <2>2
      <3>2. /\ places[k] \in 1 .. n
            /\ parts[k] = path[places[k]]
            /\ StaysUpTo(path, places[k], n)
            /\ Balance(path, places[k], n) = m - k
        BY <3>1 DEF StackOf
      <3>3. /\ Balance(path, places[k], n + 1) = Balance(path, places[k], n) + 1
            /\ StaysUpTo(path, places[k], n + 1) <=>
                  StaysUpTo(path, places[k], n) /\ 0 <= Balance(path, places[k], n + 1)
        BY <3>2, BalanceNext
      <3>4. Balance(path, places[k], n + 1) = m + 1 - k /\ 0 <= m + 1 - k
        BY <1>1, <3>1, <3>2, <3>3
      <3>. QED  BY <1>2, <1>3, <3>1, <3>2, <3>3, <3>4
    <2>. QED  BY <2>1, <2>2
  <1>5. ASSUME NEW k \in 1 .. m + 1, NEW l \in 1 .. m + 1, k < l PROVE upto[k] < upto[l]
    <2>1. k \in 1 .. m /\ places[k] \in 1 .. n
      BY <1>1, <1>5 DEF StackOf
    <2>2. CASE l = m + 1
      BY <1>2, <2>1, <2>2
    <2>3. CASE l # m + 1
      <3>1. l \in 1 .. m
        BY <1>1, <2>3
      <3>. QED  BY <1>2, <1>5, <2>1, <3>1 DEF StackOf
    <2>. QED  BY <2>2, <2>3
  <1>6. ASSUME NEW i \in 1 .. n + 1, StaysUpTo(path, i, n + 1)
        PROVE  \E k \in 1 .. m + 1 : upto[k] = i
    <2>1. CASE i = n + 1
      BY <1>1, <1>2, <2>1
    <2>2. CASE i # n + 1
      <3>1. i \in 1 .. n
        BY <2>2
      <3>2. StaysUpTo(path, i, n)
        BY <1>6, <3>1, BalanceNext
      <3>3. PICK k \in 1 .. m : places[k] = i
        BY <3>1, <3>2 DEF StackOf
      <3>. QED  BY <1>1, <1>2, <3>3
    <2>. QED  BY <2>1, <2>2
  <1>7. StackOf(path, n + 1, more, upto)
    <2>. DEFINE size == Len(upto)
    <2>1. size = m + 1
      BY <1>2
    <2>. HIDE DEF size, m
    <2>2. \A k \in 1 .. size : /\ upto[k] \in 1 .. n + 1
                              /\ more[k] = path[upto[k]]
                              /\ StaysUpTo(path, upto[k], n + 1)
                              /\ Balance(path, upto[k], n + 1) = size - k
      BY <1>1, <1>4, <2>1
    <2>3. \A k, l \in 1 .. size : k < l => upto[k] < upto[l]
      BY <1>1, <1>5, <2>1
    <2>4. \A i \in 1 .. n + 1 : StaysUpTo(path, i, n + 1) => \E k \in 1 .. size : upto[k] = i
      BY <1>1, <1>6, <2>1
    <2>5. upto \in Seq(Nat) /\ more \in Seq(Names) /\ Len(more) = size
      BY <1>2, <1>3, <2>1
    <2>. QED  BY <2>2, <2>3, <2>4, <2>5 DEF StackOf, size
  <1>. QED  BY <1>7 DEF more, upto

(* ".." pops the last name, if there is one: its balance is spent.          *)
LEMMA PopStack ==
  ASSUME NEW path, NEW n \in Nat, NEW parts, NEW places, StackOf(path, n, parts, places),
         path[n + 1] = ".."
  PROVE  StackOf(path, n + 1, Pop(parts), Pop(places))
  <1>. DEFINE m == Len(places)
              short == IF m = 0 THEN 0 ELSE m - 1
  <1>1. m \in Nat /\ parts \in Seq(Names) /\ places \in Seq(Nat) /\ Len(parts) = m
    BY LenProperties DEF StackOf
  <1>2. short \in Nat /\ short <= m /\ \A k \in 1 .. short : k \in 1 .. m /\ k <= m - 1
    BY <1>1
  <1>3. ASSUME NEW S, NEW seq \in Seq(S), Len(seq) = m
        PROVE  Pop(seq) \in Seq(S) /\ Len(Pop(seq)) = short /\ \A k \in 1 .. short : Pop(seq)[k] = seq[k]
    <2>1. CASE m = 0
      <3>1. seq = << >> /\ Pop(seq) = << >>
        BY <1>3, <2>1, EmptySeq DEF Pop
      <3>. QED  BY <1>3, <2>1, <3>1
    <2>2. CASE m # 0
      <3>1. seq # << >> /\ short = m - 1
        BY <1>3, <2>2, EmptySeq
      <3>2. Pop(seq) = SubSeq(seq, 1, m - 1)
        BY <1>3, <3>1 DEF Pop
      <3>3. \A i \in 1 .. m - 1 : seq[i] \in S
        BY <1>1, <1>3, ElementOfSeq
      <3>4. /\ SubSeq(seq, 1, m - 1) \in Seq(S)
            /\ Len(SubSeq(seq, 1, m - 1)) = IF 1 <= m - 1 THEN m - 1 - 1 + 1 ELSE 0
            /\ \A i \in 1 .. m - 1 - 1 + 1 : SubSeq(seq, 1, m - 1)[i] = seq[1 + i - 1]
        BY <1>1, <3>3, SubSeqProperties
      <3>. QED  BY <1>1, <2>2, <3>1, <3>2, <3>4
    <2>. QED  BY <2>1, <2>2
  <1>. DEFINE rest == Pop(places)
              fewer == Pop(parts)
  <1>4. rest \in Seq(Nat) /\ Len(rest) = short /\ \A k \in 1 .. short : rest[k] = places[k]
    BY <1>1, <1>3
  <1>5. fewer \in Seq(Names) /\ Len(fewer) = short /\ \A k \in 1 .. short : fewer[k] = parts[k]
    BY <1>1, <1>3
  <1>. HIDE DEF rest, fewer, short
  <1>6. ASSUME NEW k \in 1 .. short
        PROVE  /\ rest[k] \in 1 .. n + 1
               /\ fewer[k] = path[rest[k]]
               /\ StaysUpTo(path, rest[k], n + 1)
               /\ Balance(path, rest[k], n + 1) = short - k
    <2>1. /\ k \in 1 .. m /\ places[k] \in 1 .. n
          /\ parts[k] = path[places[k]]
          /\ StaysUpTo(path, places[k], n)
          /\ Balance(path, places[k], n) = m - k
      BY <1>2 DEF StackOf
    <2>2. /\ Balance(path, places[k], n + 1) = Balance(path, places[k], n) - 1
          /\ StaysUpTo(path, places[k], n + 1) <=>
                StaysUpTo(path, places[k], n) /\ 0 <= Balance(path, places[k], n + 1)
      BY <2>1, BalanceNext
    <2>3. Balance(path, places[k], n + 1) = short - k /\ 0 <= short - k
      <3>1. short = m - 1
        BY <1>1, <2>1 DEF short
      <3>. QED  BY <1>1, <2>1, <2>2, <3>1
    <2>. QED  BY <1>4, <1>5, <2>1, <2>2, <2>3
  <1>7. ASSUME NEW i \in 1 .. n + 1, StaysUpTo(path, i, n + 1)
        PROVE  \E k \in 1 .. short : rest[k] = i
    <2>1. i \in 1 .. n
      <3>1. path[n + 1] \notin Names
        BY NamesAssumption DEF Dots
      <3>. QED  BY <1>7, <3>1, LastStays
    <2>2. StaysUpTo(path, i, n) /\ 0 <= Balance(path, i, n + 1)
          /\ Balance(path, i, n + 1) = Balance(path, i, n) - 1
      BY <1>7, <2>1, BalanceNext
    <2>3. PICK k \in 1 .. m : places[k] = i
      BY <2>1, <2>2 DEF StackOf
    <2>4. Balance(path, i, n) = m - k
      BY <2>3 DEF StackOf
    <2>5. k \in 1 .. short
      BY <1>1, <2>2, <2>3, <2>4 DEF short
    <2>. QED  BY <1>4, <2>3, <2>5
  <1>8. ASSUME NEW k \in 1 .. short, NEW l \in 1 .. short, k < l PROVE rest[k] < rest[l]
    BY <1>2, <1>4, <1>8 DEF StackOf
  <1>. QED  BY <1>4, <1>5, <1>6, <1>7, <1>8 DEF StackOf, rest, fewer

(* Anything else leaves the stack alone.                                    *)
LEMMA KeepStack ==
  ASSUME NEW path, NEW n \in Nat, NEW parts, NEW places, StackOf(path, n, parts, places),
         path[n + 1] \notin Names \cup {".."}
  PROVE  StackOf(path, n + 1, parts, places)
  <1>1. Len(places) \in Nat
    BY LenProperties DEF StackOf
  <1>2. ASSUME NEW k \in 1 .. Len(places)
        PROVE  /\ places[k] \in 1 .. n + 1
               /\ parts[k] = path[places[k]]
               /\ StaysUpTo(path, places[k], n + 1)
               /\ Balance(path, places[k], n + 1) = Len(places) - k
    <2>1. /\ places[k] \in 1 .. n
          /\ parts[k] = path[places[k]]
          /\ StaysUpTo(path, places[k], n)
          /\ Balance(path, places[k], n) = Len(places) - k
      BY DEF StackOf
    <2>2. /\ Balance(path, places[k], n + 1) = Balance(path, places[k], n)
          /\ StaysUpTo(path, places[k], n + 1) <=>
                StaysUpTo(path, places[k], n) /\ 0 <= Balance(path, places[k], n + 1)
      BY <2>1, BalanceNext
    <2>. QED  BY <1>1, <2>1, <2>2
  <1>3. ASSUME NEW i \in 1 .. n + 1, StaysUpTo(path, i, n + 1)
        PROVE  \E k \in 1 .. Len(places) : places[k] = i
    <2>1. i \in 1 .. n
      BY <1>3, LastStays
    <2>2. StaysUpTo(path, i, n)
      BY <1>3, <2>1, BalanceNext
    <2>. QED  BY <2>1, <2>2 DEF StackOf
  <1>. QED  BY <1>2, <1>3 DEF StackOf

(* A stack of all components is what the path means.                        *)
LEMMA StackMeans ==
  ASSUME NEW path \in RawPaths, NEW parts, NEW places, StackOf(path, Len(path), parts, places)
  PROVE  Means(path, parts)
  <1>. DEFINE N == Len(path)
              m == Len(places)
              kept == { i \in DOMAIN path : Stays(path, i) }
  <1>1. N \in Nat /\ DOMAIN path = 1 .. N /\ m \in Nat /\ Len(parts) = m
    BY LenProperties DEF RawPaths, StackOf
  <1>2. \A i : i \in kept <=> \E k \in 1 .. m : places[k] = i
    <2>1. \A i \in 1 .. N : Stays(path, i) <=> StaysUpTo(path, i, N)
      BY DEF Stays, StaysUpTo
    <2>. QED  BY <1>1, <2>1 DEF StackOf
  <1>3. \A k, l \in 1 .. m : places[k] = places[l] => k = l
    <2>1. \A k \in 1 .. m : places[k] \in Nat
      BY DEF StackOf
    <2>. QED  BY <1>1, <2>1 DEF StackOf
  <1>. HIDE DEF kept
  <1>4. Cardinality(kept) = m
    <2>. DEFINE f == [k \in 1 .. m |-> places[k]]
    <2>1. f \in Bijection(1 .. m, kept)
      BY <1>2, <1>3 DEF Bijection, Injection, Surjection, IsInjective
    <2>2. ExistsBijection(1 .. m, kept)
      <3>. HIDE DEF f
      <3>. QED  BY <2>1 DEF ExistsBijection
    <2>. QED  BY <1>1, <2>2, FS_CountingElements
  <1>5. ASSUME NEW i \in kept PROVE parts[Cardinality({ n \in kept : n <= i })] = path[i]
    <2>1. PICK k \in 1 .. m : places[k] = i
      BY <1>2
    <2>. DEFINE low == { n \in kept : n <= i }
                f == [l \in 1 .. k |-> places[l]]
    <2>2. k \in Nat /\ 1 .. k \subseteq 1 .. m
      BY <1>1
    <2>3. \A l \in 1 .. m : places[l] <= i <=> l <= k
      <3>1. \A l \in 1 .. m : places[l] \in Nat
        BY DEF StackOf
      <3>. QED  BY <1>1, <2>1, <3>1 DEF StackOf
    <2>4. \A n : n \in low <=> \E l \in 1 .. k : places[l] = n
      BY <1>2, <2>2, <2>3
    <2>5. f \in Bijection(1 .. k, low)
      <3>. HIDE DEF low
      <3>. QED  BY <1>3, <2>2, <2>4 DEF Bijection, Injection, Surjection, IsInjective
    <2>6. ExistsBijection(1 .. k, low)
      <3>. HIDE DEF f, low
      <3>. QED  BY <2>5 DEF ExistsBijection
    <2>7. Cardinality(low) = k
      BY <2>2, <2>6, FS_CountingElements
    <2>. QED  BY <2>1, <2>7 DEF StackOf
  <1>. QED  BY <1>1, <1>4, <1>5 DEF Means, kept

(* A path is normalized to what it means, whatever its length and its       *)
(* components: a name stays unless a later ".." takes it back, and ".." at  *)
(* the root takes back nothing (_normalize_path).                           *)
THEOREM NormalizedIsMeant == \A path \in RawPaths : Means(path, Normalize(path))
  <1>. SUFFICES ASSUME NEW path \in RawPaths PROVE Means(path, Normalize(path))
    OBVIOUS
  <1>. DEFINE N == Len(path)
  <1>1. N \in Nat /\ \A n \in 1 .. N : path[n] \in Names \cup Dots
    BY LenProperties, ElementOfSeq DEF RawPaths
  <1>2. PICK f \in [0 .. N -> Seq(Names)] :
            /\ f[0] = << >>
            /\ \A i \in 1 .. N : f[i] = Walk(f[i - 1], path[i])
            /\ Normalize(path) = f[N]
    BY LoopValue
  <1>. HIDE DEF N
  <1>. DEFINE S == { n \in 0 .. N : \E places : StackOf(path, n, f[n], places) }
  <1>3. 0 \in S
    <2>1. StackOf(path, 0, << >>, << >>)
      BY EmptySeq DEF StackOf
    <2>. QED  BY <1>1, <1>2, <2>1
  <1>4. ASSUME NEW n \in 0 .. N - 1, n \in S PROVE n + 1 \in S
    <2>1. n \in Nat /\ n + 1 \in 1 .. N /\ n + 1 \in 0 .. N /\ (n + 1) - 1 = n
      BY <1>1
    <2>2. PICK places : StackOf(path, n, f[n], places)
      BY <1>4
    <2>3. f[n + 1] = Walk(f[n], path[n + 1])
      BY <1>2, <2>1
    <2>4. \E more : StackOf(path, n + 1, Walk(f[n], path[n + 1]), more)
      <3>1. CASE path[n + 1] \in Names
        BY <2>1, <2>2, <3>1, PushStack DEF Walk
      <3>2. CASE path[n + 1] = ".."
        <4>1. path[n + 1] \notin Names
          BY <3>2, NamesAssumption DEF Dots
        <4>. QED  BY <2>1, <2>2, <3>2, <4>1, PopStack DEF Walk
      <3>3. CASE path[n + 1] \notin Names \cup {".."}
        BY <2>1, <2>2, <3>3, KeepStack DEF Walk
      <3>. QED  BY <3>1, <3>2, <3>3
    <2>. QED  BY <2>1, <2>3, <2>4
  <1>5. \A n \in 0 .. N : n \in S
    <2>. HIDE DEF S
    <2>. QED  BY <1>1, <1>3, <1>4, TurnInduction
  <1>6. PICK places : StackOf(path, N, f[N], places)
    BY <1>1, <1>5
  <1>. QED  BY <1>2, <1>6, StackMeans DEF N

-------------------------------------------------------------------------------
(* The endpoints.                                                           *)

(* The files' abstract specification speaks of the same keys.               *)
LEMMA SameKeys ==
  /\ Tree!Keys = Keys
  /\ Tree!MergedKeys = MergedKeys
  /\ Tree!EventKeys = EventKeys
  BY DEF Tree!Keys, Tree!MergedKeys, Tree!EventKeys, Tree!Days, Keys, MergedKeys, EventKeys, Days

(* A step of the files adds to what is there, or rewrites an event's file.  *)
LEMMA TreeType ==
  ASSUME tree \in [Keys -> SUBSET Transcripts], Tree!Next
  PROVE  /\ tree' \in [Keys -> SUBSET Transcripts]
         /\ \A k \in Keys : tree[k] # {} => tree'[k] # {}
         /\ \A k \in MergedKeys : tree[k] \subseteq tree'[k]
  <1>1. PICK k \in Keys, t \in Transcripts : Tree!Merge(k, t) \/ Tree!Record(k, t)
    BY SameKeys DEF Tree!Next
  <1>2. CASE Tree!Merge(k, t)
    BY <1>2, SameKeys DEF Tree!Merge
  <1>3. CASE Tree!Record(k, t)
    <2>1. k \notin MergedKeys
      BY <1>3, SameKeys, KeysAssumption DEF Tree!Record
    <2>. QED  BY <1>3, <2>1, SameKeys DEF Tree!Record
  <1>. QED  BY <1>1, <1>2, <1>3

LEMMA NoCallType == NoCall \in Calls
  BY TranscriptsAssumption, EmptySeq DEF NoCall, Calls

LEMMA ReadsInit_Inv == ReadsInit => ReadsInv
  <1>. SUFFICES ASSUME ReadsInit PROVE ReadsInv
    OBVIOUS
  <1>. USE DEF ReadsInit
  <1>1. ReadsTypeOK
    BY NoCallType, SameKeys DEF ReadsTypeOK, Tree!Init
  <1>2. ASSUME NEW c \in Clients PROVE LocalsFit(c) /\ FilesGrow(c) /\ NothingPassedOver(c)
    BY DEF LocalsFit, FilesGrow, NothingPassedOver, NoCall, MergedKeys, Keys
  <1>. QED  BY <1>1, <1>2 DEF ReadsInv

(* The files grow: nothing that was found or is sought gets lost.           *)
LEMMA FilesStep == ReadsInv /\ Tree!Next /\ UNCHANGED <<at, call, known>> => ReadsInv'
  <1>. SUFFICES ASSUME ReadsInv, Tree!Next, UNCHANGED <<at, call, known>> PROVE ReadsInv'
    OBVIOUS
  <1>1. /\ tree' \in [Keys -> SUBSET Transcripts]
        /\ \A k \in Keys : tree[k] # {} => tree'[k] # {}
        /\ \A k \in MergedKeys : tree[k] \subseteq tree'[k]
    BY TreeType DEF ReadsInv, ReadsTypeOK
  <1>2. ReadsTypeOK'
    BY <1>1 DEF ReadsInv, ReadsTypeOK
  <1>3. ASSUME NEW c \in Clients PROVE (LocalsFit(c) /\ FilesGrow(c) /\ NothingPassedOver(c))'
    <2>1. LocalsFit(c) /\ FilesGrow(c) /\ NothingPassedOver(c)
      BY DEF ReadsInv
    <2>2. LocalsFit(c)'
      BY <2>1 DEF LocalsFit
    <2>3. known[c] \in SUBSET Facts /\ call[c].found \cup call[c].page \subseteq Keys
      BY DEF ReadsInv, ReadsTypeOK, Calls
    <2>4. FilesGrow(c)'
      BY <1>1, <2>1, <2>3 DEF FilesGrow, Exists, InScope, Facts, MergedKeys, Keys
    <2>5. NothingPassedOver(c)'
      BY <2>1 DEF NothingPassedOver, Sought, Ahead, InScope
    <2>. QED  BY <2>2, <2>4, <2>5
  <1>. QED  BY <1>2, <1>3 DEF ReadsInv

(* A step of client c leaves the calls of the others alone.                 *)
LEMMA OthersKeep ==
  ASSUME ReadsInv, NEW c \in Clients, NEW d \in Clients \ {c}, UNCHANGED tree,
         call'[d] = call[d], at'[d] = at[d], known'[d] = known[d]
  PROVE  (LocalsFit(d) /\ FilesGrow(d) /\ NothingPassedOver(d))'
  BY DEF ReadsInv, LocalsFit, FilesGrow, NothingPassedOver, Sought, Ahead, InScope, Exists

(* What a step of client c has to show.                                     *)
LEMMA OwnStep ==
  ASSUME ReadsInv, NEW c \in Clients, UNCHANGED tree,
         NEW point \in {"idle", "asked", "get", "list", "page", "answered", "failed"},
         NEW locals \in Calls, NEW facts \in SUBSET Facts,
         at' = [at EXCEPT ![c] = point],
         call' = [call EXCEPT ![c] = locals],
         known' = [known EXCEPT ![c] = facts],
         (LocalsFit(c) /\ FilesGrow(c) /\ NothingPassedOver(c))'
  PROVE  ReadsInv'
  <1>1. ReadsTypeOK'
    BY DEF ReadsInv, ReadsTypeOK
  <1>2. ASSUME NEW d \in Clients \ {c} PROVE (LocalsFit(d) /\ FilesGrow(d) /\ NothingPassedOver(d))'
    <2>1. call'[d] = call[d] /\ at'[d] = at[d] /\ known'[d] = known[d]
      BY DEF ReadsInv, ReadsTypeOK
    <2>. QED  BY <2>1, OthersKeep
  <1>. QED  BY <1>1, <1>2 DEF ReadsInv

(* The shapes that Goto, Keep and UNCHANGED give a step.                    *)
LEMMA StepShape ==
  ASSUME ReadsInv, NEW c \in Clients, UNCHANGED <<tree, known>>,
         NEW point \in {"idle", "asked", "get", "list", "page", "answered", "failed"},
         NEW locals \in Calls, Goto(c, point), Keep(c, locals),
         (LocalsFit(c) /\ FilesGrow(c) /\ NothingPassedOver(c))'
  PROVE  ReadsInv'
  <1>1. known' = [known EXCEPT ![c] = known[c]] /\ known[c] \in SUBSET Facts
    BY DEF ReadsInv, ReadsTypeOK
  <1>. QED  BY <1>1, OwnStep DEF Goto, Keep

LEMMA AskStep == ASSUME ReadsInv, NEW c \in Clients, Ask(c) PROVE ReadsInv'
  <1>1. PICK op \in {"ls", "cat", "grep"}, path \in Asked,
             word \in Transcripts : Keep(c, [NoCall EXCEPT !.op = op, !.path = path, !.word = word])
    <2>1. NoCall.word \in Transcripts
      BY NoCallType DEF Calls
    <2>. QED  BY <2>1 DEF Ask
  <1>. DEFINE locals == [NoCall EXCEPT !.op = op, !.path = path, !.word = word]
  <1>2. locals \in Calls
    BY NoCallType DEF Calls
  <1>3. call'[c] = locals /\ at'[c] = "asked" /\ known'[c] = known[c] /\ tree' = tree
    BY <1>1 DEF Ask, Keep, Goto, ReadsInv, ReadsTypeOK
  <1>4. /\ locals.op = op /\ locals.cursor = 0 /\ locals.page = {} /\ locals.found = {} /\ locals.text = {}
        /\ locals.base = [k \in Keys |-> {}]
    BY DEF NoCall
  <1>5. FilesGrow(c)
    BY DEF ReadsInv
  <1>. HIDE DEF locals
  <1>6. LocalsFit(c)'
    BY <1>3, <1>4 DEF LocalsFit
  <1>7. FilesGrow(c)'
    BY <1>3, <1>4, <1>5 DEF FilesGrow, MergedKeys, Keys
  <1>8. NothingPassedOver(c)'
    BY <1>3 DEF NothingPassedOver
  <1>9. UNCHANGED <<tree, known>> /\ Goto(c, "asked") /\ Keep(c, locals)
    BY <1>1 DEF Ask, locals
  <1>. QED  BY <1>2, <1>6, <1>7, <1>8, <1>9, StepShape

LEMMA TakeInStep == ASSUME ReadsInv, NEW c \in Clients, TakeIn(c) PROVE ReadsInv'
  <1>. DEFINE facts == known[c] \cup (Told(c) \cap Facts)
  <1>1. LocalsFit(c) /\ FilesGrow(c) /\ NothingPassedOver(c)
    BY DEF ReadsInv
  <1>2. call'[c] = NoCall /\ at'[c] = "idle" /\ known'[c] = facts /\ tree' = tree
    BY DEF TakeIn, Keep, Goto, ReadsInv, ReadsTypeOK
  <1>3. /\ NoCall.op = "none" /\ NoCall.cursor = 0 /\ NoCall.page = {} /\ NoCall.found = {} /\ NoCall.text = {}
        /\ NoCall.base = [k \in Keys |-> {}]
    BY DEF NoCall
  <1>4. facts \in SUBSET Facts
    BY DEF ReadsInv, ReadsTypeOK
  <1>5. \A fact \in Told(c) \cap Facts : fact[2] \in tree[fact[1]]
    <2>. SUFFICES ASSUME NEW fact \in Told(c) \cap Facts PROVE fact[2] \in tree[fact[1]]
      OBVIOUS
    <2>1. fact[1] \in MergedKeys
      BY DEF Facts
    <2>2. CASE call[c].op = "grep"
      <3>1. fact[1] \in call[c].found /\ fact[2] = call[c].word
        BY <2>2 DEF Told
      <3>. QED  BY <1>1, <2>1, <2>2, <3>1 DEF FilesGrow
    <2>3. CASE call[c].op # "grep"
      <3>1. fact[1] \in call[c].found /\ fact[2] \in call[c].text
        BY <2>3 DEF Told
      <3>. QED  BY <1>1, <2>1, <3>1 DEF FilesGrow
    <2>. QED  BY <2>2, <2>3
  <1>. HIDE DEF facts
  <1>6. LocalsFit(c)'
    BY <1>2, <1>3 DEF LocalsFit
  <1>7. FilesGrow(c)'
    BY <1>1, <1>2, <1>3, <1>5 DEF FilesGrow, MergedKeys, Keys, facts
  <1>8. NothingPassedOver(c)'
    BY <1>2 DEF NothingPassedOver
  <1>9. /\ at' = [at EXCEPT ![c] = "idle"] /\ call' = [call EXCEPT ![c] = NoCall]
        /\ known' = [known EXCEPT ![c] = facts] /\ UNCHANGED tree
    BY DEF TakeIn, Goto, Keep, facts
  <1>. QED  BY <1>4, <1>6, <1>7, <1>8, <1>9, NoCallType, OwnStep

LEMMA ResolveStep == ASSUME ReadsInv, NEW c \in Clients, Resolve(c) PROVE ReadsInv'
  <1>. DEFINE dir == Normalize(call[c].path)
              locals == [call[c] EXCEPT !.path = << >>, !.dir = dir, !.base = tree]
              point == IF call[c].op = "cat" THEN "get" ELSE "list"
  <1>1. call[c] \in Calls /\ at[c] = "asked" /\ tree \in [Keys -> SUBSET Transcripts]
    BY DEF ReadsInv, ReadsTypeOK, Resolve
  <1>2. LocalsFit(c) /\ FilesGrow(c)
    BY DEF ReadsInv
  <1>3. dir \in Seq(Names)
    <2>1. call[c].path \in RawPaths
      <3>1. call[c].path \in Asked \cup {<< >>}
        BY <1>1 DEF Calls
      <3>. QED  BY <3>1, PathsAssumption, EmptySeq DEF RawPaths
    <2>. QED  BY <2>1, NormalizedIsNames
  <1>. HIDE DEF dir
  <1>4. locals \in Calls
    BY <1>1, <1>3 DEF Calls
  <1>5. /\ locals.op = call[c].op /\ locals.page = call[c].page /\ locals.found = call[c].found
        /\ locals.text = call[c].text /\ locals.base = tree /\ locals.cursor = call[c].cursor
        /\ locals.word = call[c].word
    BY <1>1 DEF Calls
  <1>6. call'[c] = locals /\ at'[c] = point /\ known'[c] = known[c] /\ tree' = tree
    BY DEF Resolve, Keep, Goto, ReadsInv, ReadsTypeOK, dir
  <1>7. UNCHANGED <<tree, known>> /\ Goto(c, point) /\ Keep(c, locals)
    BY DEF Resolve, dir
  <1>. HIDE DEF locals
  <1>8. LocalsFit(c)'
    BY <1>1, <1>2, <1>5, <1>6 DEF LocalsFit
  <1>9. FilesGrow(c)'
    BY <1>1, <1>2, <1>5, <1>6 DEF FilesGrow, LocalsFit, Exists
  <1>10. NothingPassedOver(c)'
    <2>1. call'[c].cursor = 0 /\ at'[c] \in {"get", "list"}
      BY <1>1, <1>2, <1>5, <1>6 DEF LocalsFit
    <2>2. \A k \in Keys : Rank[k] > 0
      BY PathsAssumption
    <2>3. at'[c] = "list" => \A k \in Keys : Ahead(c, k)'
      BY <2>1, <2>2 DEF Ahead
    <2>. QED  BY <2>1, <2>3 DEF NothingPassedOver
  <1>. QED  BY <1>4, <1>7, <1>8, <1>9, <1>10, StepShape

LEMMA GetObjectStep == ASSUME ReadsInv, NEW c \in Clients, GetObject(c) PROVE ReadsInv'
  <1>. DEFINE files == { k \in Keys : PathOf[k] = call[c].dir /\ Exists(k) }
              text == UNION { tree[k] : k \in files }
              locals == [call[c] EXCEPT !.found = files, !.text = text]
  <1>1. call[c] \in Calls /\ at[c] = "get" /\ tree \in [Keys -> SUBSET Transcripts]
    BY DEF ReadsInv, ReadsTypeOK, GetObject
  <1>2. LocalsFit(c) /\ FilesGrow(c)
    BY DEF ReadsInv
  <1>3. files \subseteq Keys /\ text \subseteq Transcripts
    BY <1>1
  <1>4. \A k, l \in files : k = l
    BY PathsAssumption
  <1>5. \A k \in files : text = tree[k]
    BY <1>4
  <1>6. \A k \in Keys : PathOf[k] = call[c].dir /\ call[c].base[k] # {} => files = {k}
    BY <1>2, <1>4 DEF FilesGrow
  <1>. HIDE DEF text
  <1>7. locals \in Calls
    BY <1>1, <1>3 DEF Calls
  <1>8. /\ locals.op = "cat" /\ locals.page = {} /\ locals.found = files /\ locals.text = text
        /\ locals.base = call[c].base /\ locals.dir = call[c].dir
    BY <1>1, <1>2 DEF Calls, LocalsFit
  <1>9. call'[c] = locals /\ at'[c] = "answered" /\ known'[c] = known[c] /\ tree' = tree
    BY DEF GetObject, Keep, Goto, ReadsInv, ReadsTypeOK, text
  <1>10. UNCHANGED <<tree, known>> /\ Goto(c, "answered") /\ Keep(c, locals)
    BY DEF GetObject, text
  <1>. HIDE DEF locals
  <1>11. LocalsFit(c)'
    BY <1>8, <1>9 DEF LocalsFit
  <1>12. FilesGrow(c)'
    BY <1>1, <1>2, <1>5, <1>8, <1>9 DEF FilesGrow, Exists
  <1>13. NothingPassedOver(c)'
    <2>. SUFFICES ASSUME NEW k \in Keys, PathOf[k] = call[c].dir, call[c].base[k] # {}
                  PROVE  files = {k} /\ (k \in MergedKeys => call[c].base[k] \subseteq text)
      BY <1>8, <1>9 DEF NothingPassedOver
    <2>1. files = {k}
      BY <1>6
    <2>. HIDE DEF files
    <2>. QED  BY <1>2, <1>5, <2>1 DEF FilesGrow
  <1>. QED  BY <1>7, <1>10, <1>11, <1>12, <1>13, StepShape

LEMMA ListPageStep == ASSUME ReadsInv, NEW c \in Clients, ListPage(c) PROVE ReadsInv'
  <1>1. call[c] \in Calls /\ at[c] = "list" /\ tree \in [Keys -> SUBSET Transcripts]
    BY DEF ReadsInv, ReadsTypeOK, ListPage
  <1>2. LocalsFit(c) /\ FilesGrow(c) /\ NothingPassedOver(c)
    BY DEF ReadsInv
  <1>3. call[c].op \in {"ls", "grep"} /\ call[c].page = {} /\ call[c].text = {}
    BY <1>1, <1>2 DEF LocalsFit
  <1>4. \A k \in Keys : Sought(c, k) => k \in call[c].found \/ k \in ToList(c)
    <2>. SUFFICES ASSUME NEW k \in Keys, Sought(c, k), k \notin call[c].found PROVE k \in ToList(c)
      OBVIOUS
    <2>1. Rank[k] > call[c].cursor
      BY <1>1, <1>2, <1>3 DEF NothingPassedOver, Ahead
    <2>2. call[c].base[k] # {}
      BY DEF Sought
    <2>. QED  BY <1>2, <2>1, <2>2 DEF ToList, Sought, FilesGrow
  <1>5. ASSUME ToList(c) = {}, Keep(c, [call[c] EXCEPT !.more = FALSE]) PROVE ReadsInv'
    <2>. DEFINE locals == [call[c] EXCEPT !.more = FALSE]
    <2>1. locals \in Calls
      BY <1>1 DEF Calls
    <2>2. /\ locals.op = call[c].op /\ locals.page = {} /\ locals.found = call[c].found
          /\ locals.text = {} /\ locals.base = call[c].base /\ locals.dir = call[c].dir
          /\ locals.word = call[c].word
      BY <1>1, <1>3 DEF Calls
    <2>3. call'[c] = locals /\ at'[c] = "page" /\ known'[c] = known[c] /\ tree' = tree
      BY <1>5 DEF ListPage, Keep, Goto, ReadsInv, ReadsTypeOK
    <2>4. UNCHANGED <<tree, known>> /\ Goto(c, "page") /\ Keep(c, locals)
      BY <1>5 DEF ListPage
    <2>. HIDE DEF locals
    <2>5. LocalsFit(c)'
      BY <1>3, <2>2, <2>3 DEF LocalsFit
    <2>6. FilesGrow(c)'
      BY <1>1, <1>2, <1>3, <2>2, <2>3 DEF FilesGrow, Exists, InScope
    <2>7. NothingPassedOver(c)'
      BY <1>3, <1>4, <1>5, <2>2, <2>3 DEF NothingPassedOver, Sought, InScope
    <2>. QED  BY <2>1, <2>4, <2>5, <2>6, <2>7, StepShape
  <1>6. ASSUME NEW last \in ToList(c), NEW page, page = { k \in ToList(c) : Rank[k] <= Rank[last] },
               Keep(c, [call[c] EXCEPT
                          !.page   = IF call[c].op = "grep" THEN page ELSE {},
                          !.found  = IF call[c].op = "grep" THEN @ ELSE @ \cup page,
                          !.cursor = Rank[last],
                          !.more   = page # ToList(c)])
        PROVE  ReadsInv'
    <2>. DEFINE locals == [call[c] EXCEPT
                             !.page   = IF call[c].op = "grep" THEN page ELSE {},
                             !.found  = IF call[c].op = "grep" THEN @ ELSE @ \cup page,
                             !.cursor = Rank[last],
                             !.more   = page # ToList(c)]
    <2>1. page \subseteq Keys /\ \A k \in page : InScope(c, k) /\ Exists(k)
      BY <1>6 DEF ToList
    <2>2. last \in Keys /\ Rank[last] \in Nat /\ \A k \in Keys : Rank[k] \in Nat
      BY PathsAssumption DEF ToList
    <2>3. locals \in Calls
      BY <1>1, <2>1, <2>2 DEF Calls
    <2>4. /\ locals.op = call[c].op /\ locals.text = {} /\ locals.base = call[c].base
          /\ locals.dir = call[c].dir /\ locals.word = call[c].word
          /\ locals.cursor = Rank[last] /\ locals.more = (page # ToList(c))
          /\ locals.page = IF call[c].op = "grep" THEN page ELSE {}
          /\ locals.found = IF call[c].op = "grep" THEN call[c].found ELSE call[c].found \cup page
      BY <1>1, <1>3 DEF Calls
    <2>5. call'[c] = locals /\ at'[c] = "page" /\ known'[c] = known[c] /\ tree' = tree
      BY <1>6 DEF ListPage, Keep, Goto, ReadsInv, ReadsTypeOK
    <2>6. UNCHANGED <<tree, known>> /\ Goto(c, "page") /\ Keep(c, locals)
      BY <1>6 DEF ListPage
    <2>. HIDE DEF locals
    <2>7. LocalsFit(c)'
      BY <1>3, <2>4, <2>5 DEF LocalsFit
    <2>8. FilesGrow(c)'
      <3>1. call'[c].found \cup call'[c].page = call[c].found \cup page
        BY <1>3, <2>4, <2>5
      <3>2. \A k \in call[c].found \cup page : Exists(k) /\ InScope(c, k)
        BY <1>2, <1>3, <2>1 DEF FilesGrow
      <3>3. call[c].op = "grep" => call'[c].found = call[c].found
        BY <2>4, <2>5
      <3>. QED  BY <1>1, <1>2, <1>3, <2>4, <2>5, <3>1, <3>2, <3>3 DEF FilesGrow, Exists, InScope
    <2>9. NothingPassedOver(c)'
      <3>. SUFFICES ASSUME NEW k \in Keys, Sought(c, k)'
                    PROVE  k \in call'[c].found \cup call'[c].page \/ Ahead(c, k)'
        BY <2>5 DEF NothingPassedOver
      <3>1. Sought(c, k)
        BY <2>4, <2>5 DEF Sought, InScope
      <3>2. CASE k \in call[c].found \cup page
        BY <1>3, <2>4, <2>5, <3>2
      <3>3. CASE k \notin call[c].found \cup page
        <4>1. k \in ToList(c) /\ Rank[k] > Rank[last] /\ page # ToList(c)
          BY <1>4, <1>6, <2>2, <3>1, <3>3
        <4>. QED  BY <2>4, <2>5, <4>1 DEF Ahead
      <3>. QED  BY <3>2, <3>3
    <2>. QED  BY <2>3, <2>6, <2>7, <2>8, <2>9, StepShape
  <1>. QED  BY <1>5, <1>6 DEF ListPage

LEMMA ReadListedStep == ASSUME ReadsInv, NEW c \in Clients, ReadListed(c) PROVE ReadsInv'
  <1>1. PICK k \in call[c].page :
               Keep(c, [call[c] EXCEPT
                          !.page  = @ \ {k},
                          !.found = IF call[c].word \in tree[k] THEN @ \cup {k} ELSE @])
    BY DEF ReadListed
  <1>. DEFINE locals == [call[c] EXCEPT
                           !.page  = @ \ {k},
                           !.found = IF call[c].word \in tree[k] THEN @ \cup {k} ELSE @]
  <1>2. call[c] \in Calls /\ at[c] = "page" /\ tree \in [Keys -> SUBSET Transcripts]
    BY DEF ReadsInv, ReadsTypeOK, ReadListed
  <1>3. LocalsFit(c) /\ FilesGrow(c) /\ NothingPassedOver(c)
    BY DEF ReadsInv
  <1>4. call[c].op = "grep" /\ call[c].text = {} /\ k \in Keys
    BY <1>1, <1>2, <1>3 DEF LocalsFit, Calls
  <1>5. locals \in Calls
    BY <1>2, <1>4 DEF Calls
  <1>6. /\ locals.op = "grep" /\ locals.text = {} /\ locals.base = call[c].base
        /\ locals.dir = call[c].dir /\ locals.word = call[c].word
        /\ locals.cursor = call[c].cursor /\ locals.more = call[c].more
        /\ locals.page = call[c].page \ {k}
        /\ locals.found = IF call[c].word \in tree[k] THEN call[c].found \cup {k} ELSE call[c].found
    BY <1>2, <1>4 DEF Calls
  <1>7. call'[c] = locals /\ at'[c] = "page" /\ known'[c] = known[c] /\ tree' = tree
    BY <1>1 DEF ReadListed, Keep, ReadsInv, ReadsTypeOK
  <1>8. UNCHANGED <<tree, known>> /\ Goto(c, "page") /\ Keep(c, locals)
    BY <1>1, <1>2 DEF ReadListed, Goto, ReadsInv, ReadsTypeOK
  <1>. HIDE DEF locals
  <1>9. LocalsFit(c)'
    BY <1>6, <1>7 DEF LocalsFit
  <1>10. FilesGrow(c)'
    <2>1. call'[c].found \cup call'[c].page \subseteq call[c].found \cup call[c].page
      BY <1>1, <1>6, <1>7
    <2>2. \A l \in call'[c].found \cap MergedKeys : call[c].word \in tree[l]
      BY <1>3, <1>4, <1>6, <1>7 DEF FilesGrow
    <2>. QED  BY <1>2, <1>3, <1>4, <1>6, <1>7, <2>1, <2>2 DEF FilesGrow, Exists, InScope
  <1>11. NothingPassedOver(c)'
    <2>. SUFFICES ASSUME NEW l \in Keys, Sought(c, l)'
                  PROVE  l \in call'[c].found \cup call'[c].page \/ Ahead(c, l)'
      BY <1>7 DEF NothingPassedOver
    <2>1. Sought(c, l)
      BY <1>4, <1>6, <1>7 DEF Sought, InScope
    <2>2. l \in call[c].found \cup call[c].page \/ Ahead(c, l)
      BY <1>2, <1>3, <1>4, <2>1 DEF NothingPassedOver
    <2>3. call[c].word \in tree[l]
      BY <1>3, <1>4, <2>1 DEF FilesGrow, Sought
    <2>4. Ahead(c, l) => Ahead(c, l)'
      BY <1>2, <1>6, <1>7 DEF Ahead
    <2>. QED  BY <1>6, <1>7, <2>2, <2>3, <2>4
  <1>. QED  BY <1>5, <1>8, <1>9, <1>10, <1>11, StepShape

(* The call itself does not change when a page ends or the store fails.     *)
LEMMA SameCall ==
  ASSUME ReadsInv, NEW c \in Clients, UNCHANGED <<tree, call, known>>,
         NEW point \in {"list", "answered", "failed"}, Goto(c, point),
         at[c] \notin {"idle", "asked"},
         (LocalsFit(c) /\ NothingPassedOver(c))'
  PROVE  ReadsInv'
  <1>1. call[c] \in Calls /\ call' = [call EXCEPT ![c] = call[c]] /\ at'[c] = point
    BY DEF ReadsInv, ReadsTypeOK, Goto
  <1>2. FilesGrow(c)'
    BY <1>1 DEF ReadsInv, FilesGrow, Exists, InScope
  <1>. QED  BY <1>1, <1>2, StepShape DEF Keep

LEMMA EndPageStep == ASSUME ReadsInv, NEW c \in Clients, EndPage(c) PROVE ReadsInv'
  <1>. DEFINE point == IF call[c].more THEN "list" ELSE "answered"
  <1>1. LocalsFit(c) /\ NothingPassedOver(c) /\ at[c] = "page" /\ call[c].page = {}
    BY DEF ReadsInv, EndPage
  <1>2. UNCHANGED <<tree, call, known>> /\ Goto(c, point) /\ at'[c] = point
    BY DEF EndPage, Goto, ReadsInv, ReadsTypeOK
  <1>3. call[c].op \in {"ls", "grep"}
    BY <1>1 DEF LocalsFit
  <1>4. LocalsFit(c)'
    BY <1>1, <1>2, <1>3 DEF LocalsFit
  <1>5. NothingPassedOver(c)'
    BY <1>1, <1>2, <1>3 DEF NothingPassedOver, Sought, Ahead, InScope
  <1>. QED  BY <1>1, <1>2, <1>4, <1>5, SameCall

LEMMA ReadFailsStep == ASSUME ReadsInv, NEW c \in Clients, ReadFails(c) PROVE ReadsInv'
  <1>1. UNCHANGED <<tree, call, known>> /\ Goto(c, "failed") /\ at'[c] = "failed"
    BY DEF ReadFails, Goto, ReadsInv, ReadsTypeOK
  <1>2. LocalsFit(c)' /\ NothingPassedOver(c)'
    BY <1>1 DEF LocalsFit, NothingPassedOver, ReadsInv
  <1>. QED  BY <1>1, <1>2, SameCall DEF ReadFails

LEMMA ReadsStep == ReadsInv /\ [ReadsNext]_readsVars => ReadsInv'
  <1>. SUFFICES ASSUME ReadsInv, [ReadsNext]_readsVars PROVE ReadsInv'
    OBVIOUS
  <1>1. ASSUME NEW c \in Clients, Ask(c) \/ ReadStep(c) \/ ReadFails(c) \/ TakeIn(c) PROVE ReadsInv'
    BY <1>1, AskStep, ResolveStep, GetObjectStep, ListPageStep, ReadListedStep, EndPageStep,
       ReadFailsStep, TakeInStep DEF ReadStep
  <1>2. CASE Tree!Next /\ UNCHANGED <<at, call, known>>
    BY <1>2, FilesStep
  <1>3. CASE UNCHANGED readsVars
    BY <1>3 DEF readsVars, ReadsInv, ReadsTypeOK, LocalsFit, FilesGrow, NothingPassedOver,
       Sought, Ahead, InScope, Exists
  <1>. QED  BY <1>1, <1>2, <1>3 DEF ReadsNext

LEMMA ReadsInvariant == ReadsSpec => []ReadsInv
  BY ReadsInit_Inv, ReadsStep, PTL DEF ReadsSpec

(* What a call remembers of its beginning, step by step.                    *)
LEMMA BaseIsKept ==
  ASSUME ReadsInv, NEW c \in Clients, NEW d \in Clients,
         Ask(d) \/ ReadStep(d) \/ ReadFails(d) \/ TakeIn(d)
  PROVE  \/ at'[c] \in {"idle", "asked"}
         \/ at[c] = "asked" /\ call'[c].base = tree
         \/ at[c] \notin {"idle", "asked"} /\ call'[c].base = call[c].base
  <1>. USE DEF Goto, Keep
  <1>1. /\ call \in [Clients -> Calls]
        /\ at \in [Clients -> {"idle", "asked", "get", "list", "page", "answered", "failed"}]
    BY DEF ReadsInv, ReadsTypeOK
  <1>2. CASE c # d
    BY <1>1, <1>2 DEF Ask, ReadStep, Resolve, GetObject, ListPage, ReadListed, EndPage,
       ReadFails, TakeIn
  <1>3. CASE c = d /\ (Ask(d) \/ TakeIn(d))
    BY <1>1, <1>3 DEF Ask, TakeIn
  <1>4. CASE c = d /\ Resolve(d)
    BY <1>1, <1>4 DEF Resolve, Calls
  <1>5. CASE c = d /\ GetObject(d)
    BY <1>1, <1>5 DEF GetObject, Calls
  <1>6. CASE c = d /\ ListPage(d)
    <2>. SUFFICES call'[c].base = call[c].base
      BY <1>6 DEF ListPage
    <2>1. CASE Keep(c, [call[c] EXCEPT !.more = FALSE])
      BY <1>1, <2>1 DEF Calls
    <2>2. CASE ~Keep(c, [call[c] EXCEPT !.more = FALSE])
      <3>1. PICK last \in ToList(c) :
               LET page == { k \in ToList(c) : Rank[k] <= Rank[last] } IN
               Keep(c, [call[c] EXCEPT
                          !.page   = IF call[c].op = "grep" THEN page ELSE {},
                          !.found  = IF call[c].op = "grep" THEN @ ELSE @ \cup page,
                          !.cursor = Rank[last],
                          !.more   = page # ToList(c)])
        BY <1>6, <2>2 DEF ListPage
      <3>. QED  BY <1>1, <3>1 DEF Calls
    <2>. QED  BY <2>1, <2>2
  <1>7. CASE c = d /\ ReadListed(d)
    BY <1>1, <1>7 DEF ReadListed, Calls
  <1>8. CASE c = d /\ (EndPage(d) \/ ReadFails(d))
    BY <1>1, <1>8 DEF EndPage, ReadFails
  <1>. QED  BY <1>2, <1>3, <1>4, <1>5, <1>6, <1>7, <1>8 DEF ReadStep

(* What a person's or a topic's file held at the beginning, an answer shows.*)
LEMMA BaseIsShown ==
  ASSUME ReadsInv, NEW c \in Clients, NEW k \in MergedKeys, NEW t, t \in call[c].base[k]
  PROVE  /\ Answered(c, "ls") /\ InScope(c, k) => Child(call[c].dir, PathOf[k]) \in Entries(c)
         /\ Answered(c, "grep") /\ InScope(c, k) /\ call[c].word = t => k \in call[c].found
         /\ Answered(c, "cat") /\ PathOf[k] = call[c].dir =>
               call[c].found = {k} /\ t \in call[c].text
  <1>1. /\ NothingPassedOver(c)
        /\ k \in Keys
        /\ call[c].base[k] # {}
    BY DEF ReadsInv, Keys
  <1>2. Answered(c, "ls") /\ InScope(c, k) => k \in call[c].found
    BY <1>1 DEF Answered, NothingPassedOver, Sought, Ahead
  <1>3. Answered(c, "grep") /\ InScope(c, k) /\ call[c].word = t => k \in call[c].found
    BY <1>1 DEF Answered, NothingPassedOver, Sought, Ahead
  <1>4. Answered(c, "cat") /\ PathOf[k] = call[c].dir => call[c].found = {k} /\ t \in call[c].text
    BY <1>1 DEF Answered, NothingPassedOver
  <1>. QED  BY <1>2, <1>3, <1>4 DEF Entries

(* The locals of every call keep their types; in particular nothing but     *)
(* names ever reaches the store.                                            *)
THEOREM ReadsTypeCorrect == ReadsSpec => []ReadsTypeOK
  <1>1. ReadsInv => ReadsTypeOK
    BY DEF ReadsInv
  <1>. QED  BY <1>1, ReadsInvariant, PTL

(* A grep reports every person and topic that matched when it began and     *)
(* only files that match when it answers, for any number of clients, files  *)
(* and pages, and whatever is written meanwhile (search_files).             *)
THEOREM GrepCorrect == ReadsSpec => []GrepBetween
  <1>1. ReadsInv => GrepBetween
    <2>. SUFFICES ASSUME ReadsInv, NEW c \in Clients, Answered(c, "grep"), NEW k \in MergedKeys
                  PROVE  /\ InScope(c, k) /\ call[c].word \in call[c].base[k] => k \in call[c].found
                         /\ k \in call[c].found => InScope(c, k) /\ call[c].word \in tree[k]
      BY DEF GrepBetween
    <2>1. LocalsFit(c) /\ FilesGrow(c) /\ NothingPassedOver(c) /\ k \in Keys
      BY DEF ReadsInv, Keys
    <2>. QED  BY <2>1 DEF Answered, FilesGrow, NothingPassedOver, Sought, Ahead
  <1>. QED  BY <1>1, ReadsInvariant, PTL

(* An ls lists every entry there was when it began, and only such as are    *)
(* there when it answers (list_directory).                                  *)
THEOREM LsCorrect == ReadsSpec => []LsBetween
  <1>1. ReadsInv => LsBetween
    <2>. SUFFICES ASSUME ReadsInv, NEW c \in Clients, Answered(c, "ls")
                  PROVE  /\ ChildrenIn(call[c].dir, { k \in Keys : call[c].base[k] # {} }) \subseteq Entries(c)
                         /\ Entries(c) \subseteq ChildrenIn(call[c].dir, { k \in Keys : Exists(k) })
      BY DEF LsBetween
    <2>1. LocalsFit(c) /\ FilesGrow(c) /\ NothingPassedOver(c) /\ call[c].found \subseteq Keys
      BY DEF ReadsInv, ReadsTypeOK, Calls
    <2>2. \A k \in Keys : Below(call[c].dir, PathOf[k]) /\ call[c].base[k] # {} => k \in call[c].found
      BY <2>1 DEF Answered, NothingPassedOver, Sought, Ahead, InScope
    <2>3. \A k \in call[c].found : k \in Keys /\ Exists(k) /\ Below(call[c].dir, PathOf[k])
      BY <2>1 DEF Answered, FilesGrow, InScope
    <2>. QED  BY <2>2, <2>3 DEF ChildrenIn, Entries
  <1>. QED  BY <1>1, ReadsInvariant, PTL

(* What one answer told a client, every later one about that file repeats   *)
(* (read_file, search_files).                                               *)
THEOREM NothingIsForgotten == ReadsSpec => []NothingForgotten
  <1>1. ReadsInv => NothingForgotten
    <2>. SUFFICES ASSUME ReadsInv, NEW c \in Clients, NEW fact \in known[c]
                  PROVE  LET k == fact[1] IN
                         /\ Answered(c, "grep") /\ InScope(c, k) /\ fact[2] = call[c].word
                               => k \in call[c].found
                         /\ Answered(c, "cat") /\ PathOf[k] = call[c].dir
                               => call[c].found = {k} /\ fact[2] \in call[c].text
      BY DEF NothingForgotten
    <2>1. LocalsFit(c) /\ FilesGrow(c) /\ NothingPassedOver(c)
      BY DEF ReadsInv
    <2>2. fact[1] \in MergedKeys /\ fact[1] \in Keys
      BY DEF ReadsInv, ReadsTypeOK, Facts, Keys
    <2>3. at[c] = "answered" => fact[2] \in call[c].base[fact[1]]
      BY <2>1 DEF FilesGrow
    <2>4. Answered(c, "grep") /\ InScope(c, fact[1]) /\ fact[2] = call[c].word
            => fact[1] \in call[c].found
      BY <2>1, <2>2, <2>3 DEF Answered, NothingPassedOver, Sought, Ahead
    <2>5. Answered(c, "cat") /\ PathOf[fact[1]] = call[c].dir
            => call[c].found = {fact[1]} /\ fact[2] \in call[c].text
      BY <2>1, <2>2, <2>3 DEF Answered, NothingPassedOver
    <2>. QED  BY <2>4, <2>5
  <1>. QED  BY <1>1, ReadsInvariant, PTL

(* Whatever path a client asks for, the handler resolves it to what a walk  *)
(* through directories would make of it, for paths of any length            *)
(* (_normalize_path).                                                       *)
THEOREM AskedPathsResolve == ReadsSpec => []PathsResolve
  <1>1. ReadsInv => PathsResolve
    <2>. SUFFICES ASSUME ReadsInv, NEW c \in Clients
                  PROVE  Means(call[c].path, Normalize(call[c].path))
      BY DEF PathsResolve
    <2>1. << >> \in RawPaths
      BY EmptySeq DEF RawPaths
    <2>2. call[c].path \in RawPaths
      BY <2>1, PathsAssumption DEF ReadsInv, ReadsTypeOK, Calls
    <2>. QED  BY <2>2, NormalizedIsMeant
  <1>. QED  BY <1>1, ReadsInvariant, PTL
===============================================================================
