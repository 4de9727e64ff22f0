------------------------------ MODULE MemoryPaths ------------------------------
(***************************************************************************)
(* Paths of the memory tree.  A path is what "/" splits it into: names,    *)
(* and "", "." and ".." between them.  The client may write anything; the  *)
(* store knows only sequences of names.                                    *)
(***************************************************************************)
EXTENDS Naturals, Sequences, FiniteSets

CONSTANT Names      \* components that are plain names

Dots == {"", ".", ".."}

ASSUME NamesAssumption == Names \cap Dots = {}

RawPaths == Seq(Names \cup Dots)

Pop(parts) == IF parts = << >> THEN << >> ELSE SubSeq(parts, 1, Len(parts) - 1)

(* Mutant: ".." is dropped as "." is.                                       *)
WalkDots(parts, part) == IF part \in Names THEN Append(parts, part) ELSE parts

(* One turn of the loop: a name is appended, ".." takes the last one back,  *)
(* anything else is skipped.                                                *)
Walk(parts, part) ==
    IF part \in Names THEN Append(parts, part)
    ELSE IF part = ".." THEN Pop(parts)
    ELSE parts

(* _normalize_path: stripping and collapsing slashes drops empty components,*)
(* which the loop skips as well.                                            *)
Normalize(path) ==
    LET parts[i \in 0 .. Len(path)] ==
            IF i = 0 THEN << >> ELSE Walk(parts[i - 1], path[i])
    IN  parts[Len(path)]

(* prefix + "/" is a prefix of the key: it lies in the directory or below.  *)
Below(dir, path) ==
    /\ Len(dir) < Len(path)
    /\ \A i \in DOMAIN dir : dir[i] = path[i]

(* An entry of directory dir on the way to path.                            *)
Child(dir, path) == SubSeq(path, 1, Len(dir) + 1)

-------------------------------------------------------------------------------
(* What a path means, position by position: a name counts unless a later    *)
(* ".." takes it back, and each ".." takes back at most one name.           *)

Count(path, i, j, S) == Cardinality({ n \in i .. j : path[n] \in S })

Stays(path, i) ==
    /\ path[i] \in Names
    /\ \A j \in i + 1 .. Len(path) :
          Count(path, i + 1, j, {".."}) <= Count(path, i + 1, j, Names)

Means(path, parts) ==
    LET kept == { i \in DOMAIN path : Stays(path, i) }
    IN  /\ Len(parts) = Cardinality(kept)
        /\ \A i \in kept : parts[Cardinality({ n \in kept : n <= i })] = path[i]
===============================================================================
