------------------------------ MODULE MemoryReads ------------------------------
(***************************************************************************)
(* The memory endpoints: ls (GET /memories/tree), cat (/file) and grep     *)
(* (/search), while workers write.  An ls or a grep lists the bucket page  *)
(* by page, in the order of the keys, and a grep reads each file of a page *)
(* before it fetches the next page.  Every call of the store is a step.    *)
(*                                                                         *)
(* The files change as MemoryTree says and in no other way.  A client      *)
(* greps for words that stand in a file as soon as a certain transcript    *)
(* was merged into it.                                                     *)
(***************************************************************************)
EXTENDS MemoryKeys, MemoryPaths

CONSTANTS
    Clients,    \* clients of the endpoints, one call at a time each
    PathOf,     \* PathOf[k]: where file k lies
    Rank,       \* Rank[k]: the order in which the store lists its keys
    Asked       \* the paths clients ask for

ASSUME PathsAssumption ==
    /\ PathOf \in [Keys -> Seq(Names)]
    /\ \A k, l \in Keys : PathOf[k] = PathOf[l] => k = l
    /\ \A k, l \in Keys : ~Below(PathOf[k], PathOf[l])
    /\ Rank \in [Keys -> Nat \ {0}]
    /\ \A k, l \in Keys : Rank[k] = Rank[l] => k = l
    /\ Asked \subseteq RawPaths

VARIABLES
    tree,       \* tree[k]: the transcripts whose facts file k holds, {} if no file
    at,         \* at[c]: where the call of client c stands
    call,       \* call[c]: what c asked for, and the locals of the handler
    known       \* known[c]: the facts c was told before the call

readsVars == <<tree, at, call, known>>

Tree == INSTANCE MemoryTree

Facts == MergedKeys \X Transcripts

NoCall ==
    [op |-> "none", path |-> << >>, word |-> CHOOSE t \in Transcripts : TRUE,
     dir |-> << >>, cursor |-> 0, more |-> FALSE, page |-> {}, found |-> {}, text |-> {},
     base |-> [k \in Keys |-> {}]]

Calls ==
    [op : {"none", "ls", "cat", "grep"}, path : Asked \cup {<< >>}, word : Transcripts,
     dir : Seq(Names), cursor : Nat, more : BOOLEAN, page : SUBSET Keys,
     found : SUBSET Keys, text : SUBSET Transcripts, base : [Keys -> SUBSET Transcripts]]

ReadsTypeOK ==
    /\ tree \in [Keys -> SUBSET Transcripts]
    /\ at \in [Clients -> {"idle", "asked", "get", "list", "page", "answered", "failed"}]
    /\ call \in [Clients -> Calls]
    /\ known \in [Clients -> SUBSET Facts]

ReadsInit ==
    /\ Tree!Init
    /\ at = [c \in Clients |-> "idle"]
    /\ call = [c \in Clients |-> NoCall]
    /\ known = [c \in Clients |-> {}]

-------------------------------------------------------------------------------

Exists(k) == tree[k] # {}

InScope(c, k) == Below(call[c].dir, PathOf[k])

Goto(c, point) == at' = [at EXCEPT ![c] = point]

Keep(c, locals) == call' = [call EXCEPT ![c] = locals]

(* The facts that the answer tells the client.                              *)
Told(c) ==
    CASE at[c] # "answered"   -> {}
      [] call[c].op = "grep"  -> call[c].found \X {call[c].word}
      [] OTHER                -> call[c].found \X call[c].text

Ask(c) ==
    /\ at[c] = "idle"
    /\ \E op \in {"ls", "cat", "grep"}, path \in Asked :
       \E word \in IF op = "grep" THEN Transcripts ELSE {NoCall.word} :
          Keep(c, [NoCall EXCEPT !.op = op, !.path = path, !.word = word])
    /\ Goto(c, "asked")
    /\ UNCHANGED <<tree, known>>

(* The client takes in the answer and is free to ask again.                 *)
TakeIn(c) ==
    /\ at[c] \in {"answered", "failed"}
    /\ known' = [known EXCEPT ![c] = @ \cup (Told(c) \cap Facts)]
    /\ Keep(c, NoCall)
    /\ Goto(c, "idle")
    /\ UNCHANGED tree

(* The handler turns the path into a key or into a prefix.  What the store  *)
(* holds at that moment (base) is remembered for the properties alone.      *)
Resolve(c) ==
    /\ at[c] = "asked"
    /\ Keep(c, [call[c] EXCEPT !.path = << >>, !.dir = Normalize(call[c].path), !.base = tree])
    /\ Goto(c, IF call[c].op = "cat" THEN "get" ELSE "list")
    /\ UNCHANGED <<tree, known>>

(* cat: one get_object; nothing found is a 404.  (For the root the client   *)
(* library refuses the empty key: ReadFails.)                               *)
GetObject(c) ==
    /\ at[c] = "get"
    /\ call[c].dir # << >>
    /\ LET files == { k \in Keys : PathOf[k] = call[c].dir /\ Exists(k) }
       IN  Keep(c, [call[c] EXCEPT !.found = files,
                                   !.text = UNION { tree[k] : k \in files }])
    /\ Goto(c, "answered")
    /\ UNCHANGED <<tree, known>>

(* Mutant: the next page starts one key late.                               *)
ListAfterNext(c) ==
    LET ahead == { k \in Keys : InScope(c, k) /\ Exists(k) /\ Rank[k] > call[c].cursor + 1 } IN
    /\ at[c] = "list"
    /\ \/ /\ ahead = {}
          /\ Keep(c, [call[c] EXCEPT !.more = FALSE])
       \/ \E last \in ahead :
             LET page == { k \in ahead : Rank[k] <= Rank[last] } IN
             Keep(c, [call[c] EXCEPT
                        !.page   = IF call[c].op = "grep" THEN page ELSE {},
                        !.found  = IF call[c].op = "grep" THEN @ ELSE @ \cup page,
                        !.cursor = Rank[last],
                        !.more   = page # ahead])
    /\ Goto(c, "page")
    /\ UNCHANGED <<tree, known>>

(* The keys of the prefix that a listing has not come to.                   *)
ToList(c) == { k \in Keys : InScope(c, k) /\ Exists(k) /\ Rank[k] > call[c].cursor }

(* list_objects_v2: the next keys of the prefix in order, as many as the    *)
(* store cares to return (at most 1000), and whether there were more.  An   *)
(* ls keeps them for its entries; a grep reads them first.                  *)
ListPage(c) ==
    /\ at[c] = "list"
    /\ \/ /\ ToList(c) = {}
          /\ Keep(c, [call[c] EXCEPT !.more = FALSE])
       \/ \E last \in ToList(c) :
             LET page == { k \in ToList(c) : Rank[k] <= Rank[last] } IN
             Keep(c, [call[c] EXCEPT
                        !.page   = IF call[c].op = "grep" THEN page ELSE {},
                        !.found  = IF call[c].op = "grep" THEN @ ELSE @ \cup page,
                        !.cursor = Rank[last],
                        !.more   = page # ToList(c)])
    /\ Goto(c, "page")
    /\ UNCHANGED <<tree, known>>

(* grep: the files of the page are read in their order, and reported if     *)
(* they match.                                                              *)
ReadListed(c) ==
    /\ at[c] = "page"
    /\ \E k \in call[c].page :
          /\ \A l \in call[c].page : Rank[k] <= Rank[l]
          /\ Keep(c, [call[c] EXCEPT
                        !.page  = @ \ {k},
                        !.found = IF call[c].word \in tree[k] THEN @ \cup {k} ELSE @])
    /\ UNCHANGED <<tree, at, known>>

(* Mutant: one list_objects_v2, no paginator.                               *)
EndFirstPage(c) ==
    /\ at[c] = "page"
    /\ call[c].page = {}
    /\ Goto(c, "answered")
    /\ UNCHANGED <<tree, call, known>>

EndPage(c) ==
    /\ at[c] = "page"
    /\ call[c].page = {}
    /\ Goto(c, IF call[c].more THEN "list" ELSE "answered")
    /\ UNCHANGED <<tree, call, known>>

(* The store refuses a call: the endpoint answers 500.                      *)
ReadFails(c) ==
    /\ at[c] \in {"get", "list", "page"}
    /\ Goto(c, "failed")
    /\ UNCHANGED <<tree, call, known>>

(* The children that an ls answers with.                                    *)
Entries(c) == { Child(call[c].dir, PathOf[k]) : k \in call[c].found }

ReadStep(c) ==
    Resolve(c) \/ GetObject(c) \/ ListPage(c) \/ ReadListed(c) \/ EndPage(c)

ReadsNext ==
    \/ \E c \in Clients : Ask(c) \/ ReadStep(c) \/ ReadFails(c) \/ TakeIn(c)
    \/ Tree!Next /\ UNCHANGED <<at, call, known>>

ReadsSpec == ReadsInit /\ [][ReadsNext]_readsVars

-------------------------------------------------------------------------------

Answered(c, op) == at[c] = "answered" /\ call[c].op = op

(* A grep over a tree that changes under it is no snapshot, but it lies     *)
(* between two: it reports every person and topic that matched when it      *)
(* began, and only files that match by the time it answers, however pages,  *)
(* reads and writes interleave (search_files).                              *)
GrepBetween ==
    \A c \in Clients : Answered(c, "grep") =>
        \A k \in MergedKeys :
            /\ InScope(c, k) /\ call[c].word \in call[c].base[k] => k \in call[c].found
            /\ k \in call[c].found => InScope(c, k) /\ call[c].word \in tree[k]

ChildrenIn(dir, files) ==
    { Child(dir, PathOf[k]) : k \in { l \in files : Below(dir, PathOf[l]) } }

(* So does an ls: every entry that was there when it began, and none that   *)
(* is not there when it answers (list_directory).                           *)
LsBetween ==
    \A c \in Clients : Answered(c, "ls") =>
        /\ ChildrenIn(call[c].dir, { k \in Keys : call[c].base[k] # {} }) \subseteq Entries(c)
        /\ Entries(c) \subseteq ChildrenIn(call[c].dir, { k \in Keys : Exists(k) })

(* Reads never go back in time: what one answer told a client of a person   *)
(* or topic, every later answer about that file repeats, and no file it was *)
(* told of is a 404 (read_file after search_files or the other way round).  *)
NothingForgotten ==
    \A c \in Clients : \A fact \in known[c] :
        LET k == fact[1] IN
        /\ Answered(c, "grep") /\ InScope(c, k) /\ fact[2] = call[c].word
              => k \in call[c].found
        /\ Answered(c, "cat") /\ PathOf[k] = call[c].dir
              => call[c].found = {k} /\ fact[2] \in call[c].text

(* Whatever a client writes, the path means what a walk through directories *)
(* would make of it, cut off at the root, and no special component reaches  *)
(* the store (_normalize_path).                                             *)
PathsResolve ==
    \A c \in Clients : at[c] = "asked" => Means(call[c].path, Normalize(call[c].path))

(* What a call has to come to, and has not yet if the cursor is before it.  *)
Sought(c, k) ==
    /\ InScope(c, k)
    /\ IF call[c].op = "grep" THEN k \in MergedKeys /\ call[c].word \in call[c].base[k]
                              ELSE call[c].base[k] # {}

Ahead(c, k) ==
    /\ Rank[k] > call[c].cursor
    /\ at[c] = "list" \/ (at[c] = "page" /\ call[c].more)

(* The locals of a call fit the operation and the point it has reached.     *)
LocalsFit(c) ==
    /\ at[c] = "asked" => call[c].op \in {"ls", "cat", "grep"}
    /\ at[c] = "get" => call[c].op = "cat"
    /\ at[c] \in {"list", "page"} => call[c].op \in {"ls", "grep"}
    /\ at[c] \in {"idle", "asked", "get", "list"} => call[c].page = {}
    /\ at[c] \in {"idle", "asked", "get"} => call[c].found = {} /\ call[c].cursor = 0
    /\ call[c].op # "grep" => call[c].page = {}
    /\ at[c] \in {"idle", "asked", "get"} \/ call[c].op # "cat" => call[c].text = {}

(* What was found is still true, for files only grow: what was there at the *)
(* start (base), and what the client knew before it.                        *)
FilesGrow(c) ==
    /\ \A fact \in known[c] : fact[2] \in tree[fact[1]]
    /\ at[c] \notin {"idle", "asked"} =>
          \A fact \in known[c] : fact[2] \in call[c].base[fact[1]]
    /\ \A k \in Keys : call[c].base[k] # {} => Exists(k)
    /\ \A k \in MergedKeys : call[c].base[k] \subseteq tree[k]
    /\ \A k \in call[c].found \cup call[c].page : Exists(k)
    /\ call[c].op # "cat" => \A k \in call[c].found \cup call[c].page : InScope(c, k)
    /\ \A k \in call[c].found \cap MergedKeys :
          /\ call[c].op = "grep" => call[c].word \in tree[k]
          /\ call[c].text \subseteq tree[k]

(* What is sought is found, about to be read, or still ahead.               *)
NothingPassedOver(c) ==
    /\ at[c] \in {"list", "page", "answered"} /\ call[c].op # "cat" =>
          \A k \in Keys : Sought(c, k) => k \in call[c].found \cup call[c].page \/ Ahead(c, k)
    /\ at[c] = "answered" => call[c].page = {}
    /\ at[c] = "answered" /\ call[c].op = "cat" =>
          \A k \in Keys : PathOf[k] = call[c].dir /\ call[c].base[k] # {} =>
              /\ call[c].found = {k}
              /\ k \in MergedKeys => call[c].base[k] \subseteq call[c].text

(* Inductive.                                                               *)
ReadsInv ==
    /\ ReadsTypeOK
    /\ \A c \in Clients : LocalsFit(c) /\ FilesGrow(c) /\ NothingPassedOver(c)
===============================================================================
