------------------------------- MODULE SdTree -------------------------------
(***************************************************************************)
(* Directories and files under the calls of class SdFat (libraries/SdFat:  *)
(* SdFat.cpp, SdBaseFile.cpp, SdBaseFilePrint.cpp, SdVolume.cpp), on a     *)
(* card that does not fail: what module SdFile shows for the few calls of  *)
(* the logger under faults, this one shows for the calls the logger and    *)
(* the other sketches of the repository may make, on a card that is full   *)
(* or in use.                                                              *)
(*                                                                         *)
(* The state an operation works on is a record s; s.dir is the directory   *)
(* object an open() searches, s.h the object it opens.  FAT16: the root    *)
(* directory has a fixed place.  The cache is left out, for without faults *)
(* nobody can tell it from the card.                                       *)
(***************************************************************************)
EXTENDS FileTree, FiniteSets, FiniteSetsExt

CONSTANTS
  Clusters,         \* data clusters, numbered from 2; all counts are positive
  RootSlots,        \* entries of the root directory, 512 in the code
  SlotsPerCluster,  \* entries of a cluster: 16 in each block; more than 2
  UnitsPerCluster,  \* length of a file is counted in units
  Spellings,        \* names as a path may spell them
  name83,           \* function: what make83Name() makes of each, or Invalid
  MaxDepth,         \* bound: names in a path
  Sizes,            \* bound: units of a write, lengths for truncate()
  MaxSize,          \* bound: length of a file
  Cards,            \* bound: calls that were made before
  MaxCalls          \* bound: number of calls

Cluster == 2..(Clusters + 1)
EOC == Clusters + 100
FREE == "free"          \* DIR_NAME_FREE
DELETED == "deleted"    \* DIR_NAME_DELETED
Special == {FREE, DELETED, ".", ".."}
Place == ({0} \X (0..(RootSlots - 1))) \cup (Cluster \X (0..(SlotsPerCluster - 1)))

EmptySlot == [name |-> FREE, dir |-> FALSE, first |-> 0, size |-> 0]
Closed == [type |-> "closed", first |-> 0, size |-> 0, at |-> <<0, 0>>]
Root == [Closed EXCEPT !.type = "root", !.size = RootSlots]   \* openRoot()

VARIABLES
  fat,      \* next cluster, EOC, or 0 for a free one
  slots,    \* directory entries, of the root (0) and of each cluster
  alloc,    \* m_allocSearchStart
  vwd,      \* m_vwd, the working directory
  calls,    \* what MaxCalls counts
  leaked,   \* history: a write failed after the first cluster was taken
  spoiled   \* history: see Spoil

vars == <<fat, slots, alloc, vwd, calls, leaked, spoiled>>

Ok(s) == [s EXCEPT !.ok = TRUE]
Fail(s) == [s EXCEPT !.ok = FALSE]
\* Where the code goes on with something the model does not follow.
Spoil(s) == [s EXCEPT !.ok = FALSE, !.spoiled = TRUE]
Then(s, Next1(_)) == IF s.ok THEN Next1(s) ELSE s

-----------------------------------------------------------------------------
(***************************************************************************)
(* SdVolume: chains of clusters.                                           *)
(***************************************************************************)
RECURSIVE chain(_, _, _)
chain(f, c, n) ==
  IF c \notin Cluster \/ n = 0 THEN <<>> ELSE <<c>> \o chain(f, f[c], n - 1)
Chain(s, first) == chain(s.fat, first, Clusters)

freeChain(s, first) ==
  LET cs == Range(Chain(s, first))
  IN [s EXCEPT !.fat = [c \in Cluster |-> IF c \in cs THEN 0 ELSE @[c]],
               !.alloc = Min(cs \cup {@})]

\* The group that is being looked at begins at bgn; its next cluster is c.
RECURSIVE group(_, _, _, _, _, _)
group(s, count, n, bgn, c, start) ==
  IF n >= Clusters THEN Fail(s)
  ELSE IF c > Clusters + 1 THEN group(s, count, n, 2, 2, start)
  ELSE IF s.fat[c] # 0
       THEN group(s, count, n + 1, c + 1, c + 1, start /\ bgn = c)
  ELSE IF c - bgn + 1 < count THEN group(s, count, n + 1, bgn, c + 1, start)
  ELSE [s EXCEPT !.value = bgn, !.alloc = IF start THEN c + 1 ELSE @]

\* Mutant: the new group is not connected to the chain.
allocUnconnected(s, count, cur) ==
  LET Link(t) == [t EXCEPT !.fat = [c \in Cluster |->
                    IF c \in t.value..(t.value + count - 2) THEN c + 1
                    ELSE IF c = t.value + count - 1 THEN EOC ELSE @[c]]]
      from == IF cur # 0 THEN cur + 1 ELSE s.alloc
  IN Then(group(s, count, 0, from, from, cur = 0), Link)

allocContiguous(s, count, cur) ==
  LET Link(t) == [t EXCEPT !.fat = [c \in Cluster |->
                    IF c \in t.value..(t.value + count - 2) THEN c + 1
                    ELSE IF c = t.value + count - 1 THEN EOC
                    ELSE IF c = cur THEN t.value ELSE @[c]]]
      from == IF cur # 0 THEN cur + 1 ELSE s.alloc
  IN Then(group(s, count, 0, from, from, cur = 0), Link)

-----------------------------------------------------------------------------
(***************************************************************************)
(* SdBaseFile: entries of a directory, in the order a search meets them.   *)
(***************************************************************************)
Places(s, d) ==
  LET cs == Chain(s, d.first)
  IN [i \in 1..d.size |->
        IF d.type = "root" THEN <<0, i - 1>>
        ELSE <<cs[(i - 1) \div SlotsPerCluster + 1], (i - 1) % SlotsPerCluster>>]

dirSize(s, first) == SlotsPerCluster * Len(Chain(s, first))

\* addCluster(): after the last cluster of directory object d.
addDirCluster(s, d) ==
  LET cs == Chain(s, d.first)
      cur == IF cs = <<>> THEN 0 ELSE Last(cs)
      Zero(t) == [t EXCEPT
        !.slots = [p \in Place |-> IF p[1] = t.value THEN EmptySlot ELSE @[p]],
        !.vwd.size = IF d.type = "sub" /\ t.vwd.first = d.first
                     THEN @ + SlotsPerCluster ELSE @]
  IN Then(allocContiguous(s, 1, cur), Zero)

\* The object is open on the entry at "at".
openCachedEntry(s, at, flags) ==
  LET e == s.slots[at]
      Opened == [s EXCEPT
        !.h = [type |-> IF e.dir THEN "sub" ELSE "file", first |-> e.first, at |-> at,
               size |-> IF e.dir THEN dirSize(s, e.first) ELSE e.size],
        !.twice = @ \/ (e.dir /\ s.vwd.first = e.first)]
  IN IF e.dir /\ "WRITE" \in flags THEN Fail([s EXCEPT !.h = Closed]) ELSE Ok(Opened)

\* Mutant: a deleted entry ends the search, as a free one does.
openStopsAtDeleted(s, name, flags) ==
  LET ps == Places(s, s.dir)
      stops == {i \in DOMAIN ps : s.slots[ps[i]].name \in {FREE, DELETED, name}}
      last == IF stops = {} THEN Len(ps) ELSE Min(stops)
      empty == {i \in 1..last : s.slots[ps[i]].name \in {FREE, DELETED}}
      Enter(t, at) == openCachedEntry(
        [t EXCEPT !.slots[at] = [EmptySlot EXCEPT !.name = name]], at, flags)
      InNew(t) == Enter(t, <<t.value, 0>>)
  IN IF s.dir.type = "file" THEN Spoil(s)
     ELSE IF stops # {} /\ s.slots[ps[last]].name = name
     THEN IF "EXCL" \in flags THEN Fail(s) ELSE openCachedEntry(s, ps[last], flags)
     ELSE IF "CREAT" \notin flags THEN Fail(s)
     ELSE IF empty # {} THEN Enter(s, ps[Min(empty)])
     ELSE IF s.dir.type = "root" THEN Fail(s)
     ELSE Then(addDirCluster(s, s.dir), InNew)

\* open() by a name of directory s.dir.  flags: a subset of {"WRITE",
\* "CREAT", "EXCL"}.  A file is searched as if it were a directory.
open(s, name, flags) ==
  LET ps == Places(s, s.dir)
      stops == {i \in DOMAIN ps : s.slots[ps[i]].name \in {FREE, name}}
      last == IF stops = {} THEN Len(ps) ELSE Min(stops)
      empty == {i \in 1..last : s.slots[ps[i]].name \in {FREE, DELETED}}
      Enter(t, at) == openCachedEntry(
        [t EXCEPT !.slots[at] = [EmptySlot EXCEPT !.name = name]], at, flags)
      InNew(t) == Enter(t, <<t.value, 0>>)
  IN IF s.dir.type = "file" THEN Spoil(s)
     ELSE IF stops # {} /\ s.slots[ps[last]].name = name
     THEN IF "EXCL" \in flags THEN Fail(s) ELSE openCachedEntry(s, ps[last], flags)
     ELSE IF "CREAT" \notin flags THEN Fail(s)
     ELSE IF empty # {} THEN Enter(s, ps[Min(empty)])
     ELSE IF s.dir.type = "root" THEN Fail(s)
     ELSE Then(addDirCluster(s, s.dir), InNew)

Start(s, path) == [s EXCEPT !.dir = IF path.abs THEN Root ELSE s.vwd]

\* open() by a path: the directories on the way, then the name.
RECURSIVE openNames(_, _, _)
openNames(s, names, flags) ==
  LET Down(t) == openNames([t EXCEPT !.dir = t.h], Tail(names), flags)
  IN IF names = <<>> \/ name83[Head(names)] = Invalid THEN Fail(s)
     ELSE IF Len(names) = 1 THEN open(s, name83[Head(names)], flags)
     ELSE Then(open(s, name83[Head(names)], {}), Down)

openPath(s, path, flags) == openNames(Start(s, path), path.names, flags)

-----------------------------------------------------------------------------
(***************************************************************************)
(* Directories are made.                                                   *)
(***************************************************************************)
mkdirIn(s, name) ==
  LET parent == s.dir
      Cluster1(t) == addDirCluster(t, [t.h EXCEPT !.type = "new"])
      Dots(t) ==
        LET c == t.value
            Dot(n, first) == [name |-> n, dir |-> TRUE, first |-> first, size |-> 0]
        IN [t EXCEPT !.slots[t.h.at].dir = TRUE, !.slots[t.h.at].first = c,
                     !.slots[<<c, 0>>] = Dot(".", c),
                     !.slots[<<c, 1>>] = Dot("..", parent.first),
                     !.h.type = "sub", !.h.first = c, !.h.size = SlotsPerCluster]
  IN IF parent.type = "file" THEN Fail(s)
     ELSE Then(Then(open(s, name, {"CREAT", "EXCL", "WRITE"}), Cluster1), Dots)

RECURSIVE mkdirNames(_, _, _)
mkdirNames(s, names, pFlag) ==
  LET name == name83[Head(names)]
      Down(t) == mkdirNames([t EXCEPT !.dir = t.h], Tail(names), pFlag)
      Found(t) == IF t.ok \/ t.spoiled \/ ~pFlag THEN t ELSE mkdirIn(s, name)
  IN IF names = <<>> \/ name = Invalid THEN Fail(s)
     ELSE IF Len(names) = 1 THEN mkdirIn(s, name)
     ELSE Then(Found(open(s, name, {})), Down)

mkdir(s, path, pFlag) == mkdirNames(Start(s, path), path.names, pFlag)

-----------------------------------------------------------------------------
(***************************************************************************)
(* Files grow and shrink.  sync() carries size and first cluster into the  *)
(* entry.                                                                  *)
(***************************************************************************)
sync(s) == Ok([s EXCEPT !.slots[s.h.at].size = s.h.size,
                        !.slots[s.h.at].first = s.h.first])

\* The cluster that holds unit pos - 1 of the open file: seekSet().
ClusterAt(s, pos) ==
  IF pos = 0 THEN 0 ELSE Chain(s, s.h.first)[(pos - 1) \div UnitsPerCluster + 1]

truncate(s, length) ==
  LET keep == ClusterAt(s, length)
      Cut == [freeChain(s, s.fat[keep]) EXCEPT !.fat[keep] = EOC]
  IN IF s.h.type # "file" \/ length > s.h.size THEN Fail(s)
     ELSE IF s.h.size = 0 THEN Ok(s)
     ELSE IF length = 0
     THEN sync([freeChain(s, s.h.first) EXCEPT !.h.first = 0, !.h.size = 0])
     ELSE sync([Cut EXCEPT !.h.size = length])

\* write(), unit by unit from position pos in cluster cur.
RECURSIVE writeUnits(_, _, _, _)
writeUnits(s, n, pos, cur) ==
  LET next == IF cur = 0 THEN s.h.first ELSE s.fat[cur]
      Added(t) == [t EXCEPT !.h.first = IF @ = 0 THEN t.value ELSE @]
      Go(t) == writeUnits(t, n - 1, pos + 1, t.value)
  IN IF n = 0 THEN Ok([s EXCEPT !.h.size = pos])
     ELSE IF pos % UnitsPerCluster # 0 THEN Go([s EXCEPT !.value = cur])
     ELSE IF next \in Cluster THEN Go([s EXCEPT !.value = next])
     ELSE Then(Then(allocContiguous(s, 1, cur), Added), Go)

\* A file is opened for writing at its end, written and closed.
append(s, n) ==
  LET t == writeUnits(s, n, s.h.size, ClusterAt(s, s.h.size))
  IN [sync(t) EXCEPT !.ok = t.ok,
                     !.leaked = @ \/ (~t.ok /\ s.h.first = 0 /\ t.h.first # 0)]

remove(s) ==
  LET Delete(t) == [t EXCEPT !.slots[t.h.at].name = DELETED, !.h = Closed]
  IN Then(truncate(s, 0), Delete)

createContiguous(s, path, size) ==
  LET count == (size - 1) \div UnitsPerCluster + 1
      Allocated(t) ==
        LET u == allocContiguous(t, count, 0)
        IN IF u.ok THEN sync([u EXCEPT !.h.first = u.value, !.h.size = size])
           ELSE Fail(remove(t))
  IN IF size = 0 THEN Fail(s)
     ELSE Then(openPath(s, path, {"CREAT", "EXCL", "WRITE"}), Allocated)

\* contiguousRange(): the number of clusters, 0 when it fails.
contiguousRange(s) ==
  LET cs == Chain(s, s.h.first)
  IN IF \A i \in 1..(Len(cs) - 1) : cs[i + 1] = cs[i] + 1 THEN Len(cs) ELSE 0

-----------------------------------------------------------------------------
(***************************************************************************)
(* Directories are emptied and removed.                                    *)
(***************************************************************************)
\* The entries up to the first that was never used.
Used(s, d) ==
  LET ps == Places(s, d)
      ends == {i \in DOMAIN ps : s.slots[ps[i]].name = FREE}
  IN SubSeq(ps, 1, (IF ends = {} THEN Len(ps) + 1 ELSE Min(ends)) - 1)
\* Those of files and directories: readDir(), lsPrintNext(), openNext().
Entries(s, d) == SelectSeq(Used(s, d), LAMBDA p : s.slots[p].name \notin Special)

\* Mutant: only the first cluster of the directory is looked at.
rmdirFirstCluster(s) ==
  IF s.h.type # "sub" \/ Entries(s, [s.h EXCEPT !.size = SlotsPerCluster]) # <<>> THEN Fail(s)
  ELSE remove([s EXCEPT !.h.type = "file"])

rmdir(s) == IF s.h.type # "sub" \/ Entries(s, s.h) # <<>> THEN Fail(s)
            ELSE remove([s EXCEPT !.h.type = "file"])

\* rmRfStar() on directory object d.
RECURSIVE rmRfStar(_, _)
rmRfStar(s, d) ==
  LET Clear(t, p) ==
        LET Opened(u) == IF u.h.type = "sub" THEN rmRfStar(u, u.h) ELSE remove(u)
        IN Then(Then(t, LAMBDA u : openCachedEntry(u, p, {})), Opened)
      t == FoldLeft(Clear, s, Entries(s, d))
  IN IF d.type = "root" THEN t
     ELSE Then([t EXCEPT !.h = d], rmdir)

\* The directories, with their paths.
RECURSIVE dirs(_, _, _)
dirs(s, d, path) ==
  {[path |-> path, first |-> d.first]} \cup
  UNION {LET e == s.slots[p]
         IN dirs(s, [Closed EXCEPT !.type = "sub", !.first = e.first,
                                   !.size = dirSize(s, e.first)], Append(path, e.name)) :
           p \in {q \in Range(Entries(s, d)) : s.slots[q].dir}}

-----------------------------------------------------------------------------
(***************************************************************************)
(* rename(): the old entry is marked deleted, the new one is made, for a   *)
(* directory with a directory of its own whose ".." is then taken over.    *)
(* When the volume is full and the new entry took the place of the old     *)
(* one, "restore" finds the new entry there, and the directory is lost.    *)
(* Nothing keeps a directory from being moved into one of its own, when    *)
(* the working directory is there.                                         *)
(***************************************************************************)
Marked(s) == [s EXCEPT !.slots[s.h.at].name = DELETED]
NewEntry(s, newPath) ==
  IF s.h.type = "file" THEN openPath(Marked(s), newPath, {"CREAT", "EXCL", "WRITE"})
  ELSE mkdir(Marked(s), newPath, FALSE)

\* The new entry is t.h, or there is none.
Renamed(s, t) ==
  LET old == s.h
      entry == s.slots[old.at]
      Enter(u) == [u EXCEPT !.slots[u.h.at] = [entry EXCEPT !.name = u.slots[u.h.at].name]]
      DotDot(u) == [freeChain(u, t.h.first) EXCEPT
                      !.slots[<<old.first, 1>>] = u.slots[<<t.h.first, 1>>]]
  IN IF t.spoiled THEN t
     ELSE IF ~t.ok
     THEN IF t.slots[old.at].name # DELETED THEN Spoil(t)
          ELSE Fail([t EXCEPT !.slots[old.at].name = entry.name])
     ELSE IF old.type = "file" THEN Enter(t)
     ELSE IF t.dir.first \in {d.first : d \in dirs(s, old, <<>>)} THEN Spoil(t)
     ELSE DotDot(Enter(t))

\* Mutant: the ".." of the moved directory stays.
renameKeepsDotDot(s, newPath) ==
  LET t == Renamed(s, NewEntry(s, newPath))
  IN IF t.ok /\ s.h.type = "sub"
     THEN [t EXCEPT !.slots[<<s.h.first, 1>>] = s.slots[<<s.h.first, 1>>]] ELSE t

rename(s, newPath) == Renamed(s, NewEntry(s, newPath))

-----------------------------------------------------------------------------
(***************************************************************************)
(* openParent(): by way of "..", and of the ".." there, the entry with the *)
(* parent's first cluster.  Gives the place of the entry, or "root".       *)
(***************************************************************************)
openParent(s, d) ==
  LET up == s.slots[<<d.first, 1>>].first
      above == s.slots[<<up, 1>>].first
      file == IF above = 0 THEN Root
              ELSE [Closed EXCEPT !.type = "sub", !.first = above, !.size = dirSize(s, above)]
      hits == {p \in Range(Entries(s, file)) : s.slots[p].first = up}
  IN IF d.type # "sub" THEN "fail"
     ELSE IF up = 0 THEN "root"
     ELSE IF s.slots[<<up, 1>>].name # ".." \/ hits = {} THEN "fail"
     ELSE s.slots[CHOOSE p \in hits : TRUE].name

\* ls() with LS_R and LS_SIZE.
RECURSIVE ls(_, _, _)
ls(s, d, prefix) ==
  UNION {LET e == s.slots[p]
             path == Append(prefix, e.name)
             sub == [Closed EXCEPT !.type = "sub", !.first = e.first,
                                   !.size = dirSize(s, e.first)]
         IN {[path |-> path, dir |-> e.dir, size |-> e.size]}
            \cup (IF e.dir THEN ls(s, sub, path) ELSE {}) :
           p \in Range(Entries(s, d))}

-----------------------------------------------------------------------------
(***************************************************************************)
(* The calls of class SdFat, and of an SdFile that is opened, used and     *)
(* closed.                                                                 *)
(***************************************************************************)
\* From the root directory, a path with "/" in front is the same as without.
Path == [abs : IF vwd.type = "root" THEN {FALSE} ELSE BOOLEAN,
         names : UNION {[1..n -> Spellings] : n \in 1..MaxDepth}]
RootPath == [abs |-> TRUE, names |-> <<>>]

Call(op, path, to, size, all) == [op |-> op, path |-> path, to |-> to, size |-> size, all |-> all]
On(op, path) == Call(op, path, RootPath, 0, FALSE)
Calls ==
  {On(op, p) : op \in {"exists", "chdir", "remove", "rmdir", "rmRfStar"}, p \in Path}
  \cup {On(op, RootPath) : op \in {"chdir", "rmRfStar"}}
  \cup {Call("mkdir", p, RootPath, 0, all) : p \in Path, all \in BOOLEAN}
  \cup {Call("rename", p, q, 0, FALSE) : <<p, q>> \in {r \in Path \X Path : r[1] # r[2]}}
  \cup {Call(op, p, RootPath, n, FALSE) :
          op \in {"append", "rewrite", "truncate", "createContiguous"}, p \in Path, n \in Sizes}

\* The flags with which a call opens its file.
Flags(op) ==
  CASE op \in {"exists", "chdir", "rmdir", "rmRfStar", "rename"} -> {}
    [] op \in {"remove", "truncate"} -> {"WRITE"}
    [] op \in {"append", "rewrite"} -> {"WRITE", "CREAT"}

\* What it does with the file.
Go(t, c) ==
  LET Append1(u) == append(u, c.size)
  IN CASE c.op = "exists" -> t
       [] c.op = "chdir" -> IF t.h.type = "sub" THEN [t EXCEPT !.vwd = t.h] ELSE Fail(t)
       [] c.op = "remove" -> remove(t)
       [] c.op = "rmdir" -> rmdir(t)
       [] c.op = "rmRfStar" -> IF t.h.type = "file" THEN Fail(t) ELSE rmRfStar(t, t.h)
       [] c.op = "rename" -> rename(t, c.to)
       [] c.op = "append" -> Append1(t)
       [] c.op = "rewrite" -> Then(truncate(t, 0), Append1)
       [] c.op = "truncate" -> truncate(t, c.size)

\* A call on the state s.
Do(s, c) ==
  LET Gone(t) == Go(t, c)
      Ranged(t) == IF contiguousRange(t) = (c.size - 1) \div UnitsPerCluster + 1 THEN t ELSE Fail(t)
  IN CASE c.op = "mkdir" -> mkdir(s, c.path, c.all)
       [] c.op = "createContiguous" -> Then(createContiguous(s, c.path, c.size), Ranged)
       [] c.op = "chdir" /\ c.path = RootPath -> [s EXCEPT !.vwd = Root]
       [] c.op = "rmRfStar" /\ c.path = RootPath -> rmRfStar(s, Root)
       [] OTHER -> Then(openPath(s, c.path, Flags(c.op)), Gone)

Formatted ==
  [fat |-> [c \in Cluster |-> 0], slots |-> [p \in Place |-> EmptySlot], alloc |-> 2,
   vwd |-> Root, leaked |-> FALSE, spoiled |-> FALSE, twice |-> FALSE,
   dir |-> Closed, h |-> Closed, ok |-> TRUE, value |-> 0]
Fresh(t) == [t EXCEPT !.dir = Closed, !.h = Closed, !.ok = TRUE, !.value = 0]
Now == [Formatted EXCEPT !.fat = fat, !.slots = slots, !.alloc = alloc, !.vwd = vwd,
                         !.leaked = leaked]

Becomes(t) == /\ fat' = t.fat /\ slots' = t.slots /\ alloc' = t.alloc /\ vwd' = t.vwd
              /\ leaked' = t.leaked

Init ==
  /\ \E t \in {FoldLeft(LAMBDA s, c : Fresh(Do(s, c)), Formatted, card) : card \in Cards} :
       fat = t.fat /\ slots = t.slots /\ alloc = t.alloc /\ vwd = t.vwd /\ leaked = t.leaked
  /\ calls = 0
  /\ spoiled = FALSE

\* A file is not opened by two objects (comment at SdBaseFile::open): no call
\* opens the working directory, or moves or removes it.  A volume that is
\* spoiled is not followed any further.
Carries(t) ==
  /\ ~t.twice
  /\ t.h.type = "file" => t.h.size <= MaxSize
  /\ calls' = calls + 1
  /\ spoiled' = t.spoiled
  /\ IF t.spoiled THEN UNCHANGED <<fat, slots, alloc, vwd, leaked>> ELSE Becomes(t)

Next == /\ ~spoiled /\ calls < MaxCalls
        /\ \E c \in Calls : Carries(Do(Now, c))

Spec == Init /\ [][Next]_vars

-----------------------------------------------------------------------------
\* The tree on the card, and the place of the working directory in it.
treeOf(s) ==
  LET l == ls(s, Root, <<>>)
      At(p) == CHOOSE e \in l : e.path = p
  IN [p \in {e.path : e \in l} |-> [dir |-> At(p).dir, size |-> At(p).size]]

pathOf(s, first) == (CHOOSE d \in dirs(s, Root, <<>>) : d.first = first).path
Cwd == pathOf(Now, vwd.first)

Full(path, cwd) ==
  (IF path.abs THEN <<>> ELSE cwd) \o [i \in DOMAIN path.names |-> name83[path.names[i]]]

\* Room for every call: one cluster for each directory it may make or let
\* grow, and those of the file.
Ample ==
  /\ \E i \in 0..(RootSlots - 1) : slots[<<0, i>>].name \in {FREE, DELETED}
  /\ Cardinality({c \in Cluster : fat[c] = 0}) > MaxDepth + MaxSize \div UnitsPerCluster

\* Whatever tree the calls before have made, on a card with room or without:
\* a call of class SdFat leaves the tree it promises, or another one the
\* comments allow for its failure, and answers which (SdFat::mkdir, remove,
\* rename, rmdir, truncate, exists; SdBaseFile::rmRfStar, write,
\* createContiguous, ls).
CallsAreExact ==
  LET tree == treeOf(Now)
      cwd == Cwd
  IN ~spoiled =>
       \A c \in Calls :
         LET full == [c EXCEPT !.path = Full(@, cwd), !.to = Full(@, cwd)]
         IN \A t \in {Do(Now, c)} : ~t.twice /\ ~t.spoiled =>
              /\ [tree |-> treeOf(t), ok |-> t.ok] \in Outcomes(tree, full, Ample)
              /\ c.op = "chdir" /\ t.ok => pathOf(t, t.vwd.first) = full.path

\* The chains of files and directories end, do not meet and hold what the
\* entry says; no cluster is lost, but by a write that failed; ".." leads up,
\* also after a rename (SdVolume::allocContiguous, freeChain; SdBaseFile::
\* rename, truncate, rmdir, openParent).
TreeSound ==
  LET places == {p \in Place : slots[p].name \notin Special
                               /\ p \in UNION {Range(Used(Now, [Closed EXCEPT
                                       !.type = IF d.first = 0 THEN "root" ELSE "sub",
                                       !.first = d.first,
                                       !.size = IF d.first = 0 THEN RootSlots
                                                ELSE dirSize(Now, d.first)])) :
                                     d \in dirs(Now, Root, <<>>)}}
      Of(p) == Chain(Now, slots[p].first)
  IN ~spoiled =>
       /\ \A p, q \in places : p # q => Range(Of(p)) \cap Range(Of(q)) = {}
       /\ \A p \in places :
            /\ Of(p) # <<>> => fat[Last(Of(p))] = EOC
            /\ Len(Of(p)) * UnitsPerCluster >= slots[p].size
            /\ slots[p].dir => Of(p) # <<>>
       /\ ~leaked => {c \in Cluster : fat[c] # 0} = UNION {Range(Of(p)) : p \in places}
       /\ vwd.type = "sub" =>
            /\ vwd.size = dirSize(Now, vwd.first)
            /\ openParent(Now, vwd) = IF Len(Cwd) = 1 THEN "root" ELSE Cwd[Len(Cwd) - 1]

=============================================================================
