------------------------------- MODULE SdFile -------------------------------
(***************************************************************************)
(* The FAT file system (libraries/SdFat: SdVolume.cpp, SdBaseFile.cpp,     *)
(* SdFat.cpp, Sd2Card.cpp) under the calls the logger makes of it:         *)
(* setup() and outputParameter() at the start, newFile(), writeData() and  *)
(* flushFile() afterwards (SketchBook/OpenSeaMap/OpenSeaMap.ino).          *)
(*                                                                         *)
(* All blocks pass through one cache, as AVR builds have it; a FAT block   *)
(* is written twice, the mirror second.  The power may go, or the card     *)
(* fail, at any transfer of a block, so an operation is a function of the  *)
(* state it finds and of the transfer that fails: s.left counts the        *)
(* transfers before it.  The functions return the state with their result  *)
(* in "ok".  The n-th unit of file f is the value <<f, n>>.                *)
(***************************************************************************)
EXTENDS Integers, Sequences, FiniteSets, FiniteSetsExt

CONSTANTS
  Clusters,         \* data clusters, numbered from 2
  BlocksPerCluster,
  UnitsPerBlock,    \* 512 bytes in the code
  EntriesPerBlock,  \* of the FAT: 256 in the code
  DirBlocks,        \* of the root directory
  SlotsPerBlock,    \* 16 in the code
  Files,            \* 9999 in the code
  Required,         \* clusters that must be free for a new file
  CnfUnits,         \* length of oseamlog.cnf
  MaxUnits,         \* bound: length of a data file
  MaxWrite,         \* bound: length of one write
  FaultKinds,       \* subset of {"cut", "out", "refused", "late"}
  MaxFaults         \* bound: number of faults

Number == {Clusters, BlocksPerCluster, UnitsPerBlock, EntriesPerBlock,
           DirBlocks, SlotsPerBlock, Files, MaxUnits, MaxWrite}

ASSUME SdAssumption ==
  /\ Number \subseteq Nat \ {0}
  /\ {Required, CnfUnits, MaxFaults} \subseteq Nat
  /\ FaultKinds \subseteq {"cut", "out", "refused", "late"}

Cnf == 0                        \* oseamlog.cnf; data file n is n
Names == 0..Files
FREE == -1                      \* DIR_NAME_FREE
DELETED == -2                   \* DIR_NAME_DELETED
EOC == Clusters + 100
Cluster == 2..(Clusters + 1)
UnitsPerCluster == UnitsPerBlock * BlocksPerCluster

FatBlocks == (Clusters + 1) \div EntriesPerBlock + 1
Fat(c) == <<"fat", c \div EntriesPerBlock>>
Mirror(b) == <<"fat2", b[2]>>
Data(c, k) == <<"data", (c - 2) * BlocksPerCluster + k>>
NoBlock == <<"none", 0>>

Slot == [name : Names \cup {FREE, DELETED}, first : {0} \cup Cluster, size : Nat]
EmptySlot == [name |-> FREE, first |-> 0, size |-> 0]
Junk == [u \in 0..(UnitsPerBlock - 1) |-> <<FREE, 0>>]

\* A formatted card.
Formatted(b) ==
  CASE b[1] \in {"fat", "fat2"} ->
         [i \in 0..(EntriesPerBlock - 1) |->
            IF b[2] * EntriesPerBlock + i < 2 THEN EOC ELSE 0]
    [] b[1] = "dir" -> [i \in 0..(SlotsPerBlock - 1) |-> EmptySlot]
    [] b[1] = "data" -> Junk
    [] OTHER -> 0
Blocks == ({"fat", "fat2"} \X (0..(FatBlocks - 1)))
          \cup ({"dir"} \X (0..(DirBlocks - 1)))
          \cup ({"data"} \X (0..(Clusters * BlocksPerCluster - 1)))
          \cup ({"boot"} \X (0..1))

NoCache == [block |-> NoBlock, dirty |-> FALSE, fat |-> FALSE, img |-> 0]
Closed == [open |-> FALSE, name |-> FREE, append |-> FALSE, slot |-> <<0, 0>>,
           first |-> 0, size |-> 0, cur |-> 0, pos |-> 0, dirty |-> FALSE]

VARIABLES
  pc,        \* place in the sketch
  disk,      \* blocks of the card
  cache,     \* m_cacheBuffer, m_cacheBlockNumber, m_cacheStatus
  alloc,     \* m_allocSearchStart
  dataFile,  \* the sketch's one file
  gone,      \* the card does not answer until sd.begin()
  last,      \* lastStartNumber
  filename,  \* the number in filename
  faults,    \* what MaxFaults counts
  saved,     \* history: units of each file that a close() promised
  spoiled    \* history: see Spoils

volume == <<disk, cache, alloc, dataFile, gone, saved>>
vars == <<pc, volume, last, filename, faults, spoiled>>

-----------------------------------------------------------------------------
(***************************************************************************)
(* The state an operation works on, and the card: Sd2Card::readBlock() and *)
(* writeBlock().  The failing transfer either changes nothing, or the card *)
(* writes the block and answers an error ("late").                         *)
(***************************************************************************)
NoFault == <<"none", -1>>

\* The state with fault f ahead of it.
Armed(f) ==
  [disk |-> disk, cache |-> cache, alloc |-> alloc, h |-> dataFile,
   saved |-> saved, left |-> IF gone THEN 0 ELSE f[2],
   kind |-> IF gone THEN "out" ELSE f[1], fired |-> gone,
   ok |-> TRUE, value |-> 0]

Ok(s) == [s EXCEPT !.ok = TRUE]
Fail(s) == [s EXCEPT !.ok = FALSE]
Then(s, Next1(_)) == IF s.ok THEN Next1(s) ELSE s
Works(s) == s.left # 0
Spent(s) == [s EXCEPT !.left = IF @ > 0 THEN @ - 1 ELSE @]
\* A card that was pulled, or has no power, goes on failing.
Failed(s) == Fail([s EXCEPT !.fired = TRUE,
                            !.left = IF s.kind \in {"refused", "late"} THEN -1 ELSE 0])

readBlock(s, b) ==
  IF Works(s) THEN Ok([Spent(s) EXCEPT !.cache.img = s.disk[b]]) ELSE Failed(s)

writeBlock(s, b) ==
  IF Works(s) THEN Ok([Spent(s) EXCEPT !.disk[b] = s.cache.img])
  ELSE Failed(IF s.kind = "late" THEN [s EXCEPT !.disk[b] = s.cache.img] ELSE s)

(***************************************************************************)
(* SdVolume: the cache.  FOR_WRITE marks the block dirty, RESERVE does not *)
(* read it first.                                                          *)
(***************************************************************************)
cacheSync(s) ==
  IF ~s.cache.dirty THEN Ok(s)
  ELSE LET Clean(t) == [t EXCEPT !.cache.dirty = FALSE]
           Second(t) == IF t.cache.fat THEN writeBlock(t, Mirror(t.cache.block)) ELSE t
       IN Then(Then(writeBlock(s, s.cache.block), Second), Clean)

cacheFetch(s, b, option) ==
  LET Load(t) == IF option = "RESERVE" THEN [t EXCEPT !.cache.img = Junk]
                 ELSE readBlock(t, b)
      Named(t) == [t EXCEPT !.cache.block = b, !.cache.dirty = FALSE, !.cache.fat = FALSE]
      Mark(t) == [t EXCEPT !.cache.dirty = @ \/ option # "READ"]
  IN IF s.cache.block = b THEN Mark(Ok(s))
     ELSE Then(Then(Then(cacheSync(s), Load), Named), Mark)

cacheFetchFat(s, b, option) ==
  LET IsFat(t) == [t EXCEPT !.cache.fat = TRUE]
  IN Then(cacheFetch(s, b, option), IsFat)

(***************************************************************************)
(* SdVolume: the FAT.                                                      *)
(***************************************************************************)
fatGet(s, c) ==
  LET Take(t) == [t EXCEPT !.value = t.cache.img[c % EntriesPerBlock]]
  IN IF c \notin Cluster THEN Fail(s) ELSE Then(cacheFetchFat(s, Fat(c), "READ"), Take)

\* Mutant: the block is not marked as changed.
fatPutClean(s, c, value) ==
  LET Store(t) == [t EXCEPT !.cache.img[c % EntriesPerBlock] = value]
  IN IF c \notin Cluster THEN Fail(s) ELSE Then(cacheFetchFat(s, Fat(c), "READ"), Store)

fatPut(s, c, value) ==
  LET Store(t) == [t EXCEPT !.cache.img[c % EntriesPerBlock] = value]
  IN IF c \notin Cluster THEN Fail(s) ELSE Then(cacheFetchFat(s, Fat(c), "WRITE"), Store)

RECURSIVE freeChain(_, _)
freeChain(s, c) ==
  LET Clear(t) == fatPut(t, c, 0)
      Start(t) == [t EXCEPT !.alloc = IF c < @ THEN c ELSE @]
      Rest(t) == IF t.value = EOC THEN t ELSE freeChain(t, t.value)
  IN Then(Then(Then(fatGet(s, c), Clear), Start), Rest)

RECURSIVE freeIn(_, _)
freeIn(s, k) ==
  LET Count(t) ==
        [t EXCEPT !.value = @ + Cardinality({i \in DOMAIN t.cache.img :
                                  /\ k * EntriesPerBlock + i \in Cluster
                                  /\ t.cache.img[i] = 0})]
      Next1(t) == freeIn(Count(t), k + 1)
  IN IF k = FatBlocks THEN Ok(s)
     ELSE Then(cacheFetchFat(s, <<"fat", k>>, "READ"), Next1)

freeClusterCount(s) == freeIn([s EXCEPT !.value = 0], 0)

(***************************************************************************)
(* allocContiguous(1, &m_curCluster): the cluster after the current one,   *)
(* or after the last one a file began with, then around.                   *)
(***************************************************************************)
RECURSIVE search(_, _, _)
search(s, n, c) ==
  LET e == IF c > Clusters + 1 THEN 2 ELSE c
      Look(t) == IF t.value # 0 THEN search(t, n + 1, e + 1) ELSE [t EXCEPT !.value = e]
  IN IF n >= Clusters THEN Fail(s) ELSE Then(fatGet(s, e), Look)

allocContiguous(s) ==
  LET cur == s.h.cur
      Last(t) ==
        LET c == t.value
            Start(u) == [u EXCEPT !.alloc = IF cur = 0 THEN c + 1 ELSE @]
            Connect(u) == IF cur = 0 THEN u ELSE fatPut(u, cur, c)
            Current(u) == [u EXCEPT !.h.cur = c]
        IN Then(Then(fatPut(Start(t), c, EOC), Connect), Current)
  IN Then(search(s, 0, IF cur = 0 THEN s.alloc ELSE cur + 1), Last)

-----------------------------------------------------------------------------
(***************************************************************************)
(* SdBaseFile.                                                             *)
(***************************************************************************)
addCluster(s) ==
  LET Link(t) == IF t.h.first # 0 THEN t
                 ELSE [t EXCEPT !.h.first = t.h.cur, !.h.dirty = TRUE]
  IN Then(allocContiguous(s), Link)

DirBlock(h) == <<"dir", h.slot[1]>>

RECURSIVE follow(_, _)
follow(s, n) ==
  LET Step(t) == follow([t EXCEPT !.h.cur = t.value], n - 1)
  IN IF n = 0 THEN Ok(s) ELSE Then(fatGet(s, s.h.cur), Step)

seekSet(s, pos) ==
  LET nCur == (s.h.pos - 1) \div UnitsPerCluster
      nNew == (pos - 1) \div UnitsPerCluster
      At(t) == [t EXCEPT !.h.pos = pos]
  IN IF ~s.h.open \/ pos > s.h.size THEN Fail(s)
     ELSE IF pos = 0 THEN Ok([s EXCEPT !.h.cur = 0, !.h.pos = 0])
     ELSE IF nNew < nCur \/ s.h.pos = 0
          THEN Then(follow([s EXCEPT !.h.cur = s.h.first], nNew), At)
          ELSE Then(follow(s, nNew - nCur), At)

\* Mutant: the directory entry stays in the cache.
syncEntryOnly(s) ==
  LET Entry(t) == [t EXCEPT !.cache.img[t.h.slot[2]].size = t.h.size,
                            !.cache.img[t.h.slot[2]].first = t.h.first,
                            !.h.dirty = FALSE]
      Promise(t) == [t EXCEPT !.saved[t.h.name] = t.h.size]
  IN IF ~s.h.open THEN Fail(s)
     ELSE IF s.h.dirty
     THEN Then(Then(cacheFetch(s, DirBlock(s.h), "WRITE"), Entry), Promise)
     ELSE Promise(Ok(s))

sync(s) ==
  LET Entry(t) ==
        IF t.cache.img[t.h.slot[2]].name = DELETED THEN Fail(t)
        ELSE [t EXCEPT !.cache.img[t.h.slot[2]].size = t.h.size,
                       !.cache.img[t.h.slot[2]].first = t.h.first,
                       !.h.dirty = FALSE]
      Promise(t) == [t EXCEPT !.saved[t.h.name] = t.h.size]
      Entered == IF s.h.dirty THEN Then(cacheFetch(s, DirBlock(s.h), "WRITE"), Entry)
                 ELSE Ok(s)
  IN IF ~s.h.open THEN Fail(s) ELSE Then(Then(Entered, cacheSync), Promise)

close(s) == LET t == sync(s) IN [t EXCEPT !.h = Closed]

\* truncate(0)
truncate(s) ==
  LET Free(t) == freeChain(t, t.h.first)
      Empty(t) == [t EXCEPT !.h.first = 0, !.h.size = 0, !.h.dirty = TRUE]
      Back(t) == seekSet(t, 0)
  IN IF s.h.size = 0 THEN Ok(s)
     ELSE Then(Then(Then(Then(seekSet(s, 0), Free), Empty), sync), Back)

\* The blocks of the directory from the k-th on; "slot" is where the file is,
\* or the first place for it.
RECURSIVE find(_, _, _, _)
find(s, k, name, slot) ==
  LET Look(t) ==
        LET b == t.cache.img
            stop == {i \in DOMAIN b : b[i].name \in {FREE, name}}
            i == IF stop = {} THEN SlotsPerBlock ELSE Min(stop)
            found == stop # {} /\ b[i].name = name
            places == {j \in DOMAIN b : /\ b[j].name \in {FREE, DELETED} /\ j <= i}
            place == IF slot # <<>> \/ places = {} THEN slot ELSE <<k, Min(places)>>
        IN IF found THEN [t EXCEPT !.value = [found |-> TRUE, slot |-> <<k, i>>]]
           ELSE IF stop # {} THEN [t EXCEPT !.value = [found |-> FALSE, slot |-> place]]
           ELSE find(t, k + 1, name, place)
  IN IF k = DirBlocks THEN [Ok(s) EXCEPT !.value = [found |-> FALSE, slot |-> slot]]
     ELSE Then(cacheFetch(s, <<"dir", k>>, "READ"), Look)

openCachedEntry(s, name, flags) ==
  LET slot == s.value.slot
      p == s.cache.img[slot[2]]
      Opened == [s EXCEPT !.h = [open |-> TRUE, name |-> name,
                                 append |-> "APPEND" \in flags, slot |-> slot,
                                 first |-> p.first, size |-> p.size,
                                 cur |-> 0, pos |-> 0, dirty |-> FALSE]]
  IN IF "AT_END" \in flags THEN seekSet(Opened, p.size) ELSE Opened

\* flags: a subset of {"CREAT", "AT_END", "APPEND"}
open(s, name, flags) ==
  LET Enter(t) ==
        LET slot == t.value.slot
            New(u) == [u EXCEPT !.cache.img[slot[2]] =
                         [name |-> name, first |-> 0, size |-> 0]]
        IN IF t.value.found THEN t
           ELSE IF "CREAT" \notin flags \/ slot = <<>> THEN Fail(t)
           ELSE Then(Then(cacheFetch(t, <<"dir", slot[1]>>, "WRITE"), New), cacheSync)
      Entry(t) == openCachedEntry(t, name, flags)
  IN IF s.h.open THEN Fail(s)
     ELSE Then(Then(find(s, 0, name, <<>>), Enter), Entry)

\* The calls that open a file object of their own.
Own(s, Op(_)) == LET t == Op([s EXCEPT !.h = Closed]) IN [t EXCEPT !.h = s.h]

exists(s, name) == Own(s, LAMBDA t : open(t, name, {}))

remove(s, name) ==
  LET Delete(t) ==
        LET Mark(u) == [u EXCEPT !.cache.img[u.h.slot[2]].name = DELETED]
        IN Then(Then(cacheFetch(t, DirBlock(t.h), "WRITE"), Mark), cacheSync)
      Whole(t) == Then(Then(open(t, name, {}), truncate), Delete)
  IN Own([s EXCEPT !.saved[name] = 0], Whole)

(***************************************************************************)
(* write(): block by block through the cache; a block that is full is      *)
(* written at once.                                                        *)
(***************************************************************************)
Clustered(s) ==
  LET Go(t) == IF t.value = EOC THEN addCluster(t) ELSE [t EXCEPT !.h.cur = t.value]
  IN IF s.h.pos % UnitsPerCluster # 0 THEN Ok(s)
     ELSE IF s.h.cur # 0 THEN Then(fatGet(s, s.h.cur), Go)
     ELSE IF s.h.first = 0 THEN addCluster(s)
     ELSE Ok([s EXCEPT !.h.cur = s.h.first])

RECURSIVE writeUnits(_, _)
writeUnits(s, toWrite) ==
  LET offset == s.h.pos % UnitsPerBlock
      n == Min({UnitsPerBlock - offset, toWrite})
      Cached(t) ==
        cacheFetch(t, Data(t.h.cur, (t.h.pos \div UnitsPerBlock) % BlocksPerCluster),
                   IF offset = 0 /\ t.h.pos >= t.h.size THEN "RESERVE" ELSE "WRITE")
      Copy(t) == [t EXCEPT !.cache.img =
                    [u \in DOMAIN @ |-> IF u \in offset..(offset + n - 1)
                                        THEN <<t.h.name, t.h.pos + u - offset>> ELSE @[u]]]
      Full(t) == IF offset + n = UnitsPerBlock THEN cacheSync(t) ELSE t
      Next1(t) == writeUnits([t EXCEPT !.h.pos = @ + n], toWrite - n)
  IN IF toWrite = 0 THEN Ok(s)
     ELSE Then(Then(Then(Then(Clustered(s), Cached), Copy), Full), Next1)

write(s, n) ==
  LET End(t) == IF t.h.append /\ t.h.pos # t.h.size THEN seekSet(t, t.h.size) ELSE t
      Units(t) == writeUnits(t, n)
      Size(t) == IF t.h.pos > t.h.size THEN [t EXCEPT !.h.size = t.h.pos, !.h.dirty = TRUE]
                 ELSE t
  IN IF ~s.h.open THEN Fail(s) ELSE Then(Then(End(s), Units), Size)

(***************************************************************************)
(* SdFat::begin(): the card, then the volume with an empty cache.          *)
(***************************************************************************)
init(s) ==
  LET BootSector(t) == cacheFetch(t, <<"boot", 1>>, "READ")
  IN Then(cacheFetch([s EXCEPT !.cache = NoCache, !.alloc = 2], <<"boot", 0>>, "READ"),
          BootSector)

-----------------------------------------------------------------------------
FatOf(d, c) == d[Fat(c)][c % EntriesPerBlock]
Entries(d) == {d[<<"dir", k>>][i] : k \in 0..(DirBlocks - 1), i \in 0..(SlotsPerBlock - 1)}
Listed(d) == {e \in Entries(d) : e.name \in Names}

(***************************************************************************)
(* Two places where a fault spoils the volume: between the two writes of   *)
(* remove(), with clusters free and the file still listed; and in a write  *)
(* that has taken a cluster, fails, and takes another for the same place   *)
(* when the sketch, which looks at no result, goes on.                     *)
(***************************************************************************)
Torn(t) ==
  LET Half(d) == \E e \in Listed(d) :
                   e.name = Cnf /\ e.first # 0 /\ FatOf(d, e.first) = 0
  IN \/ Half(t.disk)
     \/ t.cache.dirty /\ t.left # 0
        /\ Half([t.disk EXCEPT ![t.cache.block] = t.cache.img])

Skewed(t) == /\ ~t.ok /\ t.h.open
             /\ t.h.pos % UnitsPerCluster = 0
             /\ t.h.cur # dataFile.cur

Spoils(f, t) == \/ pc = "cnf_remove" /\ f # NoFault /\ Torn(t)
                \/ f[1] \in {"refused", "late"} /\ Skewed(t)

Faults == {NoFault} \cup (IF faults < MaxFaults /\ ~gone
                          THEN FaultKinds \X (0..(4 * (FatBlocks + DirBlocks))) ELSE {})

\* One operation of the sketch, ending in t, with a fault f during it; the
\* program goes to "to" afterwards.  A volume that is spoiled is not followed
\* any further.
Does(f, t, to) ==
  /\ ~spoiled
  /\ f # NoFault => t.fired
  /\ faults' = IF f = NoFault THEN faults ELSE faults + 1
  /\ disk' = t.disk
  /\ saved' = t.saved
  /\ spoiled' = (spoiled \/ Spoils(f, t))
  /\ IF f[1] = "cut"
     THEN pc' = "off" /\ cache' = NoCache /\ alloc' = 2 /\ dataFile' = Closed
     ELSE pc' = to /\ cache' = t.cache /\ alloc' = t.alloc /\ dataFile' = t.h
  /\ gone' = (f[1] = "out" \/ (f = NoFault /\ t.fired))

Init ==
  /\ pc = "off"
  /\ disk = [b \in Blocks |-> Formatted(b)]
  /\ cache = NoCache /\ alloc = 2 /\ dataFile = Closed
  /\ gone = FALSE
  /\ last = 0 /\ filename = Cnf
  /\ faults = 0
  /\ saved = [n \in Names |-> 0]
  /\ spoiled = FALSE

names == <<last, filename>>

PowerOn ==
  /\ pc = "off"
  /\ pc' = "setup"
  /\ last' = 0 /\ filename' = Cnf
  /\ UNCHANGED <<volume, faults, spoiled>>

\* while (!sd.begin()), when the card is there
Begin(from, to) ==
  /\ pc = from
  /\ \E f \in Faults : LET t == init([Armed(f) EXCEPT !.fired = FALSE, !.left = f[2]])
                       IN Does(f, t, IF t.ok THEN to ELSE from)
  /\ UNCHANGED names

\* outputParameter()
CnfRemove ==
  /\ pc = "cnf_remove"
  /\ \E f \in Faults : LET t == exists(Armed(f), Cnf)
                       IN Does(f, IF t.ok THEN remove(t, Cnf) ELSE t, "cnf_open")
  /\ UNCHANGED names

CnfOpen ==
  /\ pc = "cnf_open"
  /\ \E f \in Faults : Does(f, open(Armed(f), Cnf, {"CREAT", "AT_END"}), "cnf_print")
  /\ UNCHANGED names

CnfPrint ==
  /\ pc = "cnf_print"
  /\ \E f \in Faults : Does(f, close(write(Armed(f), CnfUnits)), "run")
  /\ UNCHANGED names

\* newFile(): stopLogger(), which writes the stop message first
StopLogger ==
  /\ pc = "run"
  /\ dataFile.open => dataFile.size < MaxUnits
  /\ \E f \in Faults : LET t == write(Armed(f), 1)
                       IN Does(f, IF t.h.open THEN close(t) ELSE t, "new_begin")
  /\ UNCHANGED names

\* the loop over the numbers: the state it leaves, and the number
RECURSIVE number(_, _)
number(s, i) ==
  LET t == exists(s, i)
      c == freeClusterCount(t)
  IN IF i > Files THEN [s |-> s, filename |-> Files, last |-> last]
     ELSE IF t.ok THEN number(t, i + 1)
     ELSE IF c.ok /\ c.value < Required THEN [s |-> c, filename |-> i, last |-> last]
     ELSE [s |-> open(c, i, {"CREAT", "AT_END"}), filename |-> i, last |-> i]

NewFile ==
  /\ pc = "new_find"
  /\ \E f \in Faults : LET r == number(Armed(f), last + 1)
                       IN /\ Does(f, r.s, "new_start")
                          /\ last' = r.last
                          /\ filename' = IF last = Files THEN filename ELSE r.filename

\* writeData(), and the start message of newFile()
WriteData ==
  /\ pc \in {"run", "new_start"}
  /\ dataFile.open
  /\ \E n \in 1..MaxWrite : /\ dataFile.size + n < MaxUnits
                            /\ \E f \in Faults : Does(f, write(Armed(f), n), "run")
  /\ UNCHANGED names

NotOpen ==
  /\ pc = "new_start" /\ ~dataFile.open
  /\ pc' = "run"
  /\ UNCHANGED <<volume, names, faults, spoiled>>

\* flushFile(): the file is closed and opened again by its name
FlushFile ==
  /\ pc = "run"
  /\ filename # Cnf
  /\ \E f \in Faults : Does(f, open(close(Armed(f)), filename, {"APPEND", "AT_END"}), "run")
  /\ UNCHANGED names

Next ==
  \/ PowerOn \/ Begin("setup", "cnf_remove") \/ CnfRemove \/ CnfOpen \/ CnfPrint
  \/ StopLogger \/ Begin("new_begin", "new_find") \/ NewFile
  \/ WriteData \/ NotOpen \/ FlushFile

Spec == Init /\ [][Next]_vars

-----------------------------------------------------------------------------
TypeOK ==
  /\ pc \in {"off", "setup", "cnf_remove", "cnf_open", "cnf_print", "run",
             "new_begin", "new_find", "new_start"}
  /\ DOMAIN disk = Blocks
  /\ Entries(disk) \subseteq Slot
  /\ cache.block \in Blocks \cup {NoBlock}
  /\ alloc \in 2..(Clusters + 2)
  /\ dataFile.name \in Names \cup {FREE}
  /\ dataFile.pos \in Nat /\ dataFile.size \in Nat
  /\ {dataFile.first, dataFile.cur} \subseteq {0} \cup Cluster
  /\ saved \in [Names -> Nat]

(***************************************************************************)
(* The clusters of a file, from the first FAT: at most as many as there    *)
(* are.                                                                    *)
(***************************************************************************)
RECURSIVE chain(_, _, _)
chain(d, c, n) ==
  IF c \notin Cluster \/ n = 0 THEN <<c>>
  ELSE <<c>> \o chain(d, FatOf(d, c), n - 1)

Chain(d, e) == IF e.first = 0 THEN <<EOC>> ELSE chain(d, e.first, Clusters + 1)
InChain(d, e) == LET ch == Chain(d, e) IN {ch[i] : i \in 1..(Len(ch) - 1)}

UnitAt(d, e, p) ==
  LET c == Chain(d, e)[p \div UnitsPerCluster + 1]
  IN d[Data(c, (p \div UnitsPerBlock) % BlocksPerCluster)][p % UnitsPerBlock]

\* The chain of a file ends, and holds all of the file.
Whole(d, e) ==
  LET ch == Chain(d, e)
  IN ch[Len(ch)] = EOC /\ (Len(ch) - 1) * UnitsPerCluster >= e.size

\* What a close() has promised stays on the card, in its place, whatever cut
\* or card failure comes later (SdBaseFile::sync(), SdVolume::cacheSync()).
SavedIsKept ==
  ~spoiled =>
    \A n \in Names : saved[n] > 0 =>
      \E e \in Listed(disk) : /\ e.name = n /\ e.size >= saved[n]
                              /\ Whole(disk, e)
                              /\ \A p \in 0..(saved[n] - 1) : UnitAt(disk, e, p) = <<n, p>>

\* At every moment, also between two blocks of one operation, the card holds
\* a sound volume: names are unique, chains end and do not meet (SdVolume::
\* allocContiguous() and freeChain(), SdBaseFile::write() and remove()).
\* Clusters are lost only by faults.
VolumeSound ==
  /\ TypeOK
  /\ ~spoiled =>
       /\ \A e1, e2 \in Listed(disk) :
            e1 # e2 => e1.name # e2.name /\ InChain(disk, e1) \cap InChain(disk, e2) = {}
       /\ \A e \in Listed(disk) : Whole(disk, e)
       /\ faults = 0 /\ ~cache.dirty /\ ~dataFile.dirty =>
            \A c \in Cluster : FatOf(disk, c) # 0 =>
              \E e \in Listed(disk) : c \in InChain(disk, e)

=============================================================================
