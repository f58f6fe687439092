------------------------------ MODULE MCSdFile ------------------------------
(***************************************************************************)
(* The file system at five levels, "part" says which is run: the calls of  *)
(* the logger on a card that may fail (SdFile: three clusters of two       *)
(* blocks, FAT and directory of two blocks each); all calls of class SdFat *)
(* on a card that does not (SdTree: four clusters, a root directory of two *)
(* entries, the lower case "b" for a name make83Name() has to convert);    *)
(* the driver of the card (SdCard: three blocks, cards of the three kinds, *)
(* erase sectors of two blocks); the streams (over files and buffers of    *)
(* three characters, and over the longest and shortest numbers of two      *)
(* widths); and the formatter (cards of all sizes at which it takes        *)
(* another row of its tables, and around them).                            *)
(***************************************************************************)
EXTENDS SdFile, SdDriver, Formatter

CONSTANTS TreeClusters, RootSlots, SlotsPerCluster, TreeUnits, MaxDepth, Sizes, MaxSize,
          MaxCalls, StreamCalls

VARIABLES part, treeFat, treeSlots, treeAlloc, treeVwd, treeCalls, treeLeaked, treeSpoiled,
          stream, call, calls

treeVars == <<treeFat, treeSlots, treeAlloc, treeVwd, treeCalls, treeLeaked, treeSpoiled>>
streamVars == <<stream, call, calls>>

Spelling == {"A", "b"}
Name83 == [s \in Spelling |-> IF s = "b" THEN "B" ELSE s]

\* Cards the calls of another day have left: an empty one; with a directory
\* in a directory, from which the calls are made; with a file of two clusters
\* in a directory; with deleted entries in front of others.
Call(op, way, n) ==
  [op |-> op, path |-> [abs |-> FALSE, names |-> way], size |-> n, all |-> FALSE,
   to |-> [abs |-> TRUE, names |-> <<>>]]
Card == {
  <<>>,
  <<Call("mkdir", <<"A">>, 0), Call("mkdir", <<"A", "b">>, 0),
    Call("chdir", <<"A">>, 0), Call("chdir", <<"b">>, 0)>>,
  <<Call("mkdir", <<"A">>, 0), Call("append", <<"A", "b">>, 3), Call("append", <<"A", "A">>, 0)>>,
  <<Call("append", <<"b">>, 1), Call("mkdir", <<"A">>, 0), Call("append", <<"A", "b">>, 1),
    Call("append", <<"A", "A">>, 0), Call("remove", <<"b">>, 0),
    Call("remove", <<"A", "b">>, 0)>> }

Tree == INSTANCE SdTree WITH
  Clusters <- TreeClusters, UnitsPerCluster <- TreeUnits,
  Spellings <- Spelling, name83 <- Name83, Cards <- Card,
  fat <- treeFat, slots <- treeSlots, alloc <- treeAlloc, vwd <- treeVwd,
  calls <- treeCalls, leaked <- treeLeaked, spoiled <- treeSpoiled

\* Cards of 2048000 and 2097152 blocks, and one of 66052 * 1024.
Csd1(mid) == [csd_ver |-> 0, c_size_high |-> 3, c_size_mid |-> mid, c_size_low |-> 3,
              c_size_mult_high |-> 3, c_size_mult_low |-> 1, read_bl_len |-> 9]
Csd2 == [csd_ver |-> 1, c_size_high |-> 1, c_size_mid |-> 2, c_size_low |-> 3]
MCModels == { [kind |-> "SD1", eraseSingle |-> FALSE, csd |-> Csd1(231)],
              [kind |-> "SD2", eraseSingle |-> TRUE, csd |-> Csd1(255)],
              [kind |-> "SDHC", eraseSingle |-> TRUE, csd |-> Csd2] }

\* In MB, and the blocks more or less.
SdMegabytes == {6, 7, 8, 16, 17, 32, 33, 64, 65, 128, 129, 256, 257, 504, 505, 1008, 1009, 1024,
                1025, 2016, 2017, 2048, 2049, 4032}
SdhcMegabytes == {1950, 2056, 2057, 4032, 4033, 32768, 32769, 65535, 125000}
CardSize ==
  {<<"SD1", 2048 * mb + d>> : mb \in SdMegabytes, d \in {-2047, -1, 0, 1, 192, 513}}
  \cup {<<"SDHC", 2048 * mb + d>> : mb \in SdhcMegabytes, d \in {-2047, 0, 1, 512}}

LF == 10
CR == 13
Seqs(C, n) == UNION {[1..k -> C] : k \in 0..n}

\* Texts of a sign, digits, a dot, an exponent and a prefix; and numbers at
\* the ends of 6 and 10 bits, with an exponent, and longer than 10 bits.
NumberTexts ==
  Seqs({45, 48, 57, 120, 46, 101, 32}, 3)
    \cup {<<49, 48, 50, 51>>, <<49, 48, 50, 52>>, <<53, 49, 49>>, <<53, 49, 50>>, <<45, 53, 49, 50>>,
          <<51, 50>>, <<45, 51, 50>>, <<45, 51, 51>>, <<48, 120, 51, 102, 102>>, <<48, 120, 52, 48, 48>>,
          <<49, 101, 45, 57>>, <<46, 48, 49, 101, 51>>, <<43, 49, 46, 53>>, <<49, 50, 51, 52, 46, 53>>,
          <<49, 101, 57, 57, 57>>, <<116, 114, 117, 101>>, <<102, 97, 108, 115, 101>>}

Streaming == INSTANCE Streams WITH
  Bits <- 10, ShortBits <- 6, BigFloat <- 10000,
  Files <- Seqs({97, LF, CR}, 2) \cup {<<97, CR, LF>>, <<CR, LF, 97>>, <<CR, CR, LF>>, <<97, LF, 97>>},
  BufTexts <- NumberTexts, BufSizes <- {5, 12},
  OpenModes <- {{"in"}, {"in", "binary"}, {"out"}, {"app"}, {"in", "out", "ate"},
                {"out", "trunc", "binary"}, {"app", "in"}, {"trunc"}},
  Widths <- {0, 6}, Precisions <- {0, 2},
  Numbers <- {0, 64, 511, 1023, -512}, Floats <- {5, -4, 1995, -9994, 10001},
  Strs <- {<<97>>, <<LF>>, <<CR>>, <<97, LF, LF, 97>>}, MaxCalls <- StreamCalls

MCInit ==
  /\ part \in {"file", "tree", "card", "format", "streams"}
  /\ Init
  /\ Tree!Init
  /\ Sd!Init
  /\ FormatInit
  /\ IF part = "streams" THEN Streaming!StInit ELSE stream = <<>> /\ call = <<>> /\ calls = 0
  /\ part # "tree" => treeFat = [c \in Tree!Cluster |-> 0]
  /\ part # "format" => cardSizeBlocks = 2048 * 6 /\ option = "Q"

MCNext ==
  \/ part = "file" /\ Next /\ UNCHANGED <<part, treeVars, sdVars, formatVars, streamVars>>
  \/ part = "tree" /\ Tree!Next /\ UNCHANGED <<part, vars, sdVars, formatVars, streamVars>>
  \/ part = "card" /\ Sd!Next /\ UNCHANGED <<part, vars, treeVars, formatVars, streamVars>>
  \/ part = "format" /\ FormatNext /\ UNCHANGED <<part, vars, treeVars, sdVars, streamVars>>
  \/ part = "streams" /\ Streaming!StNext
       /\ UNCHANGED <<part, vars, treeVars, sdVars, formatVars>>

MCSpec == MCInit /\ [][MCNext]_<<part, vars, treeVars, sdVars, formatVars, streamVars>>

\* Whatever tree the calls before have made, a call of class SdFat leaves the
\* tree it promises, or another one the comments allow for its failure
\* (SdTree's CallsAreExact; SdFat.cpp, SdBaseFile.cpp); and the chains of
\* files and directories end, do not meet and hold what the entry says
\* (TreeSound; SdVolume::allocContiguous, freeChain).  What is put on a
\* stream is what its reader finds there, and a call that reads takes what it
\* returns (Streams!StreamsAreExact; istream.cpp, ostream.cpp).
CallsAreExact ==
  /\ part = "tree" => Tree!CallsAreExact /\ Tree!TreeSound
  /\ part = "streams" => Streaming!StreamsAreExact

=============================================================================
