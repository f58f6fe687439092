---------------------------- MODULE MCBootLoader ----------------------------
(***************************************************************************)
(* Cards as a computer formats them, written down file by file, and two    *)
(* boards: one with nothing but the boot loader, one with a program whose  *)
(* successor has another high byte.  Among the files of a card are one     *)
(* that was deleted, a volume label and a directory with a firmware name,  *)
(* and files in clusters out of order.                                     *)
(***************************************************************************)
EXTENDS BootLoader, FiniteSets, FiniteSetsExt, SequencesExt

EndOfChain == 99

P(v, size) == [version |-> v, size |-> size]
FileOf(name, program, clusters) ==
  [name |-> name, program |-> program, clusters |-> clusters, vol |-> FALSE,
   dir |-> FALSE]
Entry(f) == [name |-> f.name, vol |-> f.vol, dir |-> f.dir,
             clust |-> IF f.clusters = <<>> THEN 0 ELSE f.clusters[1],
             size |-> f.program.size]
Unused == [name |-> LastEntry, vol |-> FALSE, dir |-> FALSE, clust |-> 0,
           size |-> 0]

Link(chains, c) ==
  LET with == {s \in chains : Contains(s, c)}
  IN IF with = {} THEN 0
     ELSE LET s == CHOOSE s \in with : TRUE
              i == CHOOSE i \in DOMAIN s : s[i] = c
          IN IF i = Len(s) THEN EndOfChain ELSE s[i + 1]

\* The sectors of a card: l.root is the chain of the root directory, empty on
\* a FAT16 card; the sectors of a file's data in the order of its clusters.
Sectors(l) ==
  LET b == l.bpb
      fatbase == l.partition + b.RsvdSecCnt
      rootbase == fatbase + b.FATSz * b.NumFATs
      database == rootbase + (b.RootEntCnt \div DirEntries)
      per == IF l.root = <<>> THEN Fat16Entries ELSE Fat32Entries
      chains == {f.clusters : f \in ToSet(l.files)} \cup {l.root}
      Fat(i) == [holds |-> "fat", links |->
                   [k \in 1..per |-> Link(chains, i * per + k - 1)]]
      Dir(i) == [holds |-> "directory", entries |->
                   [k \in 1..DirEntries |->
                      IF i * DirEntries + k <= Len(l.files)
                      THEN Entry(l.files[i * DirEntries + k]) ELSE Unused]]
      Data(p, i) == [holds |-> "data", words |->
                       [k \in 1..SectorSize |->
                          IF i * SectorSize + k <= p.size
                          THEN Word(p, i * SectorSize + k - 1) ELSE Garbage]]
      OfCluster(s) == ((s - database) \div b.SecPerClus) + 2
      Rank(chain, s) ==
        (SelectInSeq(chain, LAMBDA c : c = OfCluster(s)) - 1) * b.SecPerClus
          + ((s - database) % b.SecPerClus)
      Owner(s) == {f \in ToSet(l.files) : Contains(f.clusters, OfCluster(s))}
  IN [s \in 0..(l.partition + b.TotSec - 1) |->
        IF s = l.partition THEN [holds |-> "FAT boot record", bpb |-> b]
        ELSE IF s = 0 THEN [holds |-> "partition table",
                            partition |-> l.partition]
        ELSE IF s < fatbase THEN [holds |-> "nothing of interest"]
        ELSE IF s < rootbase THEN Fat((s - fatbase) % b.FATSz)
        ELSE IF s < database THEN Dir(s - rootbase)
        ELSE IF Contains(l.root, OfCluster(s)) THEN Dir(Rank(l.root, s))
        ELSE IF Owner(s) = {} THEN Data(NoProgram, 0)
        ELSE LET f == CHOOSE f \in Owner(s) : TRUE
             IN Data(f.program, Rank(f.clusters, s))]

Card(kind, l) ==
  LET there == {f \in ToSet(l.files) :
                  ~f.vol /\ ~f.dir /\ f.name # <<"deleted">>}
  IN [kind |-> kind, sector |-> Sectors(l),
      files |-> [n \in {f.name : f \in there} |->
                   (CHOOSE f \in there : f.name = n).program]]

Bpb(FATSz, NumFATs, Rsvd, RootEnt, TotSec, SecPerClus, RootClus) ==
  [FATSz |-> FATSz, NumFATs |-> NumFATs, RsvdSecCnt |-> Rsvd,
   RootEntCnt |-> RootEnt, TotSec |-> TotSec, SecPerClus |-> SecPerClus,
   RootClus |-> RootClus]

\* FAT16 without a partition table, one sector to a cluster.
Small == Card("SD1",
  [partition |-> 0, bpb |-> Bpb(3, 2, 1, 6, 17, 1, 0), root |-> <<>>,
   files |-> <<FileOf(<<"deleted">>, P(19, 3), <<>>),
               [FileOf(FirmwareName(19), NoProgram, <<>>) EXCEPT !.vol = TRUE],
               FileOf(FirmwareName(10), P(10, 11), <<5, 2, 4>>),
               FileOf(FirmwareName(19), P(19, 5), <<3, 6>>)>>])
\* FAT32 in a partition, two sectors to a cluster, the directory in two.
Large == Card("SDHC",
  [partition |-> 1, bpb |-> Bpb(6, 1, 2, 0, 28, 2, 3), root |-> <<3, 7>>,
   files |-> <<[FileOf(<<"CARD">>, NoProgram, <<>>) EXCEPT !.vol = TRUE],
               [FileOf(FirmwareName(257), NoProgram, <<9>>) EXCEPT !.dir = TRUE],
               FileOf(FirmwareName(256), P(256, 9), <<8, 2>>),
               FileOf(<<"CONFIG">>, P(0, 1), <<4>>),
               FileOf(FirmwareName(265), P(265, 12), <<5, 6>>)>>])
\* Only OSMFIRMW.BIN, on a card that is addressed in bytes.
Rescue == Card("SD2",
  [partition |-> 2, bpb |-> Bpb(2, 1, 1, 2, 10, 1, 0), root |-> <<>>,
   files |-> <<FileOf(filename2, P(30, 6), <<3, 2>>)>>])

\* Both kinds, the numbered one newer.
Both == Card("MMC",
  [partition |-> 0, bpb |-> Bpb(2, 1, 1, 2, 9, 1, 0), root |-> <<>>,
   files |-> <<FileOf(FirmwareName(12), P(12, 4), <<4>>),
               FileOf(filename2, P(9, 2), <<2>>)>>])

MCCards == {Small, Large, Rescue, Both, NoCard}
MCBoards == {[program |-> NoProgram, version |-> <<255, 255>>],
             [program |-> P(255, 7), version |-> <<255, 0>>]}

\* These cards are what the proofs suppose of cards.
ASSUME CardsAreAsSupposed == CardsAreSound
=============================================================================
