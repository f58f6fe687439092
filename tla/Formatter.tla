----------------------------- MODULE Formatter -----------------------------
(***************************************************************************)
(* How a card is laid out (libraries/SdFat/examples/SdFormatter), and how  *)
(* the two programs that read it find their way: SdVolume::init() of the   *)
(* logger and pf_mount() of the boot loader (PetitFat, here with its true  *)
(* sizes).  All numbers are those of the code; counts of blocks keep 32    *)
(* bits, the capacity, the FAT size and the reserved sectors 16.           *)
(*                                                                         *)
(* A boot sector is a record with the names of PetitFat; FATSz and TotSec  *)
(* stand for the 16 bit or the 32 bit field, whichever is not 0.           *)
(***************************************************************************)
EXTENDS Integers, FiniteSets

CONSTANTS
  CardSizes,      \* pairs of the card type, "SDHC" or another, and cardSize()
  MaxBoundaries   \* bound of a search: more than the boundaries before the data

BU16 == 128
BU32 == 8192
ERASE_SIZE == 262144
Word16(n) == n % 65536

\* An SDHC card has room for the boundaries (it has more than 2 GB), and there
\* is one among the first 66 for every card below 64 GB.
ASSUME FormatterAssumption ==
  /\ CardSizes \subseteq {"SD1", "SD2", "SDHC"} \X (Nat \ {0})
  /\ \A c \in CardSizes : c[1] = "SDHC" => c[2] >= 4 * BU32
  /\ MaxBoundaries \in Nat /\ MaxBoundaries >= 66

VARIABLES
  kind, cardSizeBlocks,
  option,         \* "E", "F" or "Q"
  step,           \* the step setup() is at, or "done" or "error"
  refused,        \* history: the card refused something
  geometry,       \* sectorsPerCluster, sectorsPerTrack, numberOfHeads
  layout,         \* relSector, reservedSectors, fatSize, dataStart, partSize, nc
  firstBlock,     \* of eraseCard()
  erased,         \* history: the ranges that were erased
  sectors,        \* what was written, by block
  zeroed          \* the blocks clearFatDir() has cleared, first and count

card == <<kind, cardSizeBlocks>>
formatVars == <<card, option, step, refused, geometry, layout, firstBlock, erased, sectors, zeroed>>

cardCapacityMB == Word16((cardSizeBlocks + 2047) \div 2048)
NoSectors == [b \in {} |-> 0]

FormatInit ==
  /\ \E c \in CardSizes : kind = c[1] /\ cardSizeBlocks = c[2]
  /\ option \in {"E", "F", "Q"}
  /\ step = IF option = "Q" THEN "sizes" ELSE "erase"
  /\ refused = FALSE
  /\ geometry = [sectorsPerCluster |-> 0, sectorsPerTrack |-> 0, numberOfHeads |-> 0]
  /\ layout = [relSector |-> 0, reservedSectors |-> 0, fatSize |-> 0, dataStart |-> 0,
               partSize |-> 0, nc |-> 0]
  /\ firstBlock = 0 /\ erased = {} /\ sectors = NoSectors /\ zeroed = <<0, 0>>

\* sdError()
Refuse == /\ step' = "error"
          /\ UNCHANGED <<card, option, refused, geometry, layout, firstBlock, erased, sectors, zeroed>>

FormatFails ==
  /\ step \notin {"sizes", "layout", "done", "error"}
  /\ refused' = TRUE /\ step' = "error"
  /\ UNCHANGED <<card, option, geometry, layout, firstBlock, erased, sectors, zeroed>>

-----------------------------------------------------------------------------
Lesser(a, b) == IF a < b THEN a ELSE b

\* One turn of the loop of eraseCard().
EraseCard ==
  /\ step = "erase"
  /\ LET lastBlock == Lesser(firstBlock + ERASE_SIZE, cardSizeBlocks) - 1
     IN erased' = erased \cup {<<firstBlock, lastBlock>>}
  /\ firstBlock' = firstBlock + ERASE_SIZE
  /\ step' = IF firstBlock' < cardSizeBlocks THEN "erase"
             ELSE IF option = "F" THEN "sizes" ELSE "done"
  /\ UNCHANGED <<card, option, refused, geometry, layout, sectors, zeroed>>

\* The value of the first row whose limit the capacity does not exceed.
Row(rows, otherwise) ==
  LET fit == {r \in rows : cardCapacityMB <= r[1]}
  IN IF fit = {} THEN otherwise ELSE (CHOOSE r \in fit : \A q \in fit : r[1] <= q[1])[2]

ClusterSizes == {<<16, 2>>, <<32, 4>>, <<64, 8>>, <<128, 16>>, <<1024, 32>>, <<32768, 64>>}
Tracks == {<<256, 32>>}
Heads == {<<16, 2>>, <<32, 4>>, <<128, 8>>, <<504, 16>>, <<1008, 32>>, <<2016, 64>>, <<4032, 128>>}
Geometry == [sectorsPerCluster |-> Row(ClusterSizes, 128), sectorsPerTrack |-> Row(Tracks, 63),
             numberOfHeads |-> Row(Heads, 255)]

initSizes ==
  /\ step = "sizes"
  /\ IF cardCapacityMB <= 6 THEN Refuse
     ELSE /\ geometry' = Geometry
          /\ step' = "layout"
          /\ UNCHANGED <<card, option, refused, layout, firstBlock, erased, sectors, zeroed>>

ClustersFrom(dataStart) == (cardSizeBlocks - dataStart) \div geometry.sectorsPerCluster
Smallest(S) == CHOOSE k \in S : \A j \in S : k <= j

\* Mutant: without the two entries that are reserved.
FatSizeShort(nc, entries) == (nc + entries - 1) \div entries

FatSize(nc, entries) == (nc + 2 + entries - 1) \div entries

\* The beginning of makeFat16(): FAT and directory end at a boundary.
Before16(d) == BU16 + 1 + 2 * FatSize(ClustersFrom(d), 256) + 32
Fits16 == {k \in 2..MaxBoundaries : BU16 * k >= Before16(BU16 * k)}

Layout16 ==
  LET d == BU16 * Smallest(Fits16)
      nc == ClustersFrom(d)
      fatSize == FatSize(nc, 256)
  IN [relSector |-> d - Before16(d) + BU16, reservedSectors |-> 1, fatSize |-> fatSize,
      dataStart |-> d, nc |-> nc,
      partSize |-> nc * geometry.sectorsPerCluster + 2 * fatSize + 1 + 32]

\* The beginning of makeFat32().
Before32(d) == BU32 + 9 + 2 * FatSize(ClustersFrom(d), 128)
Fits32 == {k \in 2..MaxBoundaries : BU32 * k >= Before32(BU32 * k)}

Layout32 ==
  LET d == BU32 * Smallest(Fits32)
      nc == ClustersFrom(d)
      fatSize == FatSize(nc, 128)
  IN [relSector |-> BU32, reservedSectors |-> Word16(d - BU32 - 2 * fatSize),
      fatSize |-> fatSize, dataStart |-> d, nc |-> nc,
      partSize |-> nc * geometry.sectorsPerCluster + d - BU32]

Layout == IF kind = "SDHC" THEN Layout32 ELSE Layout16
BadCount(nc) == IF kind = "SDHC" THEN nc < 65525 ELSE nc < 4085 \/ nc >= 65525

formatCard ==
  /\ step = "layout"
  /\ IF BadCount(Layout.nc) THEN Refuse
     ELSE /\ layout' = Layout /\ step' = "mbr"
          /\ UNCHANGED <<card, option, refused, geometry, firstBlock, erased, sectors, zeroed>>

-----------------------------------------------------------------------------
(***************************************************************************)
(* What is written, in this order.                                         *)
(***************************************************************************)
Put(s, b, content) == [x \in DOMAIN s \cup {b} |-> IF x = b THEN content ELSE s[x]]

Track == geometry.numberOfHeads * geometry.sectorsPerTrack
lbnToCylinder(lbn) == Word16(lbn \div Track)
lbnToHead(lbn) == ((lbn % Track) \div geometry.sectorsPerTrack) % 256
lbnToSector(lbn) == (lbn % geometry.sectorsPerTrack) + 1
Chs(lbn) == <<lbnToCylinder(lbn), lbnToHead(lbn), lbnToSector(lbn)>>
TooBig == <<1023, 254, 63>>

PartitionTable ==
  LET last == layout.relSector + layout.partSize - 1
  IN [holds |-> "partition table", partition |-> layout.relSector, total |-> layout.partSize,
      begin |-> Chs(layout.relSector),
      end |-> IF lbnToCylinder(last) <= 1023 THEN Chs(last) ELSE TooBig]

writeMbr ==
  /\ step = "mbr"
  /\ IF lbnToCylinder(layout.relSector) > 1023 THEN Refuse
     ELSE /\ sectors' = Put(sectors, 0, PartitionTable)
          /\ step' = "boot"
          /\ UNCHANGED <<card, option, refused, geometry, layout, firstBlock, erased, zeroed>>

BootSector ==
  [holds |-> "FAT boot record",
   bpb |-> [SecPerClus |-> geometry.sectorsPerCluster, RsvdSecCnt |-> layout.reservedSectors,
            NumFATs |-> 2, TotSec |-> layout.partSize,
            FATSz |-> IF kind = "SDHC" THEN layout.fatSize ELSE Word16(layout.fatSize),
            RootEntCnt |-> IF kind = "SDHC" THEN 0 ELSE 512,
            RootClus |-> IF kind = "SDHC" THEN 2 ELSE 0]]

\* FAT32 has a copy of it, and two more sectors with theirs.
WriteBoot ==
  /\ step = "boot"
  /\ LET rel == layout.relSector
         one == Put(sectors, rel, BootSector)
         extra == Put(Put(Put(one, rel + 6, BootSector), rel + 2, [holds |-> "signature"]),
                      rel + 8, [holds |-> "signature"])
         info == Put(Put(extra, rel + 1, [holds |-> "fsinfo"]), rel + 7, [holds |-> "fsinfo"])
     IN sectors' = IF kind = "SDHC" THEN info ELSE one
  /\ step' = "clear"
  /\ UNCHANGED <<card, option, refused, geometry, layout, firstBlock, erased, zeroed>>

fatStart == layout.relSector + layout.reservedSectors

FatAndDirectory ==
  <<fatStart, IF kind = "SDHC" THEN 2 * layout.fatSize + geometry.sectorsPerCluster
              ELSE layout.dataStart - fatStart>>

clearFatDir ==
  /\ step = "clear"
  /\ zeroed' = FatAndDirectory
  /\ step' = "reserve"
  /\ UNCHANGED <<card, option, refused, geometry, layout, firstBlock, erased, sectors>>

\* The entries of the FAT that are in use.
FirstOfFat == [holds |-> "fat", used |-> IF kind = "SDHC" THEN {0, 1, 2} ELSE {0, 1}]

Reserve ==
  /\ step = "reserve"
  /\ sectors' = Put(Put(sectors, fatStart, FirstOfFat), fatStart + layout.fatSize, FirstOfFat)
  /\ step' = "done"
  /\ UNCHANGED <<card, option, refused, geometry, layout, firstBlock, erased, zeroed>>

FormatNext ==
  \/ EraseCard \/ initSizes \/ formatCard
  \/ writeMbr \/ WriteBoot \/ clearFatDir \/ Reserve
  \/ FormatFails

FormatSpec == FormatInit /\ [][FormatNext]_formatVars

-----------------------------------------------------------------------------
(***************************************************************************)
(* The logger: SdVolume::init(), of the first partition or, failing that,  *)
(* of the card.                                                            *)
(***************************************************************************)
Shifts == {1, 2, 4, 8, 16, 32, 64, 128}      \* 1 << m_clusterSizeShift
Unformatted == [fatType |-> 0]

Volume(start, b) ==
  LET fat == start + b.RsvdSecCnt
      root == fat + b.NumFATs * b.FATSz
      data == root + (32 * b.RootEntCnt + 511) \div 512
      clusterCount == (b.TotSec - (data - start)) \div b.SecPerClus
      fatType == IF clusterCount < 4085 THEN 12 ELSE IF clusterCount < 65525 THEN 16 ELSE 32
  IN IF b.NumFATs = 0 \/ b.RsvdSecCnt = 0 \/ b.SecPerClus \notin Shifts \/ fatType = 12
       THEN Unformatted
     ELSE [fatType |-> fatType, fatStartBlock |-> fat, blocksPerFat |-> b.FATSz,
           rootDirStart |-> IF fatType = 32 THEN b.RootClus ELSE root,
           dataStartBlock |-> data, clusterCount |-> clusterCount,
           blocksPerCluster |-> b.SecPerClus]

At(b) == IF b \in DOMAIN sectors THEN sectors[b] ELSE [holds |-> "nothing"]

volumeInit ==
  LET start == IF At(0).holds = "partition table" THEN At(0).partition ELSE 0
  IN IF At(start).holds # "FAT boot record" THEN Unformatted ELSE Volume(start, At(start).bpb)

\* Entries of value 0 among the first clusterCount + 2 of the FAT.
freeClusters(v) ==
  LET perBlock == IF v.fatType = 16 THEN 256 ELSE 128
      todo == v.clusterCount + 2
      cleared == zeroed[1] <= v.fatStartBlock /\ zeroed[1] + zeroed[2] >= v.fatStartBlock + v.blocksPerFat
      used == At(v.fatStartBlock).used
  IN IF ~cleared \/ todo > perBlock * v.blocksPerFat THEN 0 ELSE todo - Cardinality(used)

\* The boot loader.
Pff == INSTANCE PetitFat WITH
  SectorSize <- 512, DirEntries <- 16, Fat16Entries <- 256, Fat32Entries <- 128,
  MinFat16 <- 4087, MinFat32 <- 65527

pf_mount == Pff!pf_mount([card |-> [kind |-> "SDHC", sector |-> sectors, files |-> <<>>],
                          CardType |-> {"SD2", "BLOCK"}, bad |-> {}])

-----------------------------------------------------------------------------
\* Cards the formatter is for: it refuses no other. The capacity of a card of
\* 64 GB and more comes round to a small one.
Formattable ==
  IF kind = "SDHC" THEN cardCapacityMB > 2056 ELSE 6 < cardCapacityMB /\ cardCapacityMB <= 2048

Below64GB == cardSizeBlocks <= 65535 * 2048

\* What the sketch has reached at a step, when it has not stopped with an error.
Formatting == option # "E" /\ step \notin {"erase", "error"}
Chosen == Formatting /\ step # "sizes"
LaidOut == Chosen /\ step # "layout"
Booted == LaidOut /\ step \notin {"mbr", "boot"}
FatCleared == Booted /\ step # "clear"

FormatTypes ==
  /\ <<kind, cardSizeBlocks>> \in CardSizes /\ option \in {"E", "F", "Q"}
  /\ step \in {"erase", "sizes", "layout", "mbr", "boot", "clear", "reserve", "done", "error"}
  /\ option = "Q" => step # "erase"
  /\ option = "E" => step \in {"erase", "done", "error"}
  /\ refused \in BOOLEAN /\ firstBlock \in Nat

\* The ranges that were erased follow one another up to firstBlock.
RangeOf(k) == <<ERASE_SIZE * k, Lesser(ERASE_SIZE * k + ERASE_SIZE, cardSizeBlocks) - 1>>

ErasedSoFar ==
  LET n == firstBlock \div ERASE_SIZE
  IN /\ firstBlock = ERASE_SIZE * n /\ erased = {RangeOf(k) : k \in 0..(n - 1)}
     /\ n # 0 => ERASE_SIZE * (n - 1) < cardSizeBlocks
     /\ step = "erase" => firstBlock < cardSizeBlocks
     /\ option # "Q" /\ step \notin {"erase", "error"} => firstBlock >= cardSizeBlocks

\* All that is written follows from the size of the card.
AsLaidOut ==
  /\ Chosen => cardCapacityMB > 6 /\ geometry = Geometry
  /\ LaidOut => layout = Layout /\ ~BadCount(layout.nc)
  /\ LaidOut /\ step # "mbr" =>
       At(0) = PartitionTable /\ lbnToCylinder(layout.relSector) <= 1023
  /\ Booted => At(layout.relSector) = BootSector
  /\ FatCleared => zeroed = FatAndDirectory
  /\ Formatting /\ step = "done" => At(fatStart) = FirstOfFat
  /\ step \in {"erase", "sizes", "layout", "mbr"} => sectors = NoSectors
  /\ LaidOut /\ kind # "SDHC" =>
       DOMAIN sectors \subseteq {0, layout.relSector, fatStart, fatStart + layout.fatSize}

Refusals == step = "error" /\ ~refused => ~Formattable

FormatInv == FormatTypes /\ ErasedSoFar /\ (Below64GB => AsLaidOut /\ Refusals)

\* A card that was formatted is mounted by the logger and by the boot loader,
\* with one idea of where FAT, directory and data are; the data lie within
\* the card, begin at a boundary, and are all free; the FAT has an entry for
\* each cluster; the partition table names the same blocks in both its
\* notations.  An erased card is erased to the last block.  And no card of a
\* usual size is refused (SdFormatter.ino, SdVolume::init, pf_mount).
FormattedIsMounted ==
  LET v == volumeInit
      fs == pf_mount
      mbr == At(0)
      Lbn(c) == (c[1] * geometry.numberOfHeads + c[2]) * geometry.sectorsPerTrack + c[3] - 1
  IN /\ step = "done" /\ option # "E" =>
          /\ v.fatType = IF kind = "SDHC" THEN 32 ELSE 16
          /\ fs.mounted /\ fs.fs_type = IF kind = "SDHC" THEN "FAT32" ELSE "FAT16"
          /\ v.fatStartBlock = fs.fatbase /\ v.rootDirStart = fs.dirbase
          /\ v.dataStartBlock = fs.database /\ v.dataStartBlock = layout.dataStart
          /\ v.clusterCount = fs.n_fatent - 2 /\ v.clusterCount = layout.nc
          /\ v.dataStartBlock + v.clusterCount * v.blocksPerCluster <= cardSizeBlocks
          /\ v.dataStartBlock % BU16 = 0
          /\ freeClusters(v) = v.clusterCount - (IF kind = "SDHC" THEN 1 ELSE 0)
          /\ mbr.partition + mbr.total = v.dataStartBlock + v.clusterCount * v.blocksPerCluster
          /\ Lbn(mbr.begin) = mbr.partition
          /\ mbr.end # TooBig => Lbn(mbr.end) = mbr.partition + mbr.total - 1
          /\ v.rootDirStart \notin DOMAIN sectors \/ kind = "SDHC"
     /\ step = "done" /\ option # "Q" =>
          /\ \A e1, e2 \in erased : e1 # e2 => e1[2] < e2[1] \/ e2[2] < e1[1]
          /\ \E e \in erased : e[2] = cardSizeBlocks - 1
          /\ \A e \in erased : e[1] = 0 \/ \E d \in erased : d[2] + 1 = e[1]
     /\ Refusals
     /\ FormatInv

=============================================================================
