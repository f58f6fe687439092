------------------------------ MODULE PetitFat ------------------------------
(***************************************************************************)
(* How the boot loader finds and reads a file of the card: mmc.c and pff.c *)
(* (Petit FatFs without FAT12, directories, seeking and writing).  All of  *)
(* it only reads, so each call is an operator on the medium: the card in   *)
(* the slot, what disk_initialize() found it to be, and what does not      *)
(* answer during the call.  A sector is a record of what it holds; sizes   *)
(* are scaled down together with the limits that go with them.             *)
(*                                                                         *)
(* External: the card, which says what it is when it is initialized.       *)
(***************************************************************************)
EXTENDS Integers, Sequences

CONSTANTS
  SectorSize,     \* 512 bytes in the code; here in words of the flash
  DirEntries,     \* directory entries in a sector: 16 in the code
  Fat16Entries,   \* FAT entries in a sector: 256 in the code
  Fat32Entries,   \* 128 in the code
  MinFat16,       \* 0xFF7 in the code
  MinFat32        \* 0xFFF7 in the code

ASSUME PetitFatAssumption ==
  /\ SectorSize \in Nat \ {0} /\ DirEntries \in Nat \ {0}
  /\ Fat16Entries \in Nat \ {0} /\ Fat32Entries \in Nat \ {0}
  /\ MinFat16 \in Nat /\ MinFat32 \in Nat /\ 2 < MinFat16 /\ MinFat16 < MinFat32

Error == [holds |-> "nothing"]     \* a transfer that failed
NoCard == [kind |-> "none", sector |-> <<>>, files |-> <<>>]
Busy == -1                         \* among what does not answer: never ready

(* mmc.c *)

\* What the card answers to a command.
Response(card, command) ==
  CASE card.kind = "none" -> 255
    [] command = "CMD0" -> 1
    [] command = "CMD8" -> IF card.kind \in {"SD2", "SDHC"} THEN 1 ELSE 5
    [] command = "ACMD41" -> IF card.kind = "MMC" THEN 5 ELSE 1
    [] OTHER -> 0

\* The card type as the set of its flags; no flag: STA_NOINIT.
disk_initialize(card, bad) ==
  LET Answers(command, r) == Response(card, command) = r
      ready == Busy \notin bad     \* before the loop has counted to 0
  IN CASE ~Answers("CMD0", 1) \/ ~ready -> {}
       [] Answers("CMD0", 1) /\ ready /\ Answers("CMD8", 1) ->
            IF ~Answers("CMD58", 0) THEN {}
            ELSE IF card.kind = "SDHC" THEN {"SD2", "BLOCK"} ELSE {"SD2"}
       [] OTHER ->
            IF ~Answers("CMD16", 0) THEN {}
            ELSE IF Response(card, "ACMD41") <= 1 THEN {"SD1"} ELSE {"MMC"}

\* A card that is addressed in blocks takes the argument as a block.
disk_readp(m, lba) ==
  LET argument == IF "BLOCK" \in m.CardType THEN lba ELSE lba * SectorSize
      block == IF m.card.kind = "SDHC" THEN argument
               ELSE argument \div SectorSize
  IN IF block \in m.bad \/ block \notin DOMAIN m.card.sector THEN Error
     ELSE m.card.sector[block]

(* pff.c: mounting *)

\* 0: a FAT boot record, 1: a boot record, 2: none, 3: error
check_fs(m, sect) ==
  CASE disk_readp(m, sect).holds = "nothing" -> 3
    [] disk_readp(m, sect).holds = "FAT boot record" -> 0
    [] disk_readp(m, sect).holds = "partition table" -> 1
    [] OTHER -> 2

NotMounted == [mounted |-> FALSE]
Mounted(bsect, bpb) ==
  LET fsize == bpb.FATSz * bpb.NumFATs
      fatbase == bsect + bpb.RsvdSecCnt
      root == bpb.RootEntCnt \div DirEntries
      clusters == (bpb.TotSec - bpb.RsvdSecCnt - fsize - root)
                    \div bpb.SecPerClus
      mclst == clusters + 2
      fs_type == IF mclst >= MinFat32 THEN "FAT32" ELSE "FAT16"
  IN IF mclst < MinFat16 THEN NotMounted
     ELSE [mounted |-> TRUE, fs_type |-> fs_type, fatbase |-> fatbase,
           csize |-> bpb.SecPerClus, n_rootdir |-> bpb.RootEntCnt,
           n_fatent |-> mclst,
           dirbase |-> IF fs_type = "FAT32" THEN bpb.RootClus
                       ELSE fatbase + fsize,
           database |-> fatbase + fsize + root]

pf_mount(m) ==
  LET partition == disk_readp(m, 0).partition   \* of the first entry; 0: none
      bsect == IF check_fs(m, 0) = 1 /\ partition # 0 THEN partition ELSE 0
  IN IF m.CardType = {} \/ check_fs(m, bsect) # 0 THEN NotMounted
     ELSE Mounted(bsect, disk_readp(m, bsect).bpb)

(* pff.c: clusters *)

\* 1: error, else the link.
get_fat(m, fs, clst) ==
  LET per == IF fs.fs_type = "FAT16" THEN Fat16Entries ELSE Fat32Entries
      s == disk_readp(m, fs.fatbase + (clst \div per))
  IN IF clst < 2 \/ clst >= fs.n_fatent \/ s.holds # "fat" THEN 1
     ELSE s.links[(clst % per) + 1]

\* 0: not a cluster.
clust2sect(fs, clst) ==
  IF clst < 2 \/ clst >= fs.n_fatent THEN 0
  ELSE (clst - 2) * fs.csize + fs.database

(* pff.c: the root directory *)

dir_rewind(fs) ==
  LET clst == IF fs.fs_type = "FAT32" THEN fs.dirbase ELSE 0
  IN [index |-> 0, clust |-> clst,
      sect |-> IF clst = 0 THEN fs.dirbase ELSE clust2sect(fs, clst)]

NO_FILE == [res |-> "FR_NO_FILE"]
DISK_ERR == [res |-> "FR_DISK_ERR"]
dir_next(m, fs, dj) ==
  LET i == dj.index + 1
      next == [dj EXCEPT !.index = i]
      link == get_fat(m, fs, dj.clust)
  IN CASE i % DirEntries # 0 -> next
       [] i % DirEntries = 0 /\ dj.clust = 0 ->
            IF i >= fs.n_rootdir THEN NO_FILE
            ELSE [next EXCEPT !.sect = @ + 1]
       [] i % DirEntries = 0 /\ dj.clust # 0 ->
            IF (i \div DirEntries) % fs.csize # 0
              THEN [next EXCEPT !.sect = @ + 1]
            ELSE IF link <= 1 THEN DISK_ERR
            ELSE IF link >= fs.n_fatent THEN NO_FILE
            ELSE [next EXCEPT !.clust = link, !.sect = clust2sect(fs, link)]

LastEntry == <<"last">>      \* the name in an entry that was never used
dir_find(m, fs, fn) ==
  LET find[dj \in [index : Nat, clust : Nat, sect : Nat]] ==
        LET s == disk_readp(m, dj.sect)
            e == s.entries[(dj.index % DirEntries) + 1]
            next == dir_next(m, fs, dj)
        IN IF s.holds # "directory" THEN DISK_ERR
           ELSE IF e.name = LastEntry THEN NO_FILE
           ELSE IF ~e.vol /\ e.name = fn THEN e
           ELSE IF next \in {NO_FILE, DISK_ERR} THEN next
           ELSE find[next]
  IN find[dir_rewind(fs)]

(* pff.c: the file *)

NotOpened == [opened |-> FALSE]
File(org_clust, fsize, fptr, curr_clust, dsect) ==
  [opened |-> TRUE, org_clust |-> org_clust, fsize |-> fsize, fptr |-> fptr,
   curr_clust |-> curr_clust, dsect |-> dsect]

pf_open(m, fs, fn) ==
  LET e == dir_find(m, fs, fn)
  IN IF ~fs.mounted THEN NotOpened
     ELSE IF e \in {NO_FILE, DISK_ERR} THEN NotOpened
     ELSE IF e.dir THEN NotOpened
     ELSE File(e.clust, e.size, 0, 0, 0)

\* A file whose clusters are taken to follow one another.
InARow(m, fs, file) ==
  file.org_clust + (file.fptr \div SectorSize) \div fs.csize

\* The cluster to read from: the next one when the last is at its end.
ClusterOf(m, fs, file) ==
  IF file.fptr % SectorSize # 0 \/ (file.fptr \div SectorSize) % fs.csize # 0
  THEN file.curr_clust
  ELSE IF file.fptr = 0 THEN file.org_clust ELSE get_fat(m, fs, file.curr_clust)

\* The loop of pf_read() for a piece that lies in one sector, as the pages
\* of the flash do.
pf_read(m, fs, file, btr) ==
  LET offset == file.fptr % SectorSize
      remain == file.fsize - file.fptr
      count == IF btr > remain THEN remain ELSE btr
      cs == (file.fptr \div SectorSize) % fs.csize
      clst == ClusterOf(m, fs, file)
      dsect == IF offset # 0 THEN file.dsect ELSE clust2sect(fs, clst) + cs
      aborted == \/ clst <= 1
                 \/ offset = 0 /\ clust2sect(fs, clst) = 0
                 \/ disk_readp(m, dsect).holds # "data"
  IN IF ~file.opened THEN [file |-> file, data |-> <<>>]
     ELSE IF count = 0 THEN [file |-> file, data |-> <<>>]
     ELSE IF aborted THEN [file |-> NotOpened, data |-> <<>>]
     ELSE [file |-> File(file.org_clust, file.fsize, file.fptr + count, clst, dsect),
           data |-> SubSeq(disk_readp(m, dsect).words,
                           offset + 1, offset + count)]
=============================================================================
