--------------------------- MODULE BootLoaderProofs ---------------------------
(***************************************************************************)
(* A program the boot loader starts is whole, for every set of cards whose *)
(* files are whole (CardsAreSound), every page size and size of the flash, *)
(* and every sequence of power cuts.  A flash that is neither whole nor    *)
(* without a program comes from an update that was cut; then the version   *)
(* is still the one from before and the card is the same, so the search    *)
(* will come to a file that is written whole.                              *)
(***************************************************************************)
EXTENDS BootLoader, RingLemmas

Opens(c, n) == Opened(c, n).opened
Updates(c, n) == Opens(c, n) /\ c.files[n].size > 0
NoneIn(c, low, high) == \A v \in low..high : ~Opens(c, FirmwareName(v))
OneIn(c, low, high) == \E v \in low..high : Updates(c, FirmwareName(v))

\* Nothing that could be started in part.
Fine == Whole \/ flash[0] = FF

\* A search from the beginning writes a program.
WillUpdate(c) ==
  LET f == FlashVersion
  IN \/ OneIn(c, f + 1, f + 10)
     \/ NoneIn(c, f + 1, f + 10) /\ Updates(c, filename2)

\* The search is at x, with the card or without it.
SearchIn(c) ==
  /\ CardType = disk_initialize(c, {}) /\ Fatfs = Mount(c) /\ card \in {c, NoCard}
  /\ flashver = FlashVersion /\ x \in flashver..(flashver + 10) /\ found \in BOOLEAN
  /\ card = c /\ ~found => NoneIn(c, x + 1, flashver + 10)
  /\ \/ Fine
     \/ /\ card = c
        /\ \/ OneIn(c, flashver + 1, x)
           \/ ~found /\ NoneIn(c, flashver + 1, flashver + 10) /\ Updates(c, filename2)

\* The file is read up to word k of its program.
ReadTo(f, c, p, chain, k) ==
  LET fptr == IF k < p.size THEN k ELSE p.size
  IN \E first, clst, sect :
       /\ f = File(first, p.size, fptr, clst, sect)
       /\ p.size > 0 => first = chain[0]
       /\ 0 < k /\ k < p.size =>
            /\ clst = chain[((k - 1) \div SectorSize) \div Mount(c).csize]
            /\ sect = SectorOf(c, chain, (k - 1) \div SectorSize)

LiesIn(c, p, chain) ==
  /\ p.size \in 0..BOOT_ADR /\ Mount(c).csize \in Nat \ {0} /\ chain \in Chains(c, p)
  /\ \A i \in 0..LastSector(p) : HoldsSector(c, chain, i, p) /\ IsLinked(c, chain, i)

Written(p, k) == \A a \in 0..(p.size - 1) : a < k => flash[a] = Word(p, a)

\* The file of name n is being written from word fa on.
Writes(n) ==
  LET p == card.files[n]
  IN /\ CardType = disk_initialize(card, {}) /\ Fatfs = Mount(card)
     /\ Opens(card, n) /\ flashver = FlashVersion /\ found \in BOOLEAN
     /\ IF found THEN n = FirmwareName(x) /\ x \in (flashver + 1)..(flashver + 10)
        ELSE n = filename2 /\ x = flashver /\ NoneIn(card, flashver + 1, flashver + 10)
     /\ fa \in 0..BOOT_ADR /\ fa % PageSize = 0 /\ Written(p, fa)
     /\ p.size = 0 => Fine \/ (found /\ OneIn(card, flashver + 1, x - 1))
     /\ \E chain : /\ LiesIn(card, p, chain)
                   /\ ReadTo(file, card, p, chain, IF pc = "read" THEN fa ELSE fa + PageSize)
     /\ pc # "read" =>
          /\ fa < p.size
          /\ \A a \in PageOf(fa) : a < p.size => Buff[a - fa + 1] = Word(p, a)

Places ==
  {"checkProgram", "search", "read", "erase", "write", "start", "setup", "setup2", "runs", "off"}

Versions == [1..2 -> 0..255]

TypeInv ==
  /\ pc \in Places
  /\ version \in Versions
  /\ pc = "setup2" => x \in Word16
  /\ disturbed \in BOOLEAN

\* What holds at each place, as long as nothing has disturbed an update.
Ready ==
  /\ Started => Whole
  /\ pc = "start" => Fine
  /\ pc \in {"off", "checkProgram"} => Fine \/ WillUpdate(card)
  /\ pc = "search" => \E c \in Cards : SearchIn(c)
  /\ pc \in {"read", "erase", "write"} => \E n \in FirmwareNames : Writes(n)

LoaderInv ==
  /\ TypeInv
  /\ card \in Cards
  /\ ~disturbed => Ready

-----------------------------------------------------------------------------
(***************************************************************************)
(* Pages, sectors and clusters.                                            *)
(***************************************************************************)
LEMMA DivUnique ==
  ASSUME NEW q \in Nat, NEW r \in Nat, NEW N \in Nat \ {0}, r < N
  PROVE  (N * q + r) \div N = q
OBVIOUS

LEMMA DivFits ==
  ASSUME NEW k \in Nat, NEW d \in Nat, NEW N \in Nat \ {0}, (k % N) + d < N
  PROVE  (k + d) \div N = k \div N
<1> DEFINE q == k \div N
           r == k % N
<1>1. q \in Nat /\ r \in Nat /\ k = N * q + r /\ r + d < N
  BY DivRange, ModRange, DivMod
<1> HIDE DEF q, r
<1>2. k + d = N * q + (r + d) /\ r + d \in Nat
  BY <1>1
<1>3. (N * q + (r + d)) \div N = q
  BY <1>1, <1>2, DivUnique
<1> QED BY <1>2, <1>3 DEF q

LEMMA DivPrevious ==
  ASSUME NEW k \in Nat \ {0}, NEW N \in Nat \ {0}
  PROVE  (k - 1) \div N = IF k % N = 0 THEN (k \div N) - 1 ELSE k \div N
<1> DEFINE q == k \div N
           r == k % N
<1>1. q \in Nat /\ r \in 0..(N - 1) /\ k = N * q + r
  BY DivRange, ModRange, DivMod
<1> HIDE DEF q, r
<1>2. CASE r = 0
  <2>1. q # 0
    <3>1. q = 0 => N * q = 0
      OBVIOUS
    <3> QED BY <1>1, <1>2, <3>1
  <2>2. q - 1 \in Nat /\ k - 1 = N * (q - 1) + (N - 1) /\ N - 1 \in Nat /\ N - 1 < N
    BY <1>1, <1>2, <2>1
  <2>3. (N * (q - 1) + (N - 1)) \div N = q - 1
    BY <2>2, DivUnique
  <2> QED BY <1>2, <2>2, <2>3 DEF q, r
<1>3. CASE r # 0
  <2>1. r - 1 \in Nat /\ r - 1 < N /\ k - 1 = N * q + (r - 1)
    BY <1>1, <1>3
  <2>2. (N * q + (r - 1)) \div N = q
    BY <1>1, <2>1, DivUnique
  <2> QED BY <1>3, <2>1, <2>2 DEF q, r
<1> QED BY <1>2, <1>3

\* A page does not cross a sector.
LEMMA PageFits ==
  ASSUME NEW k \in Nat, NEW P \in Nat \ {0}, NEW S \in Nat \ {0}, k % P = 0, S % P = 0
  PROVE  (k % S) + P <= S
<1> DEFINE a == S \div P
           b == k \div P
           q == k \div S
           o == k % S
           d == b - a * q
<1>1. /\ a \in Nat /\ b \in Nat /\ q \in Nat /\ o \in 0..(S - 1)
      /\ S = P * a /\ k = P * b /\ k = S * q + o
  <2>1. S = P * a + 0 /\ k = P * b + 0 /\ k = S * q + o
    BY DivMod
  <2>2. a \in Nat /\ b \in Nat /\ q \in Nat /\ o \in 0..(S - 1)
    BY DivRange, ModRange
  <2> QED BY <2>1, <2>2
<1> HIDE DEF a, b, q, o
<1>2. a * q \in Nat /\ d \in Int
  BY <1>1
<1>3. S * q = P * (a * q)
  BY <1>1
<1>4. o = P * b - P * (a * q)
  BY <1>1, <1>2, <1>3
<1>5. P * (b - a * q) = P * b - P * (a * q)
  BY <1>1, <1>2
<1>6. o = P * d
  BY <1>4, <1>5
<1> HIDE DEF d
<1>7. d < a
  <2> SUFFICES ASSUME d >= a PROVE FALSE
    BY <1>1, <1>2
  <2>1. P * d >= P * a
    BY <1>1, <1>2
  <2> QED BY <1>1, <1>6, <2>1
<1>8. P * (d + 1) <= P * a
  BY <1>1, <1>2, <1>7
<1>9. P * (d + 1) = o + P
  BY <1>2, <1>6
<1> QED BY <1>1, <1>8, <1>9 DEF o

-----------------------------------------------------------------------------
(***************************************************************************)
(* pf_read() on a file that lies in its chain.                             *)
(***************************************************************************)
LEMMA Sizes ==
  /\ PageSize \in Nat \ {0} /\ SectorSize \in Nat \ {0} /\ BOOT_ADR \in Nat \ {0}
  /\ SectorSize % PageSize = 0 /\ BOOT_ADR % PageSize = 0
BY PetitFatAssumption, BootLoaderAssumption

\* The sector and the cluster of a word of the program.
LEMMA SectorThere ==
  ASSUME NEW c, NEW p, NEW chain, LiesIn(c, p, chain), NEW k \in Nat, k < p.size
  PROVE  /\ k \div SectorSize \in 0..LastSector(p)
         /\ HoldsSector(c, chain, k \div SectorSize, p) /\ IsLinked(c, chain, k \div SectorSize)
         /\ chain[(k \div SectorSize) \div Mount(c).csize] \in Int
         /\ chain[(k \div SectorSize) \div Mount(c).csize] >= 2
<1> DEFINE q == k \div SectorSize
           z == p.size - 1
           w == Mount(c).csize
<1>1. k \in Nat /\ z \in Nat /\ k <= z /\ w \in Nat \ {0}
  BY Sizes DEF LiesIn
<1> HIDE DEF z, w
<1>2. q \in Nat /\ z \div SectorSize \in Nat /\ q <= z \div SectorSize
  BY <1>1, Sizes, DivRange, DivMono
<1>3. LastSector(p) = z \div SectorSize
  BY DEF LastSector, z
<1> HIDE DEF q
<1>4. q \div w \in Nat /\ q \div w <= LastSector(p) \div w
  BY <1>1, <1>2, <1>3, DivRange, DivMono
<1>5. q \in 0..LastSector(p)
  BY <1>2, <1>3
<1>6. q \div w \in 0..(LastSector(p) \div w)
  <2>1. LastSector(p) \div w \in Nat
    BY <1>1, <1>2, <1>3, DivRange
  <2> QED BY <1>4, <2>1
<1>7. chain[q \div w] \in 2..(Mount(c).n_fatent - 1)
  BY <1>6 DEF LiesIn, Chains, w
<1>8. chain[q \div w] \in Int /\ chain[q \div w] >= 2
  BY <1>7
<1>9. HoldsSector(c, chain, q, p) /\ IsLinked(c, chain, q)
  BY <1>5 DEF LiesIn
<1> QED BY <1>5, <1>8, <1>9 DEF q, w

\* Where the next words of a file are, and how many there are on the page.
Locates(m, fs, f, clst, sect, count) ==
  LET cs == (f.fptr \div SectorSize) % fs.csize
  IN /\ f.opened
     /\ clst = IF f.fptr % SectorSize # 0 \/ cs # 0 THEN f.curr_clust
               ELSE IF f.fptr = 0 THEN f.org_clust ELSE get_fat(m, fs, f.curr_clust)
     /\ sect = IF f.fptr % SectorSize # 0 THEN f.dsect ELSE clust2sect(fs, clst) + cs
     /\ ~(clst <= 1) /\ clust2sect(fs, clst) # 0 /\ disk_readp(m, sect).holds = "data"
     /\ count = IF PageSize > f.fsize - f.fptr THEN f.fsize - f.fptr ELSE PageSize
     /\ count # 0

Part(words, o, count) == SubSeq(words, o + 1, o + count)
Answer(m, f, clst, sect, count) ==
  [file |-> File(f.org_clust, f.fsize, f.fptr + count, clst, sect),
   data |-> Part(disk_readp(m, sect).words, f.fptr % SectorSize, count)]

LEMMA ReadIs ==
  ASSUME NEW m, NEW fs, NEW f, NEW clst, NEW sect, NEW count, Locates(m, fs, f, clst, sect, count)
  PROVE  pf_read(m, fs, f, PageSize) = Answer(m, f, clst, sect, count)
<1>1. clst = ClusterOf(m, fs, f)
  BY Zenon DEF Locates, ClusterOf
<1> QED BY <1>1, Zenon DEF pf_read, Locates, Answer, Part

\* A part of a sector.
HasWords(words, size) == words = [i \in 1..size |-> words[i]]

LEMMA PartOf ==
  ASSUME NEW words, NEW size \in Nat, HasWords(words, size),
         NEW o \in Nat, NEW count \in Nat, o + count <= size
  PROVE  /\ Len(Part(words, o, count)) = count
         /\ \A j \in 1..count : Part(words, o, count)[j] = words[o + j]
<1> DEFINE T == {words[i] : i \in 1..size}
<1>1. words \in [1..size -> T]
  BY DEF HasWords
<1> HIDE DEF T
<1>2. words \in Seq(T) /\ Len(words) = size
  BY <1>1
<1>3. SubSeq(words, o + 1, o + count) = [j \in 1..count |-> words[o + j]]
  BY <1>2
<1>4. Part(words, o, count) = [j \in 1..count |-> words[o + j]]
  BY <1>3 DEF Part
<1>5. Part(words, o, count) \in [1..count -> T]
  BY <1>1, <1>4
<1>6. Len(Part(words, o, count)) = count
  BY <1>5
<1> QED BY <1>4, <1>6

\* A page of the program: its words, and where the reading goes on.
LEMMA PageRead ==
  ASSUME NEW c, NEW p, NEW chain, LiesIn(c, p, chain), NEW k \in Nat, k % PageSize = 0,
         k < p.size, NEW f, ReadTo(f, c, p, chain, k), NEW r,
         r = pf_read(AsFound(c), Mount(c), f, PageSize)
  PROVE  /\ r.data # <<>>
         /\ \A j \in 1..PageSize :
              k + j - 1 < p.size => j <= Len(r.data) /\ r.data[j] = Word(p, k + j - 1)
         /\ ReadTo(r.file, c, p, chain, k + PageSize)
<1> DEFINE q == k \div SectorSize
           o == k % SectorSize
           w == Mount(c).csize
           J == q \div w
           m == AsFound(c)
           fs == Mount(c)
           size == p.size
           rest == size - k
           count == IF PageSize > rest THEN rest ELSE PageSize
           clst == chain[J]
           sect == SectorOf(c, chain, q)
           words == disk_readp(m, sect).words
<1>1. size \in Nat /\ w \in Nat \ {0} /\ k < size
  BY Sizes DEF LiesIn
<1>2. /\ q \in Nat /\ o \in 0..(SectorSize - 1) /\ k = SectorSize * q + o
      /\ o + PageSize <= SectorSize
  BY Sizes, DivRange, ModRange, DivMod, PageFits
<1>3. HoldsSector(c, chain, q, p) /\ IsLinked(c, chain, q) /\ clst \in Int /\ clst > 1
  <2>1. HoldsSector(c, chain, q, p) /\ IsLinked(c, chain, q) /\ clst \in Int /\ clst >= 2
    BY <1>1, SectorThere
  <2> HIDE DEF clst
  <2>2. clst > 1
    BY <2>1
  <2> QED BY <2>1, <2>2
<1>4. /\ clust2sect(fs, clst) # 0
      /\ q # 0 /\ q % w = 0 => clst = get_fat(m, fs, chain[J - 1])
  BY <1>3, Zenon DEF IsLinked
<1>5. /\ disk_readp(m, sect).holds = "data" /\ words = [i \in 1..SectorSize |-> words[i]]
      /\ \A i \in 0..(SectorSize - 1) :
           SectorSize * q + i < size => words[i + 1] = Word(p, SectorSize * q + i)
  BY <1>3, Zenon DEF HoldsSector
<1>6. sect = clust2sect(fs, clst) + (q % w)
  BY DEF SectorOf
<1>7. PICK c0, c1, s1 :
        /\ f = File(c0, size, k, c1, s1)
        /\ c0 = chain[0]
        /\ 0 < k => /\ c1 = chain[((k - 1) \div SectorSize) \div w]
                    /\ s1 = SectorOf(c, chain, (k - 1) \div SectorSize)
  BY <1>1 DEF ReadTo
<1> HIDE DEF q, o, w, m, fs, size
<1>8. /\ f.opened /\ f.fptr = k /\ f.fsize = size /\ f.org_clust = c0
      /\ f.curr_clust = c1 /\ f.dsect = s1
  BY <1>7 DEF File
<1>9. o # 0 => k # 0 /\ (k - 1) \div SectorSize = q
  <2> SUFFICES ASSUME o # 0 PROVE k # 0 /\ (k - 1) \div SectorSize = q
    OBVIOUS
  <2>1. k # 0
    BY Sizes DEF o
  <2> QED BY <2>1, DivPrevious, Sizes DEF o, q
<1>10. o = 0 /\ k # 0 => q # 0 /\ (k - 1) \div SectorSize = q - 1
  <2> SUFFICES ASSUME o = 0, k # 0 PROVE q # 0 /\ (k - 1) \div SectorSize = q - 1
    OBVIOUS
  <2>1. (k - 1) \div SectorSize = q - 1
    BY DivPrevious, Sizes DEF o, q
  <2>2. q = 0 => SectorSize * q + o = 0
    BY Sizes
  <2> QED BY <1>2, <2>1, <2>2
<1>11. q # 0 => (q - 1) \div w = IF q % w = 0 THEN J - 1 ELSE J
  BY <1>1, <1>2, DivPrevious
<1>12. k = 0 => J = 0 /\ o = 0 /\ q % w = 0
  <2>1. k = 0 => q = 0 /\ o = 0
    BY Sizes DEF q, o
  <2>2. 0 \div w = 0 /\ 0 % w = 0
    BY <1>1
  <2> QED BY <2>1, <2>2
<1> HIDE DEF J
<1>13. clst = IF o # 0 \/ q % w # 0 THEN c1
              ELSE IF k = 0 THEN c0 ELSE get_fat(m, fs, c1)
  <2>1. CASE o # 0
    <3>1. c1 = chain[q \div w]
      BY <1>7, <1>9, <2>1
    <3> QED BY <2>1, <3>1 DEF J
  <2>2. CASE o = 0 /\ q % w # 0
    <3>1. k # 0
      BY <1>12, <2>2
    <3>2. c1 = chain[(q - 1) \div w] /\ q # 0
      BY <1>7, <1>10, <2>2, <3>1
    <3> QED BY <1>11, <2>2, <3>2
  <2>3. CASE o = 0 /\ q % w = 0 /\ k = 0
    BY <1>7, <1>12, <2>3
  <2>4. CASE o = 0 /\ q % w = 0 /\ k # 0
    <3>1. c1 = chain[(q - 1) \div w] /\ q # 0
      BY <1>7, <1>10, <2>4
    <3>2. c1 = chain[J - 1]
      BY <1>11, <2>4, <3>1
    <3> QED BY <1>4, <2>4, <3>1, <3>2
  <2> QED BY <2>1, <2>2, <2>3, <2>4
<1>14. sect = IF o # 0 THEN s1 ELSE clust2sect(fs, clst) + (q % w)
  BY <1>6, <1>7, <1>9
<1>15. count \in Nat \ {0} /\ count <= PageSize /\ o + count <= SectorSize
  BY <1>1, <1>2, Sizes
<1> HIDE DEF clst, sect, count
<1> DEFINE next == File(c0, size, k + count, clst, sect)
           part == Part(words, o, count)
<1>16. r.file = next /\ r.data = part
  <2>1. r = pf_read(m, fs, f, PageSize)
    BY DEF m, fs
  <2>2. /\ f.fptr % SectorSize = o /\ f.fptr \div SectorSize = q /\ fs.csize = w
        /\ count = IF PageSize > f.fsize - f.fptr THEN f.fsize - f.fptr ELSE PageSize
    BY <1>8 DEF o, q, fs, w, count
  <2>3. LET cs == (f.fptr \div SectorSize) % fs.csize
        IN /\ clst = IF f.fptr % SectorSize # 0 \/ cs # 0 THEN f.curr_clust
                     ELSE IF f.fptr = 0 THEN f.org_clust ELSE get_fat(m, fs, f.curr_clust)
           /\ sect = IF f.fptr % SectorSize # 0 THEN f.dsect ELSE clust2sect(fs, clst) + cs
    BY <1>8, <1>13, <1>14, <2>2, Zenon
  <2>4. pf_read(m, fs, f, PageSize) = [file |-> next, data |-> part]
    <3> HIDE DEF words
    <3>1. pf_read(m, fs, f, PageSize) = Answer(m, f, clst, sect, count)
      <4>1. ~(clst <= 1) /\ count # 0
        BY <1>3, <1>15
      <4>2. Locates(m, fs, f, clst, sect, count)
        <5>1. f.opened
          BY <1>8
        <5>2. clust2sect(fs, clst) # 0
          BY <1>4
        <5>3. disk_readp(m, sect).holds = "data"
          BY <1>5
        <5>4. count = IF PageSize > f.fsize - f.fptr THEN f.fsize - f.fptr ELSE PageSize
          BY <2>2
        <5> QED BY <2>3, <4>1, <5>1, <5>2, <5>3, <5>4, Zenon DEF Locates
      <4> HIDE DEF m, fs, clst, sect, count
      <4> QED BY <4>2, ReadIs, SMT
    <3> QED BY <1>8, <2>2, <3>1, Zenon DEF words, Answer
  <2> HIDE DEF next, part
  <2> QED BY <2>1, <2>4
<1>17. Len(r.data) = count /\ \A j \in 1..count : r.data[j] = words[o + j]
  <2>1. r.data = Part(words, o, count)
    BY <1>16
  <2>2. o \in Nat /\ count \in Nat
    BY <1>2, <1>15
  <2>3. HasWords(words, SectorSize)
    BY <1>5, Zenon DEF HasWords
  <2>4. SectorSize \in Nat /\ o + count <= SectorSize
    BY <1>15, Sizes
  <2> HIDE DEF words
  <2> QED BY <2>1, <2>2, <2>3, <2>4, PartOf
<1>18. ASSUME NEW j \in 1..PageSize, k + j - 1 < size
       PROVE  j <= count /\ words[o + j] = Word(p, k + j - 1)
  <2>1. j <= count
    BY <1>1, <1>18, Sizes DEF count
  <2>2. o + j - 1 \in 0..(SectorSize - 1) /\ SectorSize * q + (o + j - 1) = k + j - 1 /\ (o + j - 1) + 1 = o + j
    BY <1>2, <1>15, <2>1, Sizes
  <2> QED BY <1>5, <1>18, <2>1, <2>2
<1>19. r.data # <<>>
  <2>1. Len(<<>>) = 0
    OBVIOUS
  <2> QED BY <1>15, <1>17, <2>1
<1>20. ReadTo(r.file, c, p, chain, k + PageSize)
  <2> DEFINE d == k + PageSize
             fptr == IF d < size THEN d ELSE size
             g == r.file
  <2>1. g = File(c0, size, k + count, clst, sect)
    BY <1>16
  <2>3. k + count = fptr
    BY <1>1, Sizes DEF count
  <2>5. d < size => (d - 1) \div SectorSize = q
    <3>1. (k + (PageSize - 1)) \div SectorSize = k \div SectorSize
      <4>1. PageSize - 1 \in Nat /\ (k % SectorSize) + (PageSize - 1) < SectorSize
        BY <1>2, Sizes DEF o
      <4> QED BY <4>1, DivFits, Sizes
    <3>2. d - 1 = k + (PageSize - 1)
      BY Sizes
    <3> QED BY <3>1, <3>2 DEF q
  <2>6. clst = chain[q \div w] /\ sect = SectorOf(c, chain, q)
    BY DEF clst, sect, J
  <2> HIDE DEF g, d, fptr
  <2>7. \E c2, d2, s2 :
          /\ g = File(c2, size, fptr, d2, s2)
          /\ size > 0 => c2 = chain[0]
          /\ 0 < d /\ d < size => /\ d2 = chain[((d - 1) \div SectorSize) \div w]
                                  /\ s2 = SectorOf(c, chain, (d - 1) \div SectorSize)
    <3> WITNESS c0, clst, sect
    <3> QED BY <1>7, <2>1, <2>3, <2>5, <2>6
  <2> QED BY <2>7 DEF ReadTo, size, w, d, fptr, g
<1> QED BY <1>17, <1>18, <1>19, <1>20 DEF size

\* Behind the end of the file nothing is read.
LEMMA EndRead ==
  ASSUME NEW c, NEW p, NEW chain, LiesIn(c, p, chain), NEW k \in Nat, k >= p.size,
         NEW f, ReadTo(f, c, p, chain, k), NEW m, NEW fs
  PROVE  /\ pf_read(m, fs, f, PageSize) = [file |-> f, data |-> <<>>]
         /\ ReadTo(f, c, p, chain, k + PageSize)
<1>1. p.size \in Nat /\ k + PageSize \in Nat /\ k + PageSize >= p.size /\ ~(k < p.size)
  BY Sizes DEF LiesIn
<1>2. f.opened /\ f.fsize = p.size /\ f.fptr = p.size
  BY <1>1 DEF ReadTo, File
<1>3. p.size - p.size = 0 /\ (IF PageSize > 0 THEN 0 ELSE PageSize) = 0
  BY <1>1, Sizes
<1>4. pf_read(m, fs, f, PageSize) = [file |-> f, data |-> <<>>]
  BY <1>2, <1>3, Zenon DEF pf_read
<1>5. ~(k + PageSize < p.size)
  BY <1>1, Sizes
<1>6. ReadTo(f, c, p, chain, k + PageSize)
  BY <1>1, <1>5 DEF ReadTo
<1> QED BY <1>4, <1>6

-----------------------------------------------------------------------------
(***************************************************************************)
(* Opening a file.                                                         *)
(***************************************************************************)
LEMMA VersionType ==
  ASSUME TypeInv
  PROVE  /\ FlashVersion \in 0..999
         /\ \A v \in 0..(999 + 10) : FirmwareName(v) \in FirmwareNames
         /\ filename2 \in FirmwareNames
<1> DEFINE low == version[1]
           high == version[2]
<1>1. low \in 0..255 /\ high \in 0..255
  <2>1. version \in [1..2 -> 0..255]
    BY DEF TypeInv, Versions
  <2> QED BY <2>1
<1>2. EEPROMWord \in Nat
  <2>1. EEPROMWord = low + 256 * high
    BY DEF EEPROMWord
  <2> HIDE DEF low, high
  <2> QED BY <1>1, <2>1
<1>3. FlashVersion \in 0..999
  BY <1>2 DEF FlashVersion
<1>4. \A v \in 0..(999 + 10) : FirmwareName(v) \in FirmwareNames
  BY SMTT(30) DEF FirmwareNames
<1>5. filename2 \in FirmwareNames
  BY SMTT(30) DEF FirmwareNames
<1> QED BY <1>3, <1>4, <1>5

LEMMA OpenedLies ==
  ASSUME CardsAreSound, NEW c \in Cards, NEW n \in FirmwareNames, Opens(c, n)
  PROVE  /\ c.files[n].size \in 0..BOOT_ADR
         /\ \E chain : /\ LiesIn(c, c.files[n], chain)
                       /\ ReadTo(Opened(c, n), c, c.files[n], chain, 0)
<1> DEFINE p == c.files[n]
           f == Opened(c, n)
<1>1. Lies(c, p, f)
  BY DEF CardsAreSound, Opens
<1>2. PICK chain \in Chains(c, p) :
        /\ p.size > 0 => chain[0] = f.org_clust
        /\ \A i \in 0..LastSector(p) : HoldsSector(c, chain, i, p) /\ IsLinked(c, chain, i)
  BY <1>1 DEF Lies
<1>3. LiesIn(c, p, chain)
  BY <1>1, <1>2 DEF Lies, LiesIn
<1>4. \E first, size : f = File(first, size, 0, 0, 0)
  <2>1. f.opened
    BY DEF Opens
  <2>2. ~NotOpened.opened
    BY DEF NotOpened
  <2>3. f # NotOpened
    BY <2>1, <2>2
  <2>4. f = NotOpened \/ \E first, size : f = File(first, size, 0, 0, 0)
    BY Zenon DEF Opened, pf_open
  <2> QED BY <2>3, <2>4
<1>5. PICK first, size : f = File(first, size, 0, 0, 0)
  BY <1>4
<1>6. size = p.size /\ first = f.org_clust /\ p.size \in 0..BOOT_ADR
  BY <1>1, <1>5 DEF Lies, File
<1> HIDE DEF p, f
<1>7. (IF 0 < p.size THEN 0 ELSE p.size) = 0 /\ ~(0 < 0)
  BY <1>6
<1>8. ReadTo(f, c, p, chain, 0)
  BY <1>2, <1>5, <1>6, <1>7 DEF ReadTo
<1> QED BY <1>3, <1>6, <1>8 DEF p, f

\* Open() with all sectors answering: what the card holds, or nothing.
LEMMA OpenIs ==
  ASSUME CardsAreSound, NEW c \in Cards, NEW n \in FirmwareNames, Open(n), ~disturbed',
         CardType = disk_initialize(c, {}), Fatfs = Mount(c), card \in {c, NoCard}
  PROVE  /\ ~disturbed
         /\ card = c => file' = Opened(c, n)
         /\ card # c => ~file'.opened /\ ~(file' = Opened(c, n) /\ Opens(c, n))
<1>1. PICK bad \in BadSets : Unanswered(bad) /\ file' = pf_open(Medium(bad), Fatfs, n)
  BY DEF Open
<1>2. bad = {} /\ ~disturbed
  BY <1>1 DEF Unanswered
<1>3. CASE card = c
  <2>1. Medium(bad) = AsFound(c)
    BY <1>2, <1>3 DEF Medium, AsFound
  <2> QED BY <1>1, <1>2, <1>3, <2>1 DEF Opened
<1>4. CASE card # c
  <2>1. Medium(bad) = Pulled(c)
    BY <1>2, <1>4 DEF Medium, Pulled
  <2>2. ~file'.opened
    BY <1>1, <2>1 DEF CardsAreSound
  <2> QED BY <1>2, <1>4, <2>2 DEF Opens
<1> QED BY <1>3, <1>4

-----------------------------------------------------------------------------
(***************************************************************************)
(* Every step keeps the invariant.                                         *)
(***************************************************************************)

\* Wherever the power is cut, the next start has a whole program or gets one.
LEMMA CanRestart ==
  ASSUME LoaderInv, ~disturbed
  PROVE  /\ Fine \/ WillUpdate(card)
         /\ pc \in {"erase", "write"} => WillUpdate(card)
<1> DEFINE f == FlashVersion
<1>1. f \in 0..999 /\ Ready
  BY VersionType DEF LoaderInv
<1>2. CASE pc = "search"
  <2>1. PICK c \in Cards : SearchIn(c)
    BY <1>1, <1>2 DEF Ready
  <2> SUFFICES ASSUME ~Fine PROVE WillUpdate(card)
    BY <1>2
  <2>2. /\ card = c /\ flashver = f /\ x \in f..(f + 10)
        /\ \/ OneIn(c, f + 1, x)
           \/ NoneIn(c, f + 1, f + 10) /\ Updates(c, filename2)
    BY <2>1 DEF SearchIn
  <2>3. OneIn(c, f + 1, x) => OneIn(c, f + 1, f + 10)
    <3> HIDE DEF f
    <3> QED BY <1>1, <2>2 DEF OneIn
  <2> QED BY <2>2, <2>3 DEF WillUpdate
<1>3. CASE pc \in {"read", "erase", "write"}
  <2>1. PICK n \in FirmwareNames : Writes(n)
    BY <1>1, <1>3 DEF Ready
  <2> DEFINE p == card.files[n]
  <2>2. p.size \in Nat
    <3>1. \E chain : LiesIn(card, p, chain)
      BY <2>1 DEF Writes
    <3> QED BY <3>1, Sizes DEF LiesIn
  <2>3. CASE p.size = 0
    <3>1. pc = "read"
      <4>1. pc # "read" => fa < p.size /\ fa \in 0..BOOT_ADR
        BY <2>1 DEF Writes
      <4> QED BY <1>3, <2>3, <4>1, Sizes
    <3>2. Fine \/ (found /\ OneIn(card, flashver + 1, x - 1))
      BY <2>1, <2>3 DEF Writes
    <3>3. flashver = f /\ found => x \in (f + 1)..(f + 10)
      BY <2>1 DEF Writes
    <3>4. flashver = f
      BY <2>1 DEF Writes
    <3> HIDE DEF f
    <3>5. found /\ OneIn(card, flashver + 1, x - 1) => OneIn(card, f + 1, f + 10)
      BY <1>1, <3>3, <3>4 DEF OneIn
    <3> QED BY <3>1, <3>2, <3>5 DEF WillUpdate, f
  <2>4. CASE p.size > 0
    <3>1. Updates(card, n)
      BY <2>1, <2>4 DEF Writes, Updates
    <3>2. /\ flashver = f
          /\ IF found THEN n = FirmwareName(x) /\ x \in (f + 1)..(f + 10)
             ELSE n = filename2 /\ NoneIn(card, f + 1, f + 10)
      BY <2>1 DEF Writes
    <3> QED BY <3>1, <3>2, Zenon DEF WillUpdate, OneIn
  <2> QED BY <2>2, <2>3, <2>4
<1>4. CASE Started
  BY <1>1, <1>4 DEF Ready, Started, Fine
<1>5. CASE pc \in {"off", "checkProgram", "start"}
  BY <1>1, <1>5 DEF Ready
<1> QED BY <1>2, <1>3, <1>4, <1>5 DEF LoaderInv, TypeInv, Places, Started

LEMMA InitReady ==
  ASSUME Init
  PROVE  LoaderInv
<1>1. PICK b \in Boards :
        /\ flash = [a \in Words |-> IF a < b.program.size THEN Word(b.program, a) ELSE FF]
        /\ version = b.version
  BY DEF Init
<1>2. TypeInv
  <2>1. b.version \in Versions
    BY BootLoaderAssumption DEF Versions
  <2>2. pc = "checkProgram" /\ disturbed = FALSE
    BY DEF Init
  <2>3. version \in Versions
    BY <1>1, <2>1, Zenon
  <2>4. pc # "setup2" /\ disturbed \in BOOLEAN
    BY <2>2
  <2>5. pc \in Places
    BY <2>2 DEF Places
  <2> QED BY <2>3, <2>4, <2>5, Zenon DEF TypeInv
<1>3. Fine
  <2>1. b.program.size \in 0..BOOT_ADR /\ 0 \in Words
    BY BootLoaderAssumption DEF Words
  <2>2. CASE b.program.size = 0
    BY <1>1, <2>1, <2>2 DEF Fine
  <2>3. CASE b.program.size > 0
    <3>1. flash[0] = Word(b.program, 0)
      BY <1>1, <2>1, <2>3
    <3>2. flash[0].program = b.program /\ b.program # NoProgram
      BY <2>3, <3>1 DEF Word, NoProgram
    <3>3. Holds(b.program)
      <4> SUFFICES ASSUME NEW k \in 0..(b.program.size - 1)
                   PROVE  flash[k] = Word(b.program, k)
        BY DEF Holds
      <4>1. k \in Words /\ k < b.program.size
        BY <2>1, Sizes DEF Words
      <4> QED BY <1>1, <4>1
    <3> QED BY <3>2, <3>3 DEF Fine, Whole
  <2> QED BY <2>1, <2>2, <2>3
<1> QED BY <1>2, <1>3 DEF Init, LoaderInv, Ready, Started

\* What depends on the flash and on the version only.
LEMMA SameFlash ==
  /\ flash' = flash => (Whole' <=> Whole) /\ (Fine' <=> Fine) /\ \A p, k : Written(p, k)' <=> Written(p, k)
  /\ version' = version => FlashVersion' = FlashVersion /\ \A c : WillUpdate(c)' <=> WillUpdate(c)
<1>1. flash' = flash => (Whole' <=> Whole) /\ (Fine' <=> Fine) /\ \A p, k : Written(p, k)' <=> Written(p, k)
  BY Zenon DEF Whole, Holds, Fine, Written
<1>2. version' = version => FlashVersion' = FlashVersion
  BY DEF FlashVersion, EEPROMWord
<1> QED BY <1>1, <1>2, Zenon DEF WillUpdate, OneIn, NoneIn, Updates

LEMMA CheckProgramStep ==
  ASSUME LoaderInv, CheckProgram, ~disturbed'
  PROVE  Ready'
<1>1. PICK bad \in BadSets :
        /\ Unanswered(bad) /\ CardType' = disk_initialize(card, bad)
        /\ Fatfs' = pf_mount([card |-> card, CardType |-> disk_initialize(card, bad), bad |-> bad])
  BY DEF CheckProgram
<1>2. bad = {} /\ ~disturbed
  BY <1>1 DEF Unanswered
<1>3. CardType' = disk_initialize(card, {}) /\ Fatfs' = Mount(card)
  BY <1>1, <1>2 DEF Mount, AsFound
<1>4. /\ flashver' = FlashVersion /\ x' = FlashVersion + 10 /\ found' = FALSE /\ pc' = "search"
      /\ flash' = flash /\ version' = version /\ card' = card
  BY DEF CheckProgram
<1>5. FlashVersion \in 0..999 /\ (Fine \/ WillUpdate(card)) /\ card \in Cards
  BY <1>2, CanRestart, VersionType DEF LoaderInv
<1> DEFINE f == FlashVersion
<1>6. NoneIn(card, f + 10 + 1, f + 10)
  <2> HIDE DEF f
  <2>1. f \in 0..999
    BY <1>5 DEF f
  <2> QED BY <2>1 DEF NoneIn
<1>7. f + 10 \in f..(f + 10)
  <2> HIDE DEF f
  <2>1. f \in 0..999
    BY <1>5 DEF f
  <2> QED BY <2>1
<1>8. f' = f /\ (Fine' <=> Fine)
  BY <1>4, SameFlash
<1> HIDE DEF f
<1>9. SearchIn(card)'
  <2>1. /\ CardType' = disk_initialize(card, {})' /\ Fatfs' = Mount(card)' /\ card' \in {card', NoCard}
        /\ flashver' = f' /\ x' \in flashver'..(flashver' + 10) /\ found' \in BOOLEAN
    BY <1>3, <1>4, <1>7, <1>8, Zenon DEF f
  <2>2. NoneIn(card, x + 1, flashver + 10)'
    BY <1>4, <1>6, Zenon DEF NoneIn, f
  <2>3. Fine' \/ OneIn(card, flashver + 1, x)'
              \/ (~found' /\ NoneIn(card, flashver + 1, flashver + 10)' /\ Updates(card, filename2)')
    BY <1>4, <1>5, <1>8, Zenon DEF WillUpdate, OneIn, NoneIn, Updates, f
  <2> QED BY <2>1, <2>2, <2>3, Zenon DEF SearchIn, f
<1>10. card' \in Cards
  BY <1>4, <1>5
<1> QED BY <1>4, <1>9, <1>10 DEF Ready, Started

LEMMA TryVersionStep ==
  ASSUME CardsAreSound, LoaderInv, TryVersion, ~disturbed'
  PROVE  Ready'
<1> DEFINE f == FlashVersion
<1>0. PICK n : n = FirmwareName(x)
  OBVIOUS
<1>1. /\ pc = "search" /\ x > flashver /\ Open(n)
      /\ found' = (found \/ file'.opened)
      /\ pc' = IF file'.opened THEN "read" ELSE pc
      /\ x' = IF file'.opened THEN x ELSE x - 1
      /\ fa' = 0 /\ flash' = flash /\ version' = version /\ flashver' = flashver
      /\ CardType' = CardType /\ Fatfs' = Fatfs /\ card' = card
  BY <1>0 DEF TryVersion
<1>2. ~disturbed
  <2>1. disturbed' = disturbed \/ disturbed' = TRUE
    BY <1>1 DEF Open, Unanswered
  <2> QED BY <2>1
<1>3. PICK c \in Cards : SearchIn(c)
  BY <1>1, <1>2 DEF LoaderInv, Ready
<1>4. f \in 0..999 /\ f' = f /\ (Fine' <=> Fine)
  BY <1>1, VersionType, SameFlash DEF LoaderInv
<1>5. /\ CardType = disk_initialize(c, {}) /\ Fatfs = Mount(c) /\ card \in {c, NoCard}
      /\ flashver = f /\ x \in f..(f + 10) /\ found \in BOOLEAN
      /\ card = c /\ ~found => NoneIn(c, x + 1, f + 10)
      /\ \/ Fine
         \/ /\ card = c
            /\ \/ OneIn(c, f + 1, x)
               \/ ~found /\ NoneIn(c, f + 1, f + 10) /\ Updates(c, filename2)
  BY <1>3 DEF SearchIn
<1> HIDE DEF f
<1>6. x \in (f + 1)..(f + 10) /\ x - 1 \in f..(f + 10) /\ x \in 0..(999 + 10)
  BY <1>1, <1>4, <1>5
<1>7. n \in FirmwareNames
  BY <1>0, <1>6, VersionType DEF LoaderInv
<1>8. /\ card = c => file' = Opened(c, n)
      /\ card # c => ~file'.opened
  BY <1>1, <1>5, <1>7, OpenIs
<1>9. CASE file'.opened
  <2>1. card = c /\ file' = Opened(c, n) /\ Opens(c, n)
    BY <1>8, <1>9 DEF Opens
  <2> DEFINE p == c.files[n]
  <2>2. p.size \in 0..BOOT_ADR /\ \E chain : LiesIn(c, p, chain) /\ ReadTo(Opened(c, n), c, p, chain, 0)
    BY <1>7, <2>1, OpenedLies
  <2>3. Written(p, 0)'
    <3>1. \A a \in 0..(p.size - 1) : ~(a < 0)
      BY <2>2
    <3> QED BY <1>1, <3>1, Zenon DEF Written
  <2>4. p.size = 0 => Fine \/ OneIn(c, f + 1, x - 1)
    <3> SUFFICES ASSUME p.size = 0, ~Fine PROVE OneIn(c, f + 1, x - 1)
      OBVIOUS
    <3>1. ~Updates(c, n)
      BY DEF Updates
    <3>2. ~NoneIn(c, f + 1, f + 10)
      BY <1>0, <1>6, <2>1 DEF NoneIn
    <3>3. PICK v \in (f + 1)..x : Updates(c, FirmwareName(v))
      BY <1>5, <3>2 DEF OneIn
    <3>4. v # x
      BY <1>0, <3>1, <3>3
    <3>5. v \in (f + 1)..(x - 1)
      BY <1>4, <1>6, <3>4
    <3> QED BY <3>3, <3>5 DEF OneIn
  <2>5. 0 \in 0..BOOT_ADR /\ 0 % PageSize = 0
    BY Sizes
  <2>6. /\ found' = TRUE /\ pc' = "read" /\ x' = x /\ fa' = 0
    BY <1>1, <1>5, <1>9
  <2>7. Writes(n)'
    <3>1. /\ CardType' = disk_initialize(card, {})' /\ Fatfs' = Mount(card)'
          /\ Opens(card, n)' /\ flashver' = f' /\ found' \in BOOLEAN
      BY <1>1, <1>4, <1>5, <2>1, <2>6, Zenon
    <3>2. n = FirmwareName(x)' /\ x' \in (flashver' + 1)..(flashver' + 10)
      BY <1>0, <1>1, <1>5, <1>6, <2>6
    <3>3. /\ fa' \in 0..BOOT_ADR /\ fa' % PageSize = 0 /\ Written(p, fa)'
      BY <2>3, <2>5, <2>6, Zenon DEF Written
    <3>4. p.size = 0 => Fine' \/ (found' /\ OneIn(card, flashver + 1, x - 1)')
      BY <1>1, <1>4, <1>5, <2>1, <2>4, <2>6, Zenon DEF OneIn, Updates
    <3>5. \E chain : LiesIn(card, p, chain)' /\ ReadTo(file', card', p, chain, fa')
      BY <1>1, <2>1, <2>2, <2>6, Zenon DEF LiesIn
    <3>6. card'.files[n] = p
      BY <1>1, <2>1
    <3> HIDE DEF p
    <3> QED BY <2>6, <3>1, <3>2, <3>3, <3>4, <3>5, <3>6, Zenon DEF Writes, f
  <2> QED BY <1>7, <2>6, <2>7 DEF Ready, Started
<1>10. CASE ~file'.opened
  <2>1. found' = found /\ pc' = "search" /\ x' = x - 1
    BY <1>1, <1>5, <1>10
  <2>2. card = c => ~Opens(c, n)
    BY <1>8, <1>10 DEF Opens
  <2>3. card = c /\ ~found => NoneIn(c, x - 1 + 1, f + 10)
    <3> SUFFICES ASSUME card = c, ~found, NEW v \in (x - 1 + 1)..(f + 10)
                 PROVE  ~Opens(c, FirmwareName(v))
      BY DEF NoneIn
    <3>1. v = x \/ v \in (x + 1)..(f + 10)
      BY <1>4, <1>6
    <3> QED BY <1>0, <1>5, <2>2, <3>1 DEF NoneIn
  <2>4. card = c /\ OneIn(c, f + 1, x) => OneIn(c, f + 1, x - 1)
    <3> SUFFICES ASSUME card = c, NEW v \in (f + 1)..x, Updates(c, FirmwareName(v))
                 PROVE  OneIn(c, f + 1, x - 1)
      BY DEF OneIn
    <3>1. v # x
      BY <1>0, <2>2 DEF Updates
    <3>2. v \in (f + 1)..(x - 1)
      BY <1>4, <1>6, <3>1
    <3> QED BY <3>2 DEF OneIn
  <2>5. SearchIn(c)'
    <3>1. /\ CardType' = disk_initialize(c, {}) /\ Fatfs' = Mount(c) /\ card' \in {c, NoCard}
          /\ flashver' = f' /\ x' \in flashver'..(flashver' + 10) /\ found' \in BOOLEAN
      BY <1>1, <1>4, <1>5, <1>6, <2>1, ZenonT(30)
    <3>2. card' = c /\ ~found' => NoneIn(c, x' + 1, flashver' + 10)
      BY <1>1, <1>5, <2>1, <2>3, Zenon
    <3>3. \/ Fine'
          \/ /\ card' = c
             /\ \/ OneIn(c, flashver' + 1, x')
                \/ ~found' /\ NoneIn(c, flashver' + 1, flashver' + 10) /\ Updates(c, filename2)
      BY <1>1, <1>4, <1>5, <2>1, <2>4, ZenonT(30)
    <3> QED BY <3>1, <3>2, <3>3, Zenon DEF SearchIn, NoneIn, OneIn, f
  <2> QED BY <2>1, <2>5, Zenon DEF Ready, Started
<1> QED BY <1>9, <1>10

LEMMA TryFirmwareStep ==
  ASSUME CardsAreSound, LoaderInv, TryFirmware, ~disturbed'
  PROVE  Ready'
<1> DEFINE f == FlashVersion
<1>0. PICK n : n = filename2
  OBVIOUS
<1>1. /\ pc = "search" /\ x = flashver
      /\ IF found THEN UNCHANGED <<file, events, disturbed>> ELSE Open(n)
      /\ pc' = IF ~found /\ file'.opened THEN "read" ELSE "start"
      /\ fa' = 0 /\ flash' = flash /\ version' = version
      /\ x' = x /\ flashver' = flashver /\ found' = found
      /\ CardType' = CardType /\ Fatfs' = Fatfs /\ card' = card
  BY <1>0 DEF TryFirmware, loop
<1>2. ~disturbed
  <2>1. disturbed' = disturbed \/ disturbed' = TRUE
    BY <1>1 DEF Open, Unanswered
  <2> QED BY <2>1
<1>3. PICK c \in Cards : SearchIn(c)
  BY <1>1, <1>2 DEF LoaderInv, Ready
<1>4. f \in 0..999 /\ f' = f /\ (Fine' <=> Fine)
  BY <1>1, VersionType, SameFlash DEF LoaderInv
<1>5. /\ CardType = disk_initialize(c, {}) /\ Fatfs = Mount(c) /\ card \in {c, NoCard}
      /\ flashver = f /\ x = f /\ found \in BOOLEAN
      /\ card = c /\ ~found => NoneIn(c, f + 1, f + 10)
      /\ \/ Fine
         \/ /\ card = c
            /\ \/ OneIn(c, f + 1, f)
               \/ ~found /\ Updates(c, n)
  BY <1>0, <1>1, <1>3 DEF SearchIn
<1> HIDE DEF f
<1>6. ~OneIn(c, f + 1, f)
  BY <1>4 DEF OneIn
<1>7. n \in FirmwareNames
  BY <1>0, VersionType DEF LoaderInv
<1>8. ~found => /\ card = c => file' = Opened(c, n)
                /\ card # c => ~file'.opened
  BY <1>1, <1>5, <1>7, OpenIs
<1>9. CASE ~found /\ file'.opened
  <2>1. card = c /\ file' = Opened(c, n) /\ Opens(c, n)
    BY <1>8, <1>9 DEF Opens
  <2>2. PICK p : p = c.files[n]
    OBVIOUS
  <2>3. p.size \in 0..BOOT_ADR /\ \E chain : LiesIn(c, p, chain) /\ ReadTo(Opened(c, n), c, p, chain, 0)
    BY <1>7, <2>1, <2>2, OpenedLies
  <2>4. Written(p, 0)'
    <3>1. \A a \in 0..(p.size - 1) : ~(a < 0)
      BY <2>3
    <3> QED BY <3>1, Zenon DEF Written
  <2>5. p.size = 0 => Fine
    BY <1>5, <1>6, <2>2 DEF Updates
  <2>6. 0 \in 0..BOOT_ADR /\ 0 % PageSize = 0
    BY Sizes
  <2>7. found' = FALSE /\ pc' = "read" /\ x' = x /\ fa' = 0
    BY <1>1, <1>5, <1>9
  <2>8. Writes(n)'
    <3>1. /\ CardType' = disk_initialize(card, {})' /\ Fatfs' = Mount(card)'
          /\ Opens(card, n)' /\ flashver' = f' /\ found' \in BOOLEAN
      BY <1>1, <1>4, <1>5, <2>1, <2>7, Zenon
    <3>2. n = filename2 /\ x' = flashver' /\ NoneIn(card, flashver + 1, flashver + 10)'
      BY <1>0, <1>1, <1>5, <1>9, <2>1, <2>7, Zenon DEF NoneIn
    <3>3. fa' \in 0..BOOT_ADR /\ fa' % PageSize = 0 /\ Written(p, fa)'
      BY <2>4, <2>6, <2>7, Zenon DEF Written
    <3>4. \E chain : LiesIn(card, p, chain)' /\ ReadTo(file', card', p, chain, fa')
      BY <1>1, <2>1, <2>3, <2>7, Zenon DEF LiesIn
    <3>5. card'.files[n] = p
      BY <1>1, <2>1, <2>2
    <3> QED BY <1>4, <2>5, <2>7, <3>1, <3>2, <3>3, <3>4, <3>5, Zenon DEF Writes, f
  <2> QED BY <1>7, <2>7, <2>8 DEF Ready, Started
<1>10. CASE ~(~found /\ file'.opened)
  <2>1. Fine
    <3>1. CASE found
      BY <1>5, <1>6, <3>1
    <3>2. CASE ~found
      <4>1. ~(card = c /\ Updates(c, n))
        BY <1>8, <1>10, <3>2 DEF Updates, Opens
      <4> QED BY <1>5, <1>6, <4>1
    <3> QED BY <3>1, <3>2
  <2>2. pc' = "start"
    BY <1>1, <1>10, Zenon
  <2> QED BY <1>4, <2>1, <2>2 DEF Ready, Started
<1> QED BY <1>9, <1>10

\* What the update of a file needs to know, apart from where it is.
InUpdate(n, chain) ==
  LET p == card.files[n]
  IN /\ Writes(n) /\ LiesIn(card, p, chain)
     /\ ReadTo(file, card, p, chain, IF pc = "read" THEN fa ELSE fa + PageSize)
     /\ p.size \in 0..BOOT_ADR

LEMMA UpdateIs ==
  ASSUME LoaderInv, ~disturbed, pc \in {"read", "erase", "write"}
  PROVE  \E n \in FirmwareNames : \E chain : InUpdate(n, chain)
<1>1. PICK n \in FirmwareNames : Writes(n)
  BY DEF LoaderInv, Ready
<1>2. PICK chain :
        /\ LiesIn(card, card.files[n], chain)
        /\ ReadTo(file, card, card.files[n], chain, IF pc = "read" THEN fa ELSE fa + PageSize)
  BY <1>1 DEF Writes
<1>3. card.files[n].size \in 0..BOOT_ADR
  BY <1>2 DEF LiesIn
<1> QED BY <1>1, <1>2, <1>3, Zenon DEF InUpdate

\* The part of Writes that the next page leaves as it is.
Chosen(n) ==
  /\ CardType = disk_initialize(card, {}) /\ Fatfs = Mount(card)
  /\ Opens(card, n) /\ flashver = FlashVersion /\ found \in BOOLEAN
  /\ IF found THEN n = FirmwareName(x) /\ x \in (flashver + 1)..(flashver + 10)
     ELSE n = filename2 /\ x = flashver /\ NoneIn(card, flashver + 1, flashver + 10)

LEMMA ChosenKept ==
  ASSUME NEW n, Writes(n), UNCHANGED <<CardType, Fatfs, card, version, flashver, found, x>>
  PROVE  Chosen(n)'
<1>1. Chosen(n)
  BY Zenon DEF Writes, Chosen
<1>2. FlashVersion' = FlashVersion
  BY SameFlash
<1>3. /\ CardType' = disk_initialize(card, {})' /\ Fatfs' = Mount(card)' /\ Opens(card, n)'
      /\ flashver' = FlashVersion' /\ found' \in BOOLEAN
  BY <1>1, <1>2, Zenon DEF Chosen
<1>4. IF found' THEN n = FirmwareName(x)' /\ x' \in (flashver' + 1)..(flashver' + 10)
      ELSE n = filename2 /\ x' = flashver' /\ NoneIn(card, flashver + 1, flashver + 10)'
  BY <1>1, Zenon DEF Chosen, NoneIn
<1> QED BY <1>3, <1>4, Zenon DEF Chosen

\* The rest of it, at the next page.
LEMMA WritesOn ==
  ASSUME NEW n, NEW p, NEW chain, Chosen(n)', card'.files[n] = p,
         fa' \in 0..BOOT_ADR, fa' % PageSize = 0, Written(p, fa)',
         p.size = 0 => Fine' \/ (found' /\ OneIn(card, flashver + 1, x - 1)'),
         LiesIn(card, p, chain)',
         ReadTo(file', card', p, chain, IF pc' = "read" THEN fa' ELSE fa' + PageSize),
         pc' # "read" =>
           /\ fa' < p.size
           /\ \A a \in PageOf(fa)' : a < p.size => Buff'[a - fa' + 1] = Word(p, a)
  PROVE  Writes(n)'
BY Zenon DEF Writes, Chosen

\* An update that goes on is ready to go on.
LEMMA ReadyToWrite ==
  ASSUME NEW n \in FirmwareNames, Writes(n)', pc' \in {"read", "erase", "write"}
  PROVE  Ready'
BY DEF Ready, Started

LEMMA ReadPageStep ==
  ASSUME LoaderInv, ReadPage, ~disturbed'
  PROVE  Ready'
<1>1. PICK bad \in BadSets : LET r == pf_read(Medium(bad), Fatfs, file, PageSize) IN
        /\ Unanswered(bad) /\ file' = r.file /\ Buff' = Padded(r.data)
        /\ pc' = IF r.data # <<>> THEN "erase" ELSE pc
        /\ fa' = IF r.data # <<>> THEN fa ELSE fa + PageSize
  BY DEF ReadPage
<1>2. bad = {} /\ ~disturbed
  BY <1>1 DEF Unanswered
<1>3. /\ pc = "read" /\ fa < BOOT_ADR /\ flash' = flash /\ version' = version
      /\ x' = x /\ flashver' = flashver /\ found' = found
      /\ CardType' = CardType /\ Fatfs' = Fatfs /\ card' = card
  BY DEF ReadPage, loop
<1>name. PICK n \in FirmwareNames : \E chain : InUpdate(n, chain)
  BY <1>2, <1>3, UpdateIs
<1>4. PICK chain :
        /\ Writes(n) /\ LiesIn(card, card.files[n], chain)
        /\ ReadTo(file, card, card.files[n], chain, IF pc = "read" THEN fa ELSE fa + PageSize)
        /\ card.files[n].size \in 0..BOOT_ADR
  BY <1>name, Zenon DEF InUpdate
<1>5. PICK p : p = card.files[n]
  OBVIOUS
<1>6. PICK r : r = pf_read(AsFound(card), Mount(card), file, PageSize)
  OBVIOUS
<1>7. /\ file' = r.file /\ Buff' = Padded(r.data)
      /\ pc' = IF r.data # <<>> THEN "erase" ELSE pc
      /\ fa' = IF r.data # <<>> THEN fa ELSE fa + PageSize
  <2>1. CardType = disk_initialize(card, {}) /\ Fatfs = Mount(card)
    BY <1>4 DEF Writes
  <2>2. Medium(bad) = AsFound(card)
    BY <1>2, <2>1 DEF Medium, AsFound
  <2> QED BY <1>1, <1>6, <2>1, <2>2
<1>8. /\ fa \in 0..BOOT_ADR /\ fa % PageSize = 0 /\ Written(p, fa)
      /\ p.size = 0 => Fine \/ (found /\ OneIn(card, flashver + 1, x - 1))
  BY <1>4, <1>5, Zenon DEF Writes
<1>9. LiesIn(card, p, chain) /\ ReadTo(file, card, p, chain, fa) /\ p.size \in 0..BOOT_ADR
  BY <1>3, <1>4, <1>5
<1>10. Chosen(n)' /\ card'.files[n] = p /\ LiesIn(card, p, chain)'
  <2>1. LiesIn(card, p, chain)'
    BY <1>3, <1>9, Zenon DEF LiesIn
  <2> QED BY <1>3, <1>4, <1>5, <2>1, ChosenKept
<1>11. p.size = 0 => Fine' \/ (found' /\ OneIn(card, flashver + 1, x - 1)')
  <2>1. Fine' <=> Fine
    BY <1>3, SameFlash
  <2>2. OneIn(card, flashver + 1, x - 1)' <=> OneIn(card, flashver + 1, x - 1)
    BY <1>3, Zenon DEF OneIn
  <2> QED BY <1>3, <1>8, <2>1, <2>2
<1>12. CASE fa < p.size
  <2>1. fa \in Nat
    BY <1>8
  <2>2. /\ r.data # <<>>
        /\ \A j \in 1..PageSize :
             fa + j - 1 < p.size => j <= Len(r.data) /\ r.data[j] = Word(p, fa + j - 1)
        /\ ReadTo(r.file, card, p, chain, fa + PageSize)
    BY <1>6, <1>8, <1>9, <1>12, <2>1, PageRead
  <2>3. pc' = "erase" /\ fa' = fa
    BY <1>7, <2>2
  <2>4. Written(p, fa)'
    BY <1>3, <1>8, <2>3, Zenon DEF Written
  <2>5. ASSUME NEW a \in PageOf(fa), a < p.size
        PROVE  Buff'[a - fa + 1] = Word(p, a)
    <3> DEFINE j == a - fa + 1
    <3>1. j \in 1..PageSize /\ fa + j - 1 = a
      BY <2>1, Sizes DEF PageOf
    <3> HIDE DEF j
    <3>2. j <= Len(r.data) /\ r.data[j] = Word(p, a)
      BY <2>2, <2>5, <3>1
    <3>3. Padded(r.data)[j] = r.data[j]
      BY <3>1, <3>2 DEF Padded
    <3> QED BY <1>7, <3>2, <3>3 DEF j
  <2>6. ReadTo(file', card', p, chain, fa' + PageSize)
    BY <1>3, <1>7, <2>2, <2>3
  <2>7. \A a \in PageOf(fa)' : a < p.size => Buff'[a - fa' + 1] = Word(p, a)
    BY <2>3, <2>5 DEF PageOf
  <2>8. Writes(n)'
    BY <1>8, <1>10, <1>11, <1>12, <2>3, <2>4, <2>6, <2>7, WritesOn
  <2> QED BY <2>3, <2>8, ReadyToWrite
<1>13. CASE ~(fa < p.size)
  <2>1. fa \in Nat /\ fa >= p.size
    BY <1>8, <1>9, <1>13
  <2>2. r = [file |-> file, data |-> <<>>] /\ ReadTo(file, card, p, chain, fa + PageSize)
    BY <1>6, <1>9, <2>1, EndRead
  <2>3. pc' = "read" /\ fa' = fa + PageSize /\ file' = file
    BY <1>3, <1>7, <2>2
  <2>4. fa' \in 0..BOOT_ADR /\ fa' % PageSize = 0
    <3>1. fa % BOOT_ADR = fa
      BY <1>3, <2>1, Sizes
    <3>2. (fa % BOOT_ADR) + PageSize <= BOOT_ADR
      BY <1>8, <2>1, Sizes, PageFits
    <3>3. (fa + PageSize) % PageSize = fa % PageSize
      BY <2>1, Sizes, ModRound
    <3> QED BY <1>8, <2>1, <2>3, <3>1, <3>2, <3>3, Sizes
  <2>5. Written(p, fa)'
    <3>1. \A a \in 0..(p.size - 1) : a < fa
      BY <1>9, <2>1
    <3> QED BY <1>3, <1>8, <3>1, Zenon DEF Written
  <2>6. ReadTo(file', card', p, chain, fa')
    BY <1>3, <2>2, <2>3
  <2>7. Writes(n)'
    BY <1>10, <1>11, <2>3, <2>4, <2>5, <2>6, WritesOn
  <2> QED BY <2>3, <2>7, ReadyToWrite
<1> QED BY <1>12, <1>13

LEMMA flash_eraseStep ==
  ASSUME LoaderInv, flash_erase, ~disturbed'
  PROVE  Ready'
<1>1. /\ pc = "erase" /\ pc' = "write" /\ ~disturbed
      /\ flash' = [a \in Words |-> IF a \in PageOf(fa) THEN FF ELSE flash[a]]
      /\ version' = version /\ x' = x /\ flashver' = flashver /\ found' = found
      /\ fa' = fa /\ Buff' = Buff /\ file' = file
      /\ CardType' = CardType /\ Fatfs' = Fatfs /\ card' = card
  BY DEF flash_erase, loop, page
<1>name. PICK n \in FirmwareNames : \E chain : InUpdate(n, chain)
  BY <1>1, UpdateIs
<1>2. PICK chain :
        /\ Writes(n) /\ LiesIn(card, card.files[n], chain)
        /\ ReadTo(file, card, card.files[n], chain, IF pc = "read" THEN fa ELSE fa + PageSize)
        /\ card.files[n].size \in 0..BOOT_ADR
  BY <1>name, Zenon DEF InUpdate
<1>3. PICK p : p = card.files[n]
  OBVIOUS
<1>4. /\ fa \in 0..BOOT_ADR /\ fa % PageSize = 0 /\ Written(p, fa) /\ fa < p.size
      /\ \A a \in PageOf(fa) : a < p.size => Buff[a - fa + 1] = Word(p, a)
  BY <1>1, <1>2, <1>3, Zenon DEF Writes
<1>5. /\ LiesIn(card, p, chain) /\ ReadTo(file, card, p, chain, fa + PageSize)
      /\ p.size \in 0..BOOT_ADR
  BY <1>1, <1>2, <1>3
<1>6. Chosen(n)' /\ card'.files[n] = p /\ LiesIn(card, p, chain)'
  <2>1. LiesIn(card, p, chain)'
    BY <1>1, <1>5, Zenon DEF LiesIn
  <2> QED BY <1>1, <1>2, <1>3, <2>1, ChosenKept
<1>7. Written(p, fa)'
  <2> SUFFICES ASSUME NEW a \in 0..(p.size - 1), a < fa
               PROVE  flash'[a] = Word(p, a)
    BY <1>1, Zenon DEF Written
  <2>1. flash[a] = Word(p, a)
    BY <1>4 DEF Written
  <2>2. a \in Words /\ a \notin PageOf(fa)
    BY <1>4, <1>5, Sizes DEF Words, PageOf
  <2> QED BY <1>1, <2>1, <2>2
<1>8. p.size # 0
  BY <1>4, <1>5
<1>9. \A a \in PageOf(fa)' : a < p.size => Buff'[a - fa' + 1] = Word(p, a)
  BY <1>1, <1>4 DEF PageOf
<1>10. ReadTo(file', card', p, chain, fa' + PageSize)
  BY <1>1, <1>5
<1>11. Writes(n)'
  BY <1>1, <1>4, <1>6, <1>7, <1>8, <1>9, <1>10, WritesOn
<1> QED BY <1>1, <1>11, ReadyToWrite

LEMMA flash_writeStep ==
  ASSUME LoaderInv, flash_write, ~disturbed'
  PROVE  Ready'
<1>1. /\ pc = "write" /\ pc' = "read" /\ ~disturbed
      /\ flash' = [a \in Words |-> IF a \in PageOf(fa) THEN Buff[a - fa + 1] ELSE flash[a]]
      /\ version' = version /\ x' = x /\ flashver' = flashver /\ found' = found
      /\ fa' = fa + PageSize /\ file' = file
      /\ CardType' = CardType /\ Fatfs' = Fatfs /\ card' = card
  BY DEF flash_write, loop
<1>name. PICK n \in FirmwareNames : \E chain : InUpdate(n, chain)
  BY <1>1, UpdateIs
<1>2. PICK chain :
        /\ Writes(n) /\ LiesIn(card, card.files[n], chain)
        /\ ReadTo(file, card, card.files[n], chain, IF pc = "read" THEN fa ELSE fa + PageSize)
        /\ card.files[n].size \in 0..BOOT_ADR
  BY <1>name, Zenon DEF InUpdate
<1>3. PICK p : p = card.files[n]
  OBVIOUS
<1>4. /\ fa \in 0..BOOT_ADR /\ fa % PageSize = 0 /\ Written(p, fa) /\ fa < p.size
      /\ \A a \in PageOf(fa) : a < p.size => Buff[a - fa + 1] = Word(p, a)
  BY <1>1, <1>2, <1>3, Zenon DEF Writes
<1>5. /\ LiesIn(card, p, chain) /\ ReadTo(file, card, p, chain, fa + PageSize)
      /\ p.size \in 0..BOOT_ADR
  BY <1>1, <1>2, <1>3
<1>6. Chosen(n)' /\ card'.files[n] = p /\ LiesIn(card, p, chain)'
  <2>1. LiesIn(card, p, chain)'
    BY <1>1, <1>5, Zenon DEF LiesIn
  <2> QED BY <1>1, <1>2, <1>3, <2>1, ChosenKept
<1>7. \A a \in 0..(p.size - 1) : a < fa + PageSize => flash'[a] = Word(p, a)
  <2> SUFFICES ASSUME NEW a \in 0..(p.size - 1), a < fa + PageSize
               PROVE  flash'[a] = Word(p, a)
    OBVIOUS
  <2>1. a \in Words /\ a < p.size
    BY <1>5, Sizes DEF Words
  <2>2. CASE a \in PageOf(fa)
    BY <1>1, <1>4, <2>1, <2>2
  <2>3. CASE a \notin PageOf(fa)
    <3>1. a < fa
      BY <1>4, <1>5, <2>3, Sizes DEF PageOf
    <3>2. flash[a] = Word(p, a)
      BY <1>4, <3>1 DEF Written
    <3> QED BY <1>1, <2>1, <2>3, <3>2
  <2> QED BY <2>2, <2>3
<1>8. Written(p, fa)'
  BY <1>1, <1>7, Zenon DEF Written
<1>9. p.size # 0
  BY <1>4, <1>5
<1>10. fa' \in 0..BOOT_ADR /\ fa' % PageSize = 0
  <2>1. fa \in Nat /\ fa < BOOT_ADR
    BY <1>4, <1>5, Sizes
  <2>2. fa % BOOT_ADR = fa
    BY <2>1, Sizes
  <2>3. (fa % BOOT_ADR) + PageSize <= BOOT_ADR
    BY <1>4, <2>1, Sizes, PageFits
  <2>4. (fa + PageSize) % PageSize = fa % PageSize
    BY <2>1, Sizes, ModRound
  <2> QED BY <1>1, <1>4, <2>1, <2>2, <2>3, <2>4, Sizes
<1>11. ReadTo(file', card', p, chain, fa')
  BY <1>1, <1>5
<1>12. Writes(n)'
  BY <1>1, <1>6, <1>8, <1>9, <1>10, <1>11, WritesOn
<1> QED BY <1>1, <1>12, ReadyToWrite

\* A program of some length that is written to its end is whole.
LEMMA WrittenIsWhole ==
  ASSUME NEW p, p.size \in Nat \ {0}, NEW k \in Nat, k >= p.size, Written(p, k)
  PROVE  Whole
<1>1. \A a \in 0..(p.size - 1) : flash[a] = Word(p, a)
  BY DEF Written
<1>2. flash[0] = Word(p, 0) /\ Holds(p)
  BY <1>1 DEF Holds
<1>3. flash[0].program = p
  BY <1>2 DEF Word
<1>4. p # NoProgram
  BY DEF NoProgram
<1> QED BY <1>2, <1>3, <1>4 DEF Whole

LEMMA EndProgramStep ==
  ASSUME LoaderInv, EndProgram, ~disturbed'
  PROVE  Ready'
<1>1. /\ pc = "read" /\ fa >= BOOT_ADR /\ ~disturbed
      /\ IF found THEN pc' = "search" /\ x' = x - 1 ELSE pc' = "start" /\ x' = x
      /\ flash' = flash /\ version' = version /\ flashver' = flashver /\ found' = found
      /\ CardType' = CardType /\ Fatfs' = Fatfs /\ card' = card
  BY DEF EndProgram
<1>name. PICK n \in FirmwareNames : \E chain : InUpdate(n, chain)
  BY <1>1, UpdateIs
<1>2. PICK chain :
        /\ Writes(n) /\ LiesIn(card, card.files[n], chain)
        /\ ReadTo(file, card, card.files[n], chain, IF pc = "read" THEN fa ELSE fa + PageSize)
        /\ card.files[n].size \in 0..BOOT_ADR
  BY <1>name, Zenon DEF InUpdate
<1>3. PICK p : p = card.files[n]
  OBVIOUS
<1>4. /\ fa \in 0..BOOT_ADR /\ Written(p, fa) /\ p.size \in 0..BOOT_ADR
      /\ CardType = disk_initialize(card, {}) /\ Fatfs = Mount(card)
      /\ flashver = FlashVersion /\ found \in BOOLEAN
      /\ found => x \in (flashver + 1)..(flashver + 10)
      /\ p.size = 0 => Fine \/ (found /\ OneIn(card, flashver + 1, x - 1))
  BY <1>2, <1>3, Zenon DEF Writes
<1>5. Fine \/ (found /\ OneIn(card, flashver + 1, x - 1))
  <2>1. CASE p.size = 0
    BY <1>4, <2>1
  <2>2. CASE p.size # 0
    <3>1. fa \in Nat /\ fa >= p.size /\ p.size \in Nat \ {0}
      BY <1>1, <1>4, <2>2, Sizes
    <3> QED BY <1>4, <3>1, WrittenIsWhole DEF Fine
  <2> QED BY <2>1, <2>2
<1>6. (Fine' <=> Fine) /\ FlashVersion' = FlashVersion /\ FlashVersion \in 0..999 /\ card \in Cards
  BY <1>1, SameFlash, VersionType DEF LoaderInv
<1>7. CASE found
  <2>1. pc' = "search" /\ x' = x - 1
    BY <1>1, <1>7
  <2>2. x' \in flashver'..(flashver' + 10)
    <3> HIDE DEF FlashVersion
    <3> QED BY <1>1, <1>4, <1>6, <1>7, <2>1
  <2>3. /\ CardType' = disk_initialize(card, {}) /\ Fatfs' = Mount(card) /\ card' \in {card, NoCard}
        /\ flashver' = FlashVersion' /\ found' \in BOOLEAN /\ found'
    BY <1>1, <1>4, <1>6, <1>7, Zenon
  <2>4. Fine' \/ (card' = card /\ OneIn(card, flashver' + 1, x'))
    BY <1>1, <1>5, <1>6, <2>1
  <2>5. PICK c : c = card
    OBVIOUS
  <2>6. SearchIn(c)'
    BY <2>2, <2>3, <2>4, <2>5, Zenon DEF SearchIn, OneIn
  <2> QED BY <1>6, <2>1, <2>5, <2>6, Zenon DEF Ready, Started
<1>8. CASE ~found
  BY <1>1, <1>5, <1>6, <1>8 DEF Ready, Started
<1> QED BY <1>7, <1>8

LEMMA StartApplicationStep ==
  ASSUME LoaderInv, StartApplication, ~disturbed'
  PROVE  Ready'
<1>1. /\ pc = "start" /\ flash' = flash
      /\ pc' = IF flash[0] # FF THEN "setup" ELSE "checkProgram"
      /\ disturbed' = (disturbed /\ ~Whole)
  BY DEF StartApplication
<1>2. Whole' <=> Whole
  BY <1>1, SameFlash
<1>3. Whole => flash[0] # FF
  BY DEF Whole, FF, Word
<1>4. Whole \/ flash[0] = FF
  BY <1>1 DEF LoaderInv, Ready, Fine
<1>5. CASE Whole
  BY <1>1, <1>2, <1>3, <1>5 DEF Ready, Started
<1>6. CASE flash[0] = FF
  BY <1>1, <1>6 DEF Ready, Started, Fine
<1> QED BY <1>4, <1>5, <1>6

LEMMA ProgramStep ==
  ASSUME LoaderInv, Program, ~disturbed'
  PROVE  Ready'
<1>1. pc \in {"setup", "setup2"} /\ pc' \in {"runs", "setup2"} /\ flash' = flash /\ ~disturbed
  BY DEF Program, Setup, SetupHigh
<1>2. Whole
  BY <1>1 DEF LoaderInv, Ready, Started
<1>3. Whole'
  BY <1>1, <1>2, SameFlash
<1> QED BY <1>1, <1>3 DEF Ready, Started

LEMMA PowerStep ==
  ASSUME LoaderInv, PowerCut \/ SwitchOff \/ SwitchOn, ~disturbed'
  PROVE  Ready'
<1>1. CASE PowerCut
  <2>1. pc' = "off" /\ ~disturbed /\ card' = card
    BY <1>1 DEF PowerCut, LoseMemory
  <2>2. Fine' \/ WillUpdate(card)'
    <3>1. CASE UNCHANGED <<flash, version>>
      <4>1. Fine \/ WillUpdate(card)
        BY <2>1, CanRestart
      <4>2. (Fine' <=> Fine) /\ (\A c : WillUpdate(c)' <=> WillUpdate(c))
        BY <3>1, SameFlash
      <4> QED BY <2>1, <4>1, <4>2, Zenon DEF WillUpdate
    <3>2. CASE pc \in {"erase", "write"} /\ UNCHANGED version
      <4>1. WillUpdate(card)
        BY <2>1, <3>2, CanRestart
      <4>2. \A c : WillUpdate(c)' <=> WillUpdate(c)
        BY <3>2, SameFlash
      <4> QED BY <2>1, <4>1, <4>2, Zenon DEF WillUpdate
    <3>3. CASE pc \in {"setup", "setup2"} /\ UNCHANGED flash
      <4>1. Whole
        BY <2>1, <3>3 DEF LoaderInv, Ready, Started
      <4> QED BY <3>3, <4>1, SameFlash DEF Fine
    <3> QED BY <1>1, <3>1, <3>2, <3>3 DEF PowerCut
  <2> QED BY <2>1, <2>2 DEF Ready, Started
<1>2. CASE SwitchOff
  <2>1. pc \in {"runs", "setup"} /\ pc' = "off" /\ ~disturbed /\ flash' = flash
    BY <1>2 DEF SwitchOff, LoseMemory
  <2>2. Whole
    BY <2>1 DEF LoaderInv, Ready, Started
  <2>3. Fine'
    BY <2>1, <2>2, SameFlash DEF Fine
  <2> QED BY <2>1, <2>3 DEF Ready, Started
<1>3. CASE SwitchOn
  <2>1. /\ pc = "off" /\ pc' = "checkProgram" /\ ~disturbed
        /\ flash' = flash /\ version' = version /\ card' = card
    BY <1>3 DEF SwitchOn
  <2>2. Fine \/ WillUpdate(card)
    BY <2>1, CanRestart
  <2>3. (Fine' <=> Fine) /\ (\A c : WillUpdate(c)' <=> WillUpdate(c))
    BY <2>1, SameFlash
  <2>4. Fine' \/ WillUpdate(card)'
    BY <2>1, <2>2, <2>3, Zenon DEF WillUpdate
  <2> QED BY <2>1, <2>4 DEF Ready, Started
<1> QED BY <1>1, <1>2, <1>3

LEMMA ChangeCardStep ==
  ASSUME LoaderInv, ChangeCard, ~disturbed'
  PROVE  Ready'
<1>1. /\ card' \in Cards \ {card} /\ (pc \in {"off", "checkProgram"} \/ card' = NoCard)
      /\ ~disturbed /\ Whole /\ pc \notin {"read", "erase", "write"}
      /\ pc' = pc /\ flash' = flash /\ version' = version
      /\ x' = x /\ flashver' = flashver /\ found' = found
      /\ CardType' = CardType /\ Fatfs' = Fatfs
  BY DEF ChangeCard, loop
<1>2. Whole' /\ Fine' /\ FlashVersion' = FlashVersion
  BY <1>1, SameFlash DEF Fine
<1>3. CASE pc = "search"
  <2>1. PICK c \in Cards : SearchIn(c)
    BY <1>1, <1>3 DEF LoaderInv, Ready
  <2>2. /\ CardType = disk_initialize(c, {}) /\ Fatfs = Mount(c) /\ card \in {c, NoCard}
        /\ flashver = FlashVersion /\ x \in flashver..(flashver + 10) /\ found \in BOOLEAN
    BY <2>1, Zenon DEF SearchIn
  <2>3. card' = NoCard /\ card' # c
    BY <1>1, <1>3, <2>2
  <2>4. SearchIn(c)'
    BY <1>1, <1>2, <2>2, <2>3, Zenon DEF SearchIn
  <2> QED BY <1>1, <1>2, <1>3, <2>1, <2>4, Zenon DEF Ready
<1>4. CASE pc # "search"
  BY <1>1, <1>2, <1>4 DEF Ready, Started
<1> QED BY <1>3, <1>4

LEMMA StutterReady ==
  ASSUME UNCHANGED vars, Ready
  PROVE  Ready'
<1>1. /\ pc' = pc /\ flash' = flash /\ version' = version /\ x' = x /\ flashver' = flashver
      /\ found' = found /\ fa' = fa /\ Buff' = Buff /\ CardType' = CardType /\ Fatfs' = Fatfs
      /\ file' = file /\ card' = card
  BY DEF vars, loop, page
<1>2. /\ (Whole' <=> Whole) /\ (Fine' <=> Fine) /\ \A p, k : Written(p, k)' <=> Written(p, k)
      /\ FlashVersion' = FlashVersion /\ \A c : WillUpdate(c)' <=> WillUpdate(c)
  BY <1>1, SameFlash
<1>3. WillUpdate(card)' <=> WillUpdate(card)
  BY <1>1, <1>2, Zenon DEF WillUpdate
<1>4. ASSUME NEW c, SearchIn(c) PROVE SearchIn(c)'
  BY <1>1, <1>2, <1>4, Zenon DEF SearchIn, NoneIn, OneIn
<1>5. ASSUME NEW n, Writes(n) PROVE Writes(n)'
  <2>1. PICK p : p = card.files[n]
    OBVIOUS
  <2>2. PICK chain : /\ LiesIn(card, p, chain)
                     /\ ReadTo(file, card, p, chain, IF pc = "read" THEN fa ELSE fa + PageSize)
    BY <1>5, <2>1, Zenon DEF Writes
  <2>3. Chosen(n)' /\ card'.files[n] = p /\ LiesIn(card, p, chain)'
    <3>1. LiesIn(card, p, chain)'
      BY <1>1, <2>2, Zenon DEF LiesIn
    <3> QED BY <1>1, <1>5, <2>1, <3>1, ChosenKept
  <2>4. /\ fa \in 0..BOOT_ADR /\ fa % PageSize = 0 /\ Written(p, fa)
        /\ p.size = 0 => Fine \/ (found /\ OneIn(card, flashver + 1, x - 1))
        /\ pc # "read" =>
             /\ fa < p.size
             /\ \A a \in PageOf(fa) : a < p.size => Buff[a - fa + 1] = Word(p, a)
    BY <1>5, <2>1, Zenon DEF Writes
  <2>5. Written(p, fa)' /\ (OneIn(card, flashver + 1, x - 1)' <=> OneIn(card, flashver + 1, x - 1))
    BY <1>1, <2>4, Zenon DEF Written, OneIn
  <2>6. ReadTo(file', card', p, chain, IF pc' = "read" THEN fa' ELSE fa' + PageSize)
    BY <1>1, <2>2, Zenon
  <2>7. pc' # "read" =>
           /\ fa' < p.size
           /\ \A a \in PageOf(fa)' : a < p.size => Buff'[a - fa' + 1] = Word(p, a)
    BY <1>1, <2>4, Zenon DEF PageOf
  <2>8. /\ fa' \in 0..BOOT_ADR /\ fa' % PageSize = 0
        /\ p.size = 0 => Fine' \/ (found' /\ OneIn(card, flashver + 1, x - 1)')
    BY <1>1, <1>2, <2>4, <2>5, Zenon
  <2> QED BY <2>3, <2>5, <2>6, <2>7, <2>8, WritesOn
<1> QED BY <1>1, <1>2, <1>3, <1>4, <1>5, Zenon DEF Ready, Started

\* The bytes of a word.
LEMMA BytesOf ==
  ASSUME NEW v \in Word16
  PROVE  v % 256 \in 0..255 /\ v \div 256 \in 0..255
<1>1. v \in Nat /\ v <= MaxWord
  <2>1. MaxWord \in Nat
    BY DEF MaxWord
  <2>2. v \in 0..MaxWord
    BY DEF Word16
  <2> QED BY <2>1, <2>2
<1>2. /\ v % 256 \in 0..(256 - 1) /\ v \div 256 \in Nat
      /\ v = 256 * (v \div 256) + (v % 256)
  BY <1>1, ModRange, DivRange, DivMod
<1>3. MaxWord = 65535
  BY DEF MaxWord
<1> QED BY <1>1, <1>2, <1>3

LEMMA LoaderTypes ==
  ASSUME TypeInv, Loader
  PROVE  /\ TypeInv' /\ card' = card
<1>1. version' = version /\ card' = card /\ pc' \in Places \ {"setup2"}
  BY DEF Loader, CheckProgram, TryVersion, TryFirmware, ReadPage, flash_erase, flash_write,
         EndProgram, StartApplication, TypeInv, Places
<1>2. disturbed' \in BOOLEAN
  <2>1. \A bad : Unanswered(bad) => disturbed' \in {disturbed, TRUE}
    BY DEF Unanswered
  <2>2. disturbed' \in {disturbed, TRUE, disturbed /\ ~Whole}
    BY <2>1, Zenon DEF Loader, CheckProgram, TryVersion, TryFirmware, ReadPage, flash_erase,
         flash_write, EndProgram, StartApplication, Open
  <2> QED BY <2>2 DEF TypeInv
<1> QED BY <1>1, <1>2, Zenon DEF TypeInv

LEMMA OthersTypes ==
  ASSUME TypeInv, card \in Cards,
         Program \/ PowerCut \/ SwitchOff \/ SwitchOn \/ ChangeCard \/ UNCHANGED vars
  PROVE  TypeInv' /\ card' \in Cards
<1>1. card' \in Cards
  BY DEF Program, Setup, SetupHigh, PowerCut, SwitchOff, SwitchOn, ChangeCard, vars
<1>2. disturbed' \in BOOLEAN
  <2>1. disturbed' = disturbed \/ disturbed' = (disturbed \/ ~Whole \/ pc \in {"read", "erase", "write"})
    BY Zenon DEF Program, Setup, SetupHigh, PowerCut, SwitchOff, SwitchOn, ChangeCard, vars
  <2> QED BY <2>1 DEF TypeInv
<1>3. version \in [1..2 -> 0..255] /\ version \in Versions /\ pc \in Places
  BY DEF TypeInv, Versions
<1>4. CASE Setup
  <2>1. PICK v \in VersionsIn :
          /\ version' = IF version = <<v % 256, v \div 256>> THEN version
                        ELSE <<v % 256, version[2]>>
          /\ x' = v /\ pc' \in {"runs", "setup2"}
    BY <1>4 DEF Setup
  <2>2. v \in Word16
    BY <2>1 DEF VersionsIn
  <2>3. v % 256 \in 0..255 /\ version[2] \in 0..255
    BY <1>3, <2>2, BytesOf
  <2>4. \A low \in 0..255 : <<low, version[2]>> \in [1..2 -> 0..255]
    BY <2>3
  <2>5. version' \in Versions
    BY <1>3, <2>1, <2>3, <2>4, Zenon DEF Versions
  <2>6. pc' \in Places
    BY <2>1 DEF Places
  <2> QED BY <1>1, <1>2, <2>1, <2>2, <2>5, <2>6, Zenon DEF TypeInv
<1>5. CASE SetupHigh
  <2>1. version' = [version EXCEPT ![2] = x \div 256] /\ pc' = "runs" /\ x \in Word16
    BY <1>5 DEF SetupHigh, TypeInv
  <2>2. x \div 256 \in 0..255
    BY <2>1, BytesOf
  <2>3. version' \in Versions
    BY <1>3, <2>1, <2>2 DEF Versions
  <2>4. pc' \in Places /\ pc' # "setup2"
    BY <2>1 DEF Places
  <2> QED BY <1>1, <1>2, <2>3, <2>4, Zenon DEF TypeInv
<1>6. CASE PowerCut
  <2>1. version' = version \/ \E i \in 1..2, cell \in {0, 255} : version' = [version EXCEPT ![i] = cell]
    BY <1>6 DEF PowerCut
  <2>2. version' \in Versions
    BY <1>3, <2>1 DEF Versions
  <2>3. pc' \in Places /\ pc' # "setup2"
    BY <1>6 DEF PowerCut, LoseMemory, Places
  <2> QED BY <1>1, <1>2, <2>2, <2>3, Zenon DEF TypeInv
<1>7. CASE SwitchOff \/ SwitchOn \/ ChangeCard \/ UNCHANGED vars
  <2>1. version' = version /\ pc' \in {"off", "checkProgram", pc}
    BY <1>7 DEF SwitchOff, LoseMemory, SwitchOn, ChangeCard, vars
  <2>2. pc' = pc => x' = x \/ pc' # "setup2"
    BY <1>7 DEF SwitchOff, LoseMemory, SwitchOn, ChangeCard, vars, loop
  <2>3. pc' \in Places /\ (pc' = "setup2" => x' \in Word16)
    <3>1. pc = "setup2" => x \in Word16
      BY DEF TypeInv
    <3> HIDE DEF Word16
    <3>2. pc' = "setup2" => pc' = pc
      BY <2>1
    <3>3. pc' \in Places
      BY <1>3, <2>1 DEF Places
    <3> QED BY <2>2, <3>1, <3>2, <3>3, Zenon
  <2> QED BY <1>1, <1>2, <1>3, <2>1, <2>3, Zenon DEF TypeInv
<1> QED BY <1>1, <1>4, <1>5, <1>6, <1>7 DEF Program

LEMMA LoaderInvKept ==
  ASSUME CardsAreSound, LoaderInv, [Next]_vars
  PROVE  LoaderInv'
<1>1. TypeInv' /\ card' \in Cards
  <2>1. TypeInv /\ card \in Cards
    BY DEF LoaderInv
  <2>2. CASE Loader
    BY <2>1, <2>2, LoaderTypes
  <2>3. CASE Program \/ PowerCut \/ SwitchOff \/ SwitchOn \/ ChangeCard \/ UNCHANGED vars
    BY <2>1, <2>3, OthersTypes
  <2> QED BY <2>2, <2>3 DEF Next
<1>2. ASSUME ~disturbed' PROVE Ready'
  <2>1. CASE Loader
    BY <1>2, <2>1, CheckProgramStep, TryVersionStep, TryFirmwareStep, ReadPageStep,
       flash_eraseStep, flash_writeStep, EndProgramStep, StartApplicationStep DEF Loader
  <2>2. CASE Program
    BY <1>2, <2>2, ProgramStep
  <2>3. CASE PowerCut \/ SwitchOff \/ SwitchOn
    BY <1>2, <2>3, PowerStep
  <2>4. CASE ChangeCard
    BY <1>2, <2>4, ChangeCardStep
  <2>5. CASE UNCHANGED vars
    <3>1. ~disturbed
      BY <1>2, <2>5 DEF vars
    <3> QED BY <2>5, <3>1, StutterReady DEF LoaderInv
  <2> QED BY <2>1, <2>2, <2>3, <2>4, <2>5 DEF Next
<1> QED BY <1>1, <1>2 DEF LoaderInv

\* With such cards in the slot, an update that was cut short can always be
\* taken up again: what checkProgram() and doProgram() keep from page to page
\* and from start to start.
THEOREM LoaderInvariant ==
  ASSUME CardsAreSound
  PROVE  Spec => []LoaderInv
<1>1. Init => LoaderInv
  BY InitReady
<1>2. LoaderInv /\ [Next]_vars => LoaderInv'
  BY LoaderInvKept
<1> QED BY <1>1, <1>2, PTL DEF Spec

\* A program that checkProgram() jumps into is one of the files, or the one the
\* board came with, to the last word.
THEOREM WholeProgramsStart ==
  ASSUME CardsAreSound
  PROVE  Spec => []StartedIsWhole
<1>1. LoaderInv => StartedIsWhole
  BY DEF LoaderInv, Ready, StartedIsWhole
<1> QED BY <1>1, LoaderInvariant, PTL

=============================================================================
