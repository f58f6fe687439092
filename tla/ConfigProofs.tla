---------------------------- MODULE ConfigProofs ----------------------------
(***************************************************************************)
(* For every set of forms, every number of bytes in a vessel, every other  *)
(* file and any number of power cuts: a config.dat that was read to its    *)
(* end is what the logger runs with, what it runs with is what the EEPROM  *)
(* keeps, and no cell ever holds what nobody chose.                        *)
(***************************************************************************)
EXTENDS Config, RingLemmas

\* A vessel has bytes.
LEMMA VesselHasBytes ==
  VesselBytes \in Nat \ {0}
BY ConfigAssumption

USE VesselHasBytes

\* The bound of the events is a number.
LEMMA EventsAreCounted ==
  MaxEvents \in Nat
BY ConfigAssumption

-----------------------------------------------------------------------------
(***************************************************************************)
(* The text of a form.                                                     *)
(***************************************************************************)

\* A byte is a number.
LEMMA ByteNumbers ==
  \A b \in Byte : b \in Nat /\ b < 256
BY DEF Byte

\* What the form of a card may be instead of a form is none.
LEMMA NotForms ==
  /\ NoForm \notin Forms /\ Foreign \notin Forms /\ NoForm # Foreign
<1>1. DOMAIN NoForm = {"form"} /\ DOMAIN Foreign = {"form"}
  BY DEF NoForm, Foreign
<1>2. ASSUME NEW f \in FormType PROVE "seatalk" \in DOMAIN f
  BY DEF FormType
<1> QED BY <1>1, <1>2, ConfigAssumption DEF NoForm, Foreign

\* A form field by field.
LEMMA FormFields ==
  ASSUME NEW f \in Forms
  PROVE  /\ f.seatalk \in BOOLEAN /\ f.baudA \in 0..6 /\ f.baudB \in 0..4
         /\ f.outputs \in 0..3 /\ f.vessel \in Vessel
         /\ f.eol \in Seq(LineEnds) /\ EolLen(f) \in 1..2
<1>1. f \in FormType
  BY ConfigAssumption
<1>2. f.eol \in {<<CR, LF>>, <<LF>>}
  BY <1>1 DEF FormType
<1>3. ASSUME NEW e \in {<<CR, LF>>, <<LF>>}
      PROVE  e \in Seq(LineEnds) /\ Len(e) \in 1..2
  <2>1. CASE e = <<CR, LF>>
    BY <2>1 DEF LineEnds
  <2>2. CASE e = <<LF>>
    BY <2>2 DEF LineEnds
  <2> QED BY <1>3, <2>1, <2>2
<1>4. f.seatalk \in BOOLEAN /\ f.baudA \in 0..6 /\ f.baudB \in 0..4
      /\ f.outputs \in 0..3 /\ f.vessel \in Vessel
  BY <1>1 DEF FormType
<1> QED BY <1>2, <1>3, <1>4 DEF EolLen

\* A digit of a vessel, and the character that stands for it.
LEMMA HexDigits ==
  ASSUME NEW v \in Vessel
  PROVE  /\ \A j \in 0..(2 * VesselBytes - 1) : HexDigitOf(v, j) \in 0..15
         /\ \A d \in 0..15 : /\ HexDigit(d) \in Byte \ LineEnds
                             /\ DigitOf(HexDigit(d)) = d
<1>1. ASSUME NEW j \in 0..(2 * VesselBytes - 1) PROVE HexDigitOf(v, j) \in 0..15
  <2>1. j \div 2 + 1 \in 1..VesselBytes
    OBVIOUS
  <2>2. v[j \div 2 + 1] \in 0..255
    BY <2>1 DEF Vessel, Byte
  <2> HIDE DEF HexDigitOf
  <2>3. \A b \in 0..255 : b % 16 \in 0..15 /\ b \div 16 \in 0..15
    OBVIOUS
  <2> QED BY <2>2, <2>3 DEF HexDigitOf
<1>2. ASSUME NEW d \in 0..15
      PROVE  HexDigit(d) \in Byte \ LineEnds /\ DigitOf(HexDigit(d)) = d
  BY DEF HexDigit, DigitOf, Zero, Byte, LineEnds, CR, LF
<1> QED BY <1>1, <1>2

\* sprintf("%'08x", ...) prints two digits for a byte.
LEMMA HexTextIs ==
  ASSUME NEW v \in Vessel
  PROVE  /\ HexText(v) \in Seq(Byte) /\ Len(HexText(v)) = 2 * VesselBytes
         /\ \A i \in 1..(2 * VesselBytes) :
              /\ HexText(v)[i] \in Byte \ LineEnds
              /\ HexText(v)[i] = HexDigit(HexDigitOf(v, 2 * VesselBytes - i))
<1>1. ASSUME NEW i \in 1..(2 * VesselBytes)
      PROVE  /\ HexText(v)[i] = HexDigit(HexDigitOf(v, 2 * VesselBytes - i))
             /\ HexText(v)[i] \in Byte \ LineEnds
  <2>1. HexText(v)[i] = HexDigit(HexDigitOf(v, 2 * VesselBytes - i))
    BY DEF HexText
  <2>2. 2 * VesselBytes - i \in 0..(2 * VesselBytes - 1)
    OBVIOUS
  <2>3. HexDigitOf(v, 2 * VesselBytes - i) \in 0..15
    BY <2>2, HexDigits
  <2> QED BY <2>1, <2>3, HexDigits
<1>2. HexText(v) \in [1..(2 * VesselBytes) -> Byte]
  BY <1>1 DEF HexText
<1>3. 2 * VesselBytes \in Nat
  OBVIOUS
<1>4. HexText(v) \in Seq(Byte) /\ Len(HexText(v)) = 2 * VesselBytes
  BY <1>2, <1>3
<1> QED BY <1>1, <1>4

\* The place of the first character of a set is the only one with its property.
LEMMA BeforeIs ==
  ASSUME NEW s, NEW stops, Len(s) \in Nat, NEW n \in 0..Len(s),
         \A i \in 1..n : s[i] \notin stops,
         n = Len(s) \/ s[n + 1] \in stops
  PROVE  Before(s, stops) = n
<1> DEFINE P(m) == /\ \A i \in 1..m : s[i] \notin stops
                   /\ m = Len(s) \/ s[m + 1] \in stops
<1>1. P(n)
  OBVIOUS
<1>2. ASSUME NEW m \in 0..Len(s), P(m) PROVE m = n
  <2>1. m < n => FALSE
    <3>1. SUFFICES ASSUME m < n PROVE FALSE
      OBVIOUS
    <3>2. m + 1 \in 1..n /\ m # Len(s)
      BY <3>1
    <3> QED BY <3>2, <1>2
  <2>2. n < m => FALSE
    <3>1. SUFFICES ASSUME n < m PROVE FALSE
      OBVIOUS
    <3>2. n + 1 \in 1..m /\ n # Len(s)
      BY <3>1
    <3> QED BY <3>2, <1>2
  <2> QED BY <2>1, <2>2
<1>3. Before(s, stops) = CHOOSE m \in 0..Len(s) : P(m)
  BY DEF Before
<1> HIDE DEF P
<1> QED BY <1>1, <1>2, <1>3

\* strtoul() reads back what sprintf() printed.
LEMMA StrtoulReadsHex ==
  ASSUME NEW v \in Vessel
  PROVE  strtoul(HexText(v)) = v
<1> DEFINE s == HexText(v)
           Digit(j) == IF j < 2 * VesselBytes THEN DigitOf(s[2 * VesselBytes - j]) ELSE 0
<1>1. Before(s, NoDigit) = 2 * VesselBytes
  <2>1. ASSUME NEW i \in 1..(2 * VesselBytes) PROVE s[i] \notin NoDigit
    <3>1. 2 * VesselBytes - i \in 0..(2 * VesselBytes - 1)
      OBVIOUS
    <3>2. HexDigitOf(v, 2 * VesselBytes - i) \in 0..15
      BY <3>1, HexDigits
    <3>3. DigitOf(s[i]) \in 0..15
      BY <3>2, HexTextIs, HexDigits
    <3> QED BY <3>3 DEF NoDigit
  <2>2. Len(s) = 2 * VesselBytes /\ 2 * VesselBytes \in 0..Len(s)
    BY HexTextIs
  <2> HIDE DEF s
  <2> QED BY <2>1, <2>2, BeforeIs
<1>2. ASSUME NEW j \in 0..(2 * VesselBytes - 1) PROVE Digit(j) = HexDigitOf(v, j)
  <2>1. 2 * VesselBytes - j \in 1..(2 * VesselBytes)
        /\ 2 * VesselBytes - (2 * VesselBytes - j) = j /\ j < 2 * VesselBytes
    OBVIOUS
  <2>2. HexDigitOf(v, j) \in 0..15
    BY HexDigits
  <2>3. s[2 * VesselBytes - j] = HexDigit(HexDigitOf(v, j))
    BY <2>1, HexTextIs
  <2> QED BY <2>1, <2>2, <2>3, HexDigits
<1>3. strtoul(s) = [k \in 1..VesselBytes |-> 16 * Digit(2 * k - 1) + Digit(2 * k - 2)]
  <2>1. (2 * VesselBytes)..(2 * VesselBytes - 1) = {}
    OBVIOUS
  <2>2. strtoul(s) = IF \E j \in (2 * VesselBytes)..(2 * VesselBytes - 1) : Digit(j) # 0
                     THEN [k \in 1..VesselBytes |-> 255]
                     ELSE [k \in 1..VesselBytes |-> 16 * Digit(2 * k - 1) + Digit(2 * k - 2)]
    <3> HIDE DEF s
    <3> QED BY <1>1 DEF strtoul
  <2> HIDE DEF Digit
  <2> QED BY <2>1, <2>2
<1>4. ASSUME NEW k \in 1..VesselBytes
      PROVE  16 * Digit(2 * k - 1) + Digit(2 * k - 2) = v[k]
  <2>1. /\ 2 * k - 1 \in 0..(2 * VesselBytes - 1) /\ 2 * k - 2 \in 0..(2 * VesselBytes - 1)
        /\ (2 * k - 1) % 2 = 1 /\ (2 * k - 1) \div 2 + 1 = k
        /\ (2 * k - 2) % 2 = 0 /\ (2 * k - 2) \div 2 + 1 = k
    OBVIOUS
  <2>2. Digit(2 * k - 1) = v[k] \div 16 /\ Digit(2 * k - 2) = v[k] % 16
    <3>1. HexDigitOf(v, 2 * k - 1) = v[k] \div 16
      BY <2>1 DEF HexDigitOf
    <3>2. HexDigitOf(v, 2 * k - 2) = v[k] % 16
      BY <2>1 DEF HexDigitOf
    <3> HIDE DEF Digit
    <3> QED BY <2>1, <1>2, <3>1, <3>2
  <2>3. v[k] \in Nat
    <3>1. v[k] \in Byte
      BY DEF Vessel
    <3> QED BY <3>1, ByteNumbers
  <2> HIDE DEF Digit
  <2> QED BY <2>2, <2>3
<1>5. v = [k \in 1..VesselBytes |-> v[k]]
  BY DEF Vessel
<1> HIDE DEF Digit, s
<1>6. strtoul(s) = [k \in 1..VesselBytes |-> v[k]]
  BY <1>3, <1>4
<1> QED BY <1>5, <1>6 DEF s

\* One text behind another, and two texts behind a first one.
Joins(a, s, t) ==
  /\ a \in Seq(Byte) /\ Len(a) = Len(s) + Len(t)
  /\ \A i \in 1..Len(s) : a[i] = s[i]
  /\ \A i \in 1..Len(t) : a[Len(s) + i] = t[i]

Adds(a, s, t, e) ==
  /\ a \in Seq(Byte) /\ Len(a) = Len(s) + Len(t) + Len(e)
  /\ \A i \in 1..Len(s) : a[i] = s[i]
  /\ \A i \in 1..Len(t) : a[Len(s) + i] = t[i]
  /\ \A i \in 1..Len(e) : a[Len(s) + Len(t) + i] = e[i]

\* Two texts after each other, character by character.
LEMMA Joined ==
  ASSUME NEW s \in Seq(Byte), NEW t \in Seq(Byte)
  PROVE  Joins(s \o t, s, t)
<1>1. s \o t \in Seq(Byte)
  OBVIOUS
<1>2. Len(s \o t) = Len(s) + Len(t)
  OBVIOUS
<1>3. \A i \in 1..Len(s) : (s \o t)[i] = s[i]
  OBVIOUS
<1>4. \A i \in 1..Len(t) : (s \o t)[Len(s) + i] = t[i]
  OBVIOUS
<1> QED BY <1>1, <1>2, <1>3, <1>4, Zenon DEF Joins

\* Three texts after each other.
LEMMA Added ==
  ASSUME NEW s \in Seq(Byte), NEW t \in Seq(Byte), NEW e \in Seq(Byte)
  PROVE  Adds((s \o t) \o e, s, t, e)
<1>1. ASSUME NEW a, NEW b, Joins(a, s, t), Joins(b, a, e)
      PROVE  Adds(b, s, t, e)
  <2>1. Len(s) \in Nat /\ Len(t) \in Nat /\ Len(e) \in Nat
    OBVIOUS
  <2>2. \A i \in 1..Len(s) : b[i] = s[i]
    BY <1>1, <2>1 DEF Joins
  <2>3. ASSUME NEW i \in 1..Len(t) PROVE b[Len(s) + i] = t[i]
    <3>1. Len(s) + i \in 1..Len(a)
      BY <1>1, <2>1 DEF Joins
    <3> QED BY <3>1, <1>1 DEF Joins
  <2> QED BY <1>1, <2>1, <2>2, <2>3 DEF Joins, Adds
<1>2. Joins(s \o t, s, t) /\ s \o t \in Seq(Byte)
  BY Joined, Zenon DEF Joins
<1>3. Joins((s \o t) \o e, s \o t, e)
  BY <1>2, Joined, Zenon
<1> QED BY <1>1, <1>2, <1>3, Zenon

\* Where the parameters of a form end.
Flag(f) == IF f.seatalk THEN 1 ELSE 0

\* They are numbers that follow from the line ends and the flag.
LEMMA EndsAre ==
  ASSUME NEW f \in Forms
  PROVE  /\ Flag(f) \in 0..1 /\ (f.seatalk <=> Flag(f) = 1)
         /\ EolLen(f) \in 1..2
         /\ EndOf(f, 1) = Flag(f) + 1
         /\ EndOf(f, 2) = Flag(f) + EolLen(f) + 2
         /\ EndOf(f, 3) = Flag(f) + 2 * EolLen(f) + 3
         /\ EndOf(f, 4) = Flag(f) + 3 * EolLen(f) + 3 + 2 * VesselBytes
<1> DEFINE o == IF f.seatalk THEN 1 ELSE 0
           e == Len(f.eol)
<1>1. o \in 0..1 /\ e \in 1..2
  BY FormFields DEF EolLen
<1>2. \A k \in 1..4 :
        EndOf(f, k) = o + (k - 1) * e + (IF k = 4 THEN 3 + 2 * VesselBytes ELSE k)
  BY DEF EndOf, EolLen
<1> HIDE DEF o, e
<1>3. EndOf(f, 1) = o + (1 - 1) * e + 1
  BY <1>2
<1>4. EndOf(f, 2) = o + (2 - 1) * e + 2
  BY <1>2
<1>5. EndOf(f, 3) = o + (3 - 1) * e + 3
  BY <1>2
<1>6. EndOf(f, 4) = o + (4 - 1) * e + (3 + 2 * VesselBytes)
  BY <1>2
<1>7. /\ EndOf(f, 1) = o + 1 /\ EndOf(f, 2) = o + e + 2
      /\ EndOf(f, 3) = o + 2 * e + 3
      /\ EndOf(f, 4) = o + 3 * e + 3 + 2 * VesselBytes
  BY <1>1, <1>3, <1>4, <1>5, <1>6
<1>8. o = Flag(f) /\ e = EolLen(f) /\ (f.seatalk <=> o = 1)
  BY DEF o, e, Flag, EolLen
<1> QED BY <1>1, <1>7, <1>8

\* One parameter ends a line end and a parameter after the other.
LEMMA EndsInTurn ==
  ASSUME NEW f \in Forms
  PROVE  /\ EolLen(f) \in 1..2
         /\ \A k \in 1..4 : EndOf(f, k) \in Nat \ {0}
         /\ \A k \in 1..3, j \in 0..2 :
              EndOf(f, k) + j + 1 <= EndOf(f, 4) + EolLen(f)
         /\ EndOf(f, 2) = EndOf(f, 1) + EolLen(f) + 1
         /\ EndOf(f, 3) = EndOf(f, 2) + EolLen(f) + 1
         /\ EndOf(f, 4) = EndOf(f, 3) + EolLen(f) + 2 * VesselBytes
<1>1. PICK o \in 0..1, e \in 1..2 :
        /\ e = EolLen(f)
        /\ EndOf(f, 1) = o + 1 /\ EndOf(f, 2) = o + e + 2
        /\ EndOf(f, 3) = o + 2 * e + 3
        /\ EndOf(f, 4) = o + 3 * e + 3 + 2 * VesselBytes
  BY EndsAre
<1>2. ASSUME NEW k \in 1..4 PROVE EndOf(f, k) \in Nat \ {0}
  <2>1. EndOf(f, 1) \in Nat \ {0}
    BY <1>1
  <2>2. EndOf(f, 2) \in Nat \ {0}
    BY <1>1
  <2>3. EndOf(f, 3) \in Nat \ {0}
    BY <1>1
  <2>4. EndOf(f, 4) \in Nat \ {0}
    BY <1>1
  <2>5. k \in {1, 2, 3, 4}
    OBVIOUS
  <2> QED BY <2>1, <2>2, <2>3, <2>4, <2>5
<1>3. EndOf(f, 2) = EndOf(f, 1) + EolLen(f) + 1
  BY <1>1
<1>4. EndOf(f, 3) = EndOf(f, 2) + EolLen(f) + 1
  BY <1>1
<1>5. EndOf(f, 4) = EndOf(f, 3) + EolLen(f) + 2 * VesselBytes
  BY <1>1
<1>6. ASSUME NEW k \in 1..3, NEW j \in 0..2
      PROVE  EndOf(f, k) + j + 1 <= EndOf(f, 4) + EolLen(f)
  <2>1. EndOf(f, 1) + j + 1 <= EndOf(f, 4) + EolLen(f)
    BY <1>1
  <2>2. EndOf(f, 2) + j + 1 <= EndOf(f, 4) + EolLen(f)
    BY <1>1
  <2>3. EndOf(f, 3) + j + 1 <= EndOf(f, 4) + EolLen(f)
    BY <1>1
  <2>4. k \in {1, 2, 3}
    OBVIOUS
  <2> QED BY <2>1, <2>2, <2>3, <2>4
<1> QED BY <1>1, <1>2, <1>3, <1>4, <1>5, <1>6, Zenon

\* What config.php prints of a form stands where EndOf says.
LEMMA DownloadIs ==
  ASSUME NEW f \in Forms
  PROVE  /\ Download(f) \in Seq(Byte)
         /\ Len(Download(f)) = EndOf(f, 4) + EolLen(f)
         /\ f.seatalk => Download(f)[1] = Small_s
         /\ Download(f)[EndOf(f, 1)] = Zero + f.baudA
         /\ Download(f)[EndOf(f, 2)] = Zero + f.baudB
         /\ Download(f)[EndOf(f, 3)] = Zero + f.outputs
         /\ \A i \in 1..(2 * VesselBytes) :
              Download(f)[EndOf(f, 3) + EolLen(f) + i] = HexText(f.vessel)[i]
         /\ \A k \in 1..4, j \in 1..EolLen(f) :
              Download(f)[EndOf(f, k) + j] = f.eol[j]
<1> DEFINE o == IF f.seatalk THEN 1 ELSE 0
           e == Len(f.eol)
           V == VesselBytes
           H == HexText(f.vessel)
           s0 == IF f.seatalk THEN <<Small_s>> ELSE <<>>
           s1 == (s0 \o <<Zero + f.baudA>>) \o f.eol
           s2 == (s1 \o <<Zero + f.baudB>>) \o f.eol
           s3 == (s2 \o <<Zero + f.outputs>>) \o f.eol
           s4 == (s3 \o H) \o f.eol
<1>1. Download(f) = s4
  BY DEF Download
<1>2. s0 \in Seq(Byte) /\ Len(s0) = o /\ (f.seatalk => s0[1] = Small_s)
  <2>1. <<Small_s>> \in Seq(Byte) /\ Len(<<Small_s>>) = 1 /\ <<Small_s>>[1] = Small_s
    BY DEF Byte, Small_s
  <2>2. <<>> \in Seq(Byte) /\ Len(<<>>) = 0
    OBVIOUS
  <2>3. CASE f.seatalk
    BY <2>1, <2>3
  <2>4. CASE ~f.seatalk
    BY <2>2, <2>4
  <2> QED BY <2>3, <2>4
<1>3. f.eol \in Seq(Byte) /\ e \in 1..2 /\ o \in 0..1
  BY FormFields DEF LineEnds, CR, LF, Byte, EolLen
<1>4. ASSUME NEW c \in 0..6
      PROVE  <<Zero + c>> \in Seq(Byte) /\ Len(<<Zero + c>>) = 1 /\ <<Zero + c>>[1] = Zero + c
  BY DEF Byte, Zero
<1>5. f.baudA \in 0..6 /\ f.baudB \in 0..6 /\ f.outputs \in 0..6
  BY FormFields
<1>6. H \in Seq(Byte) /\ Len(H) = 2 * V /\ V \in Nat
  BY FormFields, HexTextIs
<1> HIDE DEF s0, o, e, V, H
\* A line of one digit behind a text.
<1> DEFINE AddsDigit(a, s, c) ==
             /\ a \in Seq(Byte) /\ Len(a) = Len(s) + 1 + e
             /\ \A i \in 1..Len(s) : a[i] = s[i]
             /\ a[Len(s) + 1] = Zero + c
             /\ \A i \in 1..e : a[Len(s) + 1 + i] = f.eol[i]
<1>11. ASSUME NEW s \in Seq(Byte), NEW c \in 0..6
       PROVE  AddsDigit((s \o <<Zero + c>>) \o f.eol, s, c)
  <2>1. Adds((s \o <<Zero + c>>) \o f.eol, s, <<Zero + c>>, f.eol)
    BY <1>3, <1>4, Added, Zenon
  <2>2. ASSUME NEW a, NEW d, Len(d) = 1, d[1] = Zero + c, Adds(a, s, d, f.eol)
        PROVE  AddsDigit(a, s, c)
    <3>1. 1 \in 1..Len(d)
      BY <2>2
    <3>2. a[Len(s) + 1] = Zero + c
      BY <2>2, <3>1 DEF Adds
    <3>3. Len(a) = Len(s) + 1 + e
      BY <2>2 DEF Adds, e
    <3>4. \A i \in 1..e : a[Len(s) + 1 + i] = f.eol[i]
      BY <2>2 DEF Adds, e
    <3>5. a \in Seq(Byte) /\ \A i \in 1..Len(s) : a[i] = s[i]
      BY <2>2 DEF Adds
    <3> QED BY <3>2, <3>3, <3>4, <3>5
  <2> QED BY <2>1, <2>2, <1>4, Zenon
<1> HIDE DEF AddsDigit
<1>12. /\ s1 \in Seq(Byte) /\ Len(s1) = o + 1 + e
       /\ \A i \in 1..o : s1[i] = s0[i]
       /\ s1[o + 1] = Zero + f.baudA
       /\ \A i \in 1..e : s1[o + 1 + i] = f.eol[i]
  <2>1. AddsDigit(s1, s0, f.baudA)
    BY <1>11, <1>2, <1>5, Zenon
  <2> HIDE DEF s1
  <2> QED BY <2>1, <1>2, <1>3 DEF AddsDigit
<1> HIDE DEF s1
<1>13. /\ s2 \in Seq(Byte) /\ Len(s2) = o + 2 * e + 2
       /\ \A i \in 1..(o + 1 + e) : s2[i] = s1[i]
       /\ s2[o + e + 2] = Zero + f.baudB
       /\ \A i \in 1..e : s2[o + e + 2 + i] = f.eol[i]
  <2>1. /\ s2 \in Seq(Byte) /\ Len(s2) = Len(s1) + 1 + e
        /\ \A i \in 1..Len(s1) : s2[i] = s1[i]
        /\ s2[Len(s1) + 1] = Zero + f.baudB
        /\ \A i \in 1..e : s2[Len(s1) + 1 + i] = f.eol[i]
    <3>1. AddsDigit(s2, s1, f.baudB)
      BY <1>11, <1>12, <1>5, Zenon
    <3> HIDE DEF s2
    <3> QED BY <3>1 DEF AddsDigit
  <2>2. Len(s1) + 1 = o + e + 2 /\ Len(s1) + 1 + e = o + 2 * e + 2
    BY <1>12, <1>3
  <2> HIDE DEF s2
  <2> QED BY <2>1, <2>2, <1>12
<1> HIDE DEF s2
<1>14. /\ s3 \in Seq(Byte) /\ Len(s3) = o + 3 * e + 3
       /\ \A i \in 1..(o + 2 * e + 2) : s3[i] = s2[i]
       /\ s3[o + 2 * e + 3] = Zero + f.outputs
       /\ \A i \in 1..e : s3[o + 2 * e + 3 + i] = f.eol[i]
  <2>1. /\ s3 \in Seq(Byte) /\ Len(s3) = Len(s2) + 1 + e
        /\ \A i \in 1..Len(s2) : s3[i] = s2[i]
        /\ s3[Len(s2) + 1] = Zero + f.outputs
        /\ \A i \in 1..e : s3[Len(s2) + 1 + i] = f.eol[i]
    <3>1. AddsDigit(s3, s2, f.outputs)
      BY <1>11, <1>13, <1>5, Zenon
    <3> HIDE DEF s3
    <3> QED BY <3>1 DEF AddsDigit
  <2>2. Len(s2) + 1 = o + 2 * e + 3 /\ Len(s2) + 1 + e = o + 3 * e + 3
    BY <1>13, <1>3
  <2> HIDE DEF s3
  <2> QED BY <2>1, <2>2, <1>13
<1> HIDE DEF s3
<1>15. /\ s4 \in Seq(Byte) /\ Len(s4) = o + 4 * e + 3 + 2 * V
       /\ \A i \in 1..(o + 3 * e + 3) : s4[i] = s3[i]
       /\ \A i \in 1..(2 * V) : s4[o + 3 * e + 3 + i] = H[i]
       /\ \A i \in 1..e : s4[o + 3 * e + 3 + 2 * V + i] = f.eol[i]
  <2>1. /\ s4 \in Seq(Byte) /\ Len(s4) = Len(s3) + Len(H) + e
        /\ \A i \in 1..Len(s3) : s4[i] = s3[i]
        /\ \A i \in 1..Len(H) : s4[Len(s3) + i] = H[i]
        /\ \A i \in 1..e : s4[Len(s3) + Len(H) + i] = f.eol[i]
    <3>1. Adds(s4, s3, H, f.eol)
      BY Added, <1>3, <1>14, <1>6, Zenon
    <3> HIDE DEF s4
    <3> QED BY <3>1 DEF Adds, e
  <2>2. Len(s3) + Len(H) = o + 3 * e + 3 + 2 * V
    BY <1>14, <1>6, <1>3
  <2>3. Len(s4) = o + 4 * e + 3 + 2 * V
    BY <2>1, <2>2, <1>3, <1>6
  <2> HIDE DEF s4
  <2> QED BY <2>1, <2>2, <2>3, <1>14, <1>6
<1> HIDE DEF s4
<1>16. /\ EndOf(f, 1) = o + 1 /\ EndOf(f, 2) = o + e + 2 /\ EndOf(f, 3) = o + 2 * e + 3
       /\ EndOf(f, 4) = o + 3 * e + 3 + 2 * V
  BY EndsAre DEF Flag, o, e, V, EolLen
\* What stands in a shorter text stands in the whole.
<1>17. \A i \in 1..(o + 2 * e + 2) : s4[i] = s2[i]
  <2>1. \A i \in 1..(o + 2 * e + 2) : i \in 1..(o + 3 * e + 3)
    BY <1>3
  <2> QED BY <2>1, <1>14, <1>15
<1>18. \A i \in 1..(o + e + 1) : s4[i] = s1[i]
  <2>1. \A i \in 1..(o + e + 1) : i \in 1..(o + 2 * e + 2) /\ i \in 1..(o + 1 + e)
    BY <1>3
  <2> QED BY <2>1, <1>17, <1>13
<1>19. f.seatalk => s4[1] = Small_s
  <2>1. SUFFICES ASSUME f.seatalk PROVE s4[1] = Small_s
    OBVIOUS
  <2>2. o = 1
    BY <2>1 DEF o
  <2>3. 1 \in 1..o /\ 1 \in 1..(o + e + 1)
    BY <2>2, <1>3
  <2> QED BY <2>1, <2>3, <1>2, <1>12, <1>18
<1>20. s4[EndOf(f, 1)] = Zero + f.baudA
  <2>1. o + 1 \in 1..(o + e + 1)
    BY <1>3
  <2> QED BY <2>1, <1>12, <1>16, <1>18
<1>21. s4[EndOf(f, 2)] = Zero + f.baudB
  <2>1. o + e + 2 \in 1..(o + 2 * e + 2)
    BY <1>3
  <2> QED BY <2>1, <1>13, <1>16, <1>17
<1>22. s4[EndOf(f, 3)] = Zero + f.outputs
  <2>1. o + 2 * e + 3 \in 1..(o + 3 * e + 3)
    BY <1>3
  <2> QED BY <2>1, <1>14, <1>16, <1>15
<1>23. \A i \in 1..(2 * V) : s4[EndOf(f, 3) + e + i] = H[i]
  <2>1. EndOf(f, 3) + e = o + 3 * e + 3
    BY <1>16, <1>3
  <2> QED BY <2>1, <1>15
<1>24. ASSUME NEW k \in 1..4, NEW j \in 1..e PROVE s4[EndOf(f, k) + j] = f.eol[j]
  <2>1. CASE k = 1
    <3>1. o + 1 + j \in 1..(o + e + 1)
      BY <1>3
    <3> QED BY <2>1, <3>1, <1>12, <1>16, <1>18
  <2>2. CASE k = 2
    <3>1. o + e + 2 + j \in 1..(o + 2 * e + 2)
      BY <1>3
    <3> QED BY <2>2, <3>1, <1>13, <1>16, <1>17
  <2>3. CASE k = 3
    <3>1. o + 2 * e + 3 + j \in 1..(o + 3 * e + 3)
      BY <1>3
    <3> QED BY <2>3, <3>1, <1>14, <1>15, <1>16
  <2>4. CASE k = 4
    BY <2>4, <1>15, <1>16
  <2>5. k \in {1, 2, 3, 4}
    OBVIOUS
  <2> QED BY <2>1, <2>2, <2>3, <2>4, <2>5
<1>25. Len(s4) = EndOf(f, 4) + e
  BY <1>15, <1>16, <1>3, <1>6
<1> QED BY <1>1, <1>15, <1>19, <1>20, <1>21, <1>22, <1>23, <1>24, <1>25 DEF e, V, H, EolLen

-----------------------------------------------------------------------------
(***************************************************************************)
(* Reading a form.                                                         *)
(***************************************************************************)

\* A digit of the form is the parameter again.
LEMMA DigitCode ==
  \A x \in 0..6 : Code(Zero + x) = x /\ Zero + x \notin LineEnds /\ Zero + x # Small_s
BY DEF Code, Zero, LineEnds, CR, LF, Small_s

\* Inside a line end the next character is one, too.
LEMMA LineEndComes ==
  ASSUME NEW f \in Forms, card.text = Download(f), l \in LocalsType,
         NEW k \in 1..4, NEW j \in 0..2, ReadUpTo(f, k, j), j < EolLen(f)
  PROVE  Next1 \in LineEnds
<1>1. l.position = EndOf(f, k) + j /\ j \in 0..2
  BY DEF ReadUpTo
<1>2. EndOf(f, k) \in Nat /\ EndOf(f, k) + j + 1 <= EndOf(f, 4) + EolLen(f)
  <2>1. CASE k \in 1..3
    BY <2>1, EndsInTurn
  <2>2. CASE k = 4
    BY <2>2, EndsInTurn
  <2> QED BY <2>1, <2>2
<1>3. EndOf(f, k) + j + 1 <= Len(card.text)
  BY <1>2, DownloadIs
<1>4. j + 1 \in 1..EolLen(f)
  BY EndsAre
<1>5. card.text[EndOf(f, k) + (j + 1)] = f.eol[j + 1]
  BY <1>4, DownloadIs
<1>6. l.position + 1 = EndOf(f, k) + (j + 1) /\ l.position + 1 <= Len(card.text)
  BY <1>1, <1>2, <1>3
<1>7. Next1 = f.eol[j + 1]
  BY <1>5, <1>6 DEF Next1, CharAt
<1>8. f.eol \in Seq(LineEnds)
  BY FormFields
<1> QED BY <1>4, <1>7, <1>8 DEF EolLen

\* The first line: the flag and the baud rate of port A.
LEMMA FirstLine ==
  ASSUME NEW f \in Forms, card.text = Download(f), l.position = 0
  PROVE  /\ Next1 \notin LineEnds
         /\ f.seatalk => /\ Next1 = Small_s /\ EndOf(f, 1) = 2
                         /\ Code(CharAt(l.position + 2)) = f.baudA
         /\ ~f.seatalk => /\ Next1 # Small_s /\ EndOf(f, 1) = 1
                          /\ Code(Next1) = f.baudA
<1>1. Len(card.text) \in Nat /\ Len(card.text) >= 2
  <2>1. Len(card.text) = EndOf(f, 4) + EolLen(f)
    BY DownloadIs
  <2>2. Flag(f) \in 0..1 /\ EolLen(f) \in 1..2
    BY EndsAre
  <2>3. EndOf(f, 4) = Flag(f) + 3 * EolLen(f) + 3 + 2 * VesselBytes
    BY EndsAre
  <2> QED BY <2>1, <2>2, <2>3
<1>2. EndOf(f, 1) = IF f.seatalk THEN 2 ELSE 1
  BY EndsAre
<1>3. card.text[EndOf(f, 1)] = Zero + f.baudA /\ f.baudA \in 0..6
  BY DownloadIs, FormFields
<1>4. CASE f.seatalk
  <2>1. Next1 = Small_s
    BY <1>1, <1>4, DownloadIs DEF Next1, CharAt
  <2>2. CharAt(l.position + 2) = Zero + f.baudA
    BY <1>1, <1>2, <1>3, <1>4 DEF CharAt
  <2>3. Small_s \notin LineEnds
    BY DEF Small_s, LineEnds, CR, LF
  <2> QED BY <1>2, <1>3, <1>4, <2>1, <2>2, <2>3, DigitCode
<1>5. CASE ~f.seatalk
  <2>1. Next1 = Zero + f.baudA
    BY <1>1, <1>2, <1>3, <1>5 DEF Next1, CharAt
  <2> QED BY <1>2, <1>3, <1>5, <2>1, DigitCode
<1> QED BY <1>4, <1>5

\* The second and the third line are a digit.
LEMMA DigitLine ==
  ASSUME NEW f \in Forms, card.text = Download(f), NEW k \in {2, 3},
         l.position = EndOf(f, k - 1) + EolLen(f)
  PROVE  /\ l.position + 1 = EndOf(f, k) /\ Next1 \notin LineEnds
         /\ Code(Next1) = IF k = 2 THEN f.baudB ELSE f.outputs
<1>1. l.position + 1 = EndOf(f, k) /\ EndOf(f, k) \in Nat
      /\ EndOf(f, k) <= EndOf(f, 4) + EolLen(f)
  <2>1. CASE k = 2
    BY <2>1, EndsInTurn
  <2>2. CASE k = 3
    BY <2>2, EndsInTurn
  <2> QED BY <2>1, <2>2
<1>2. Len(card.text) = EndOf(f, 4) + EolLen(f)
  BY DownloadIs
<1>3. Next1 = card.text[EndOf(f, k)]
  BY <1>1, <1>2 DEF Next1, CharAt
<1>4. f.baudB \in 0..6 /\ f.outputs \in 0..6
  BY FormFields
<1>5. card.text[EndOf(f, k)] = Zero + (IF k = 2 THEN f.baudB ELSE f.outputs)
  BY DownloadIs
<1> QED BY <1>1, <1>3, <1>4, <1>5, DigitCode

\* The fourth line is the vessel.
LEMMA VesselLine ==
  ASSUME NEW f \in Forms, card.text = Download(f),
         l.position = EndOf(f, 3) + EolLen(f)
  PROVE  LET rest == SubSeq(card.text, l.position + 1, Len(card.text))
             n == Before(rest, LineEnds)
         IN /\ Next1 \notin LineEnds
            /\ n = 2 * VesselBytes /\ n < Len(rest)
            /\ l.position + (n + 1) = EndOf(f, 4) + 1
            /\ strtoul(SubSeq(rest, 1, n)) = f.vessel
<1> DEFINE t == card.text
           p == l.position
           V == 2 * VesselBytes
           e == EolLen(f)
           rest == SubSeq(t, p + 1, Len(t))
           H == HexText(f.vessel)
<1>1. t \in Seq(Byte)
  BY DownloadIs
<1>2. p \in Nat /\ V \in Nat /\ V >= 2 /\ e \in 1..2 /\ Len(t) = p + V + e
      /\ EndOf(f, 4) = p + V
  <2>1. Len(t) = EndOf(f, 4) + e
    BY DownloadIs
  <2>2. e \in 1..2 /\ EndOf(f, 4) = EndOf(f, 3) + e + V /\ EndOf(f, 3) \in Nat
    BY EndsInTurn
  <2>3. p = EndOf(f, 3) + e
    OBVIOUS
  <2>4. V \in Nat /\ V >= 2
    OBVIOUS
  <2> HIDE DEF t, p, V, e
  <2>5. p \in Nat
    BY <2>2, <2>3
  <2>6. EndOf(f, 4) = p + V
    BY <2>2, <2>3, <2>4
  <2>7. Len(t) = p + V + e
    BY <2>1, <2>6
  <2> QED BY <2>2, <2>4, <2>5, <2>6, <2>7
<1>3. \A i \in 1..V : t[p + i] = H[i]
  BY DownloadIs
<1>4. t[p + V + 1] = f.eol[1] /\ f.eol[1] \in LineEnds
  <2>1. t[EndOf(f, 4) + 1] = f.eol[1]
    <3>1. \A k \in 1..4, j \in 1..e : t[EndOf(f, k) + j] = f.eol[j]
      BY DownloadIs
    <3>2. 1 \in 1..e
      BY <1>2
    <3> QED BY <3>1, <3>2
  <2>2. f.eol \in Seq(LineEnds)
    BY FormFields
  <2>3. 1 \in 1..Len(f.eol)
    <3>1. e = Len(f.eol)
      BY DEF EolLen
    <3>2. \A n \in 1..2 : 1 \in 1..n
      OBVIOUS
    <3>3. e \in 1..2
      BY <1>2
    <3> HIDE DEF e
    <3> QED BY <3>1, <3>2, <3>3, Zenon
  <2>4. f.eol[1] \in LineEnds
    BY <2>2, <2>3
  <2>5. t[p + V + 1] = f.eol[1]
    BY <2>1, <1>2
  <2> QED BY <2>4, <2>5
<1>5. H \in Seq(Byte) /\ Len(H) = V /\ \A i \in 1..V : H[i] \notin LineEnds
  BY FormFields, HexTextIs
<1>6. strtoul(H) = f.vessel
  BY FormFields, StrtoulReadsHex
<1>7. Next1 = H[1]
  <2>1. p + 1 <= Len(t) /\ 1 \in 1..V
    BY <1>2
  <2>2. t[p + 1] = H[1]
    BY <2>1, <1>3
  <2> QED BY <2>1, <2>2 DEF Next1, CharAt
<1> HIDE DEF t, p, V, e, H
<1>8. rest \in Seq(Byte) /\ Len(rest) = V + e
  BY <1>1, <1>2
<1>9. \A i \in 1..(V + e) : rest[i] = t[p + i]
  BY <1>1, <1>2
<1> HIDE DEF rest
<1>10. \A i \in 1..V : rest[i] = H[i] /\ rest[i] \notin LineEnds
  BY <1>2, <1>3, <1>5, <1>9
<1>11. rest[V + 1] \in LineEnds
  <2>1. V + 1 \in 1..(V + e)
    BY <1>2
  <2>2. rest[V + 1] = t[p + (V + 1)]
    BY <2>1, <1>9
  <2> QED BY <2>2, <1>2, <1>4
<1>12. Before(rest, LineEnds) = V
  <2>1. V \in 0..Len(rest) /\ Len(rest) \in Nat
    BY <1>2, <1>8
  <2> QED BY <2>1, <1>10, <1>11, BeforeIs
<1>13. SubSeq(rest, 1, V) = H
  <2>1. SubSeq(rest, 1, V) \in Seq(Byte) /\ Len(SubSeq(rest, 1, V)) = V
    BY <1>2, <1>8
  <2>2. \A i \in 1..V : SubSeq(rest, 1, V)[i] = rest[i]
    BY <1>2, <1>8
  <2> DEFINE u == SubSeq(rest, 1, V)
  <2>3. u \in Seq(Byte) /\ Len(u) = V /\ \A i \in 1..V : u[i] = H[i]
    BY <2>1, <2>2, <1>10
  <2> HIDE DEF u
  <2>4. u = H
    BY <2>3, <1>5
  <2> QED BY <2>4 DEF u
<1>14. V < Len(rest) /\ p + (V + 1) = EndOf(f, 4) + 1
  BY <1>2, <1>8
<1>15. Next1 \notin LineEnds
  BY <1>2, <1>5, <1>7
<1> QED BY <1>6, <1>12, <1>13, <1>14, <1>15 DEF rest, t, p, V

\* Reading is somewhere in a line end, at the end of one, or has not begun.
LEMMA PlaceOf ==
  ASSUME NEW f \in Forms, card.text = Download(f), l \in LocalsType,
         ReadSoFar(f), l.position < Len(card.text)
  PROVE  \/ NothingRead
         \/ \E k \in 1..4, j \in 0..2 :
              ReadUpTo(f, k, j) /\ Agrees(f, k) /\ j < EolLen(f)
         \/ \E k \in 1..3 : ReadUpTo(f, k, EolLen(f)) /\ Agrees(f, k)
<1>1. CASE NothingRead
  BY <1>1
<1>2. CASE ~NothingRead
  <2>1. PICK k \in 1..4, j \in 0..2 : ReadUpTo(f, k, j) /\ Agrees(f, k)
    BY <1>2 DEF ReadSoFar
  <2>2. EolLen(f) \in 1..2
    BY EndsInTurn
  <2>3. j <= EolLen(f)
    <3>1. j \in 0..EolLen(f) \/ j \in 1..EolLen(f)
      BY <2>1 DEF ReadUpTo
    <3> HIDE DEF EolLen
    <3> QED BY <2>2, <3>1
  <2>4. CASE j < EolLen(f)
    BY <2>1, <2>4
  <2>5. CASE j = EolLen(f)
    <3>1. k # 4
      <4>1. SUFFICES ASSUME k = 4 PROVE FALSE
        OBVIOUS
      <4>2. l.position = EndOf(f, 4) + EolLen(f)
        BY <2>1, <2>5, <4>1 DEF ReadUpTo
      <4>3. Len(card.text) = EndOf(f, 4) + EolLen(f)
        BY DownloadIs
      <4> DEFINE p == l.position
                 q == Len(card.text)
      <4>4. p < q /\ p = q /\ p \in Nat
        BY <4>2, <4>3 DEF LocalsType
      <4> HIDE DEF p, q
      <4> QED BY <4>4
    <3>2. k \in 1..3
      BY <3>1
    <3> QED BY <2>1, <2>5, <3>2
  <2>6. j < EolLen(f) \/ j = EolLen(f)
    BY <2>2, <2>3
  <2> QED BY <2>4, <2>5, <2>6
<1> QED BY <1>1, <1>2

\* The four parameters of a form, as they are read.
TakesVessel(f) ==
  /\ l' = [Advanced(2 * VesselBytes + 1) EXCEPT !.vesselID = f.vessel]
  /\ todo' = VesselWrites(f.vessel)
  /\ UNCHANGED g

Takes(f, k) ==
  \/ k = 1 /\ NothingRead /\ Parameter1(f.seatalk, f.baudA, EndOf(f, 1))
  \/ k = 2 /\ Parameter2(f.baudB)
  \/ k = 3 /\ Parameter3(f.outputs)
  \/ k = 4 /\ TakesVessel(f)

\* A character that ends no line is the next parameter of the form.
LEMMA TakesInTurn ==
  ASSUME NEW f \in Forms, card.text = Download(f), l \in LocalsType,
         ReadSoFar(f), ConfigChar
  PROVE  \E k \in 1..4 : /\ Takes(f, k)
                         /\ k > 1 => ReadUpTo(f, k - 1, EolLen(f)) /\ Agrees(f, k - 1)
<1>1. l.position < Len(card.text) /\ Next1 \notin LineEnds
  BY DEF ConfigChar, Parsing
<1>2. CASE NothingRead
  <2>1. l.position = 0 /\ l.paramCount = 1
    BY <1>2 DEF NothingRead
  <2>4. l.paramCount \in 1..4 /\ l.paramCount # 2 /\ l.paramCount # 3 /\ l.paramCount # 4
    BY <2>1
  <2>2. CASE f.seatalk
    <3>1. /\ Next1 = Small_s /\ EndOf(f, 1) = 2
          /\ Code(CharAt(l.position + 2)) = f.baudA
      BY <2>1, <2>2, FirstLine
    <3>2. Parameter1(TRUE, Code(CharAt(l.position + 2)), 2)
      BY <2>1, <2>4, <3>1, Zenon DEF ConfigChar
    <3>3. Parameter1(f.seatalk, f.baudA, EndOf(f, 1))
      BY <2>2, <3>1, <3>2, FormFields
    <3> QED BY <1>2, <3>3 DEF Takes
  <2>3. CASE ~f.seatalk
    <3>1. Next1 # Small_s /\ EndOf(f, 1) = 1 /\ Code(Next1) = f.baudA
      BY <2>1, <2>3, FirstLine
    <3>2. Parameter1(FALSE, Code(Next1), 1)
      BY <2>1, <2>4, <3>1, Zenon DEF ConfigChar
    <3>3. Parameter1(f.seatalk, f.baudA, EndOf(f, 1))
      BY <2>3, <3>1, <3>2, FormFields
    <3> QED BY <1>2, <3>3 DEF Takes
  <2> QED BY <2>2, <2>3
<1>3. ASSUME NEW k \in 1..4, NEW j \in 0..2, ReadUpTo(f, k, j), j < EolLen(f)
      PROVE  FALSE
  BY <1>1, <1>3, LineEndComes
<1>4. ASSUME NEW k \in 1..3, ReadUpTo(f, k, EolLen(f)), Agrees(f, k)
      PROVE  Takes(f, k + 1)
  <2>1. EolLen(f) \in 1..2
    BY EndsInTurn
  <2>2. l.paramCount = k + 1
    <3>1. k # 4 /\ EolLen(f) > 0
      BY <2>1
    <3> QED BY <1>4, <3>1 DEF ReadUpTo
  <2>3. l.position = EndOf(f, k) + EolLen(f)
    BY <1>4 DEF ReadUpTo
  <2>4. CASE k = 1
    <3>1. Parameter2(Code(Next1))
      BY <2>2, <2>4 DEF ConfigChar
    <3>2. Code(Next1) = f.baudB
      BY <2>3, <2>4, DigitLine
    <3> QED BY <2>4, <3>1, <3>2 DEF Takes
  <2>5. CASE k = 2
    <3>1. Parameter3(Code(Next1))
      BY <2>2, <2>5 DEF ConfigChar
    <3>2. Code(Next1) = f.outputs
      BY <2>3, <2>5, DigitLine
    <3> QED BY <2>5, <3>1, <3>2 DEF Takes
  <2>6. CASE k = 3
    <3>1. Parameter4
      BY <2>2, <2>6 DEF ConfigChar
    <3>2. l.position = EndOf(f, 3) + EolLen(f)
      BY <2>3, <2>6
    <3>3. TakesVessel(f)
      BY <3>1, <3>2, VesselLine DEF Parameter4, TakesVessel
    <3> QED BY <2>6, <3>3 DEF Takes
  <2> QED BY <2>4, <2>5, <2>6
<1>5. ASSUME NEW k \in 1..3, ReadUpTo(f, k, EolLen(f)), Agrees(f, k)
      PROVE  \E n \in 1..4 : /\ Takes(f, n)
                             /\ n > 1 => ReadUpTo(f, n - 1, EolLen(f)) /\ Agrees(f, n - 1)
  <2>1. k + 1 \in 1..4 /\ (k + 1) - 1 = k
    OBVIOUS
  <2> QED BY <2>1, <1>4, <1>5
<1> QED BY <1>1, <1>2, <1>3, <1>5, PlaceOf

\* With a parameter the reading has come to the end of it.
LEMMA Taken ==
  ASSUME NEW f \in Forms, l \in LocalsType, g \in GlobalsType,
         NEW k \in 1..4, Takes(f, k),
         k > 1 => ReadUpTo(f, k - 1, EolLen(f)) /\ Agrees(f, k - 1)
  PROVE  ReadUpTo(f, k, IF k = 4 THEN 1 ELSE 0)' /\ Agrees(f, k)' /\ l.cached'
<1>1. EolLen(f) \in 1..2 /\ EolLen(f) > 0
  BY EndsInTurn
<1>2. /\ EndOf(f, 1) \in Nat
      /\ EndOf(f, 2) = EndOf(f, 1) + EolLen(f) + 1
      /\ EndOf(f, 3) = EndOf(f, 2) + EolLen(f) + 1
      /\ EndOf(f, 4) = EndOf(f, 3) + EolLen(f) + 2 * VesselBytes
  BY EndsInTurn
<1>3. /\ EndOf(f, 2) \in Nat /\ EndOf(f, 3) \in Nat
  BY EndsInTurn
<1>4. CASE k = 1
  <2>1. l' = [Advanced(EndOf(f, 1)) EXCEPT !.baudA = f.baudA]
        /\ g' = [g EXCEPT !.seatalkActive = f.seatalk] /\ NothingRead
    BY <1>4 DEF Takes, Parameter1
  <2>2. /\ l'.position = l.position + EndOf(f, 1) /\ ~l'.lastCR /\ l'.cached
        /\ l'.paramCount = l.paramCount /\ l'.baudA = f.baudA
    BY <2>1 DEF Advanced, LocalsType
  <2>3. g'.seatalkActive = f.seatalk
    BY <2>1 DEF GlobalsType
  <2>4. l.position = 0 /\ l.paramCount = 1
    BY <2>1 DEF NothingRead
  <2>5. l'.position = EndOf(f, 1) + 0
    BY <1>2, <2>2, <2>4
  <2>6. ReadUpTo(f, 1, 0)'
    BY <1>1, <2>2, <2>4, <2>5 DEF ReadUpTo
  <2>7. Agrees(f, 1)'
    BY <2>2, <2>3 DEF Agrees
  <2> QED BY <1>4, <2>2, <2>6, <2>7
<1>5. ASSUME NEW i \in 1..3, k = i + 1
      PROVE  /\ l.position = EndOf(f, i) + EolLen(f) /\ l.paramCount = k
             /\ Agrees(f, i)
  <2>1. ReadUpTo(f, i, EolLen(f)) /\ Agrees(f, i)
    BY <1>5
  <2>2. i # 4 /\ EolLen(f) > 0
    BY <1>1
  <2> QED BY <1>5, <2>1, <2>2 DEF ReadUpTo
<1>6. CASE k = 2
  <2>1. l' = [Advanced(1) EXCEPT !.baudB = f.baudB] /\ g' = g
    BY <1>6 DEF Takes, Parameter2
  <2>2. /\ l'.position = l.position + 1 /\ ~l'.lastCR /\ l'.cached
        /\ l'.paramCount = l.paramCount /\ l'.baudB = f.baudB /\ l'.baudA = l.baudA
    BY <2>1 DEF Advanced, LocalsType
  <2>3. l.position = EndOf(f, 1) + EolLen(f) /\ l.paramCount = 2 /\ Agrees(f, 1)
    BY <1>5, <1>6
  <2>4. l'.position = EndOf(f, 2) + 0
    BY <1>1, <1>2, <2>2, <2>3
  <2>5. ReadUpTo(f, 2, 0)'
    BY <1>1, <2>2, <2>3, <2>4 DEF ReadUpTo
  <2>6. Agrees(f, 2)'
    BY <2>1, <2>2, <2>3 DEF Agrees
  <2> QED BY <1>6, <2>2, <2>5, <2>6
<1>7. CASE k = 3
  <2>1. l' = [Advanced(1) EXCEPT !.outputs = f.outputs] /\ g' = g
    BY <1>7 DEF Takes, Parameter3
  <2>2. /\ l'.position = l.position + 1 /\ ~l'.lastCR /\ l'.cached
        /\ l'.paramCount = l.paramCount /\ l'.baudB = l.baudB /\ l'.baudA = l.baudA
        /\ l'.outputs = f.outputs
    BY <2>1 DEF Advanced, LocalsType
  <2>3. l.position = EndOf(f, 2) + EolLen(f) /\ l.paramCount = 3 /\ Agrees(f, 2)
    BY <1>5, <1>7
  <2>4. l'.position = EndOf(f, 3) + 0
    BY <1>1, <1>2, <1>3, <2>2, <2>3
  <2>5. ReadUpTo(f, 3, 0)'
    BY <1>1, <2>2, <2>3, <2>4 DEF ReadUpTo
  <2>6. Agrees(f, 3)'
    BY <2>1, <2>2, <2>3 DEF Agrees
  <2> QED BY <1>7, <2>2, <2>5, <2>6
<1>8. CASE k = 4
  <2>1. l' = [Advanced(2 * VesselBytes + 1) EXCEPT !.vesselID = f.vessel] /\ g' = g
    BY <1>8 DEF Takes, TakesVessel
  <2>2. /\ l'.position = l.position + (2 * VesselBytes + 1) /\ ~l'.lastCR /\ l'.cached
        /\ l'.paramCount = l.paramCount /\ l'.baudB = l.baudB /\ l'.baudA = l.baudA
        /\ l'.outputs = l.outputs /\ l'.vesselID = f.vessel
    BY <2>1 DEF Advanced, LocalsType
  <2>3. l.position = EndOf(f, 3) + EolLen(f) /\ l.paramCount = 4 /\ Agrees(f, 3)
    BY <1>5, <1>8
  <2>4. l'.position = EndOf(f, 4) + 1
    BY <1>1, <1>2, <1>3, <2>2, <2>3
  <2>5. ReadUpTo(f, 4, 1)'
    BY <1>1, <2>2, <2>3, <2>4 DEF ReadUpTo
  <2>6. Agrees(f, 4)'
    BY <2>1, <2>2, <2>3 DEF Agrees
  <2> QED BY <1>8, <2>2, <2>5, <2>6
<1>9. k \in {1, 2, 3, 4}
  OBVIOUS
<1> QED BY <1>4, <1>6, <1>7, <1>8, <1>9

\* A line end takes the reading one character on.
LEMMA LineEndTaken ==
  ASSUME NEW f \in Forms, card.text = Download(f), l \in LocalsType,
         ReadSoFar(f), LineEnd
  PROVE  \E k \in 1..4, j \in 0..2 : ReadUpTo(f, k, j)' /\ Agrees(f, k)'
<1>1. l.position < Len(card.text) /\ Next1 \in LineEnds /\ l' = LineEnded(l) /\ g' = g
  BY DEF LineEnd, Parsing
<1>2. ~NothingRead
  BY <1>1, FirstLine DEF NothingRead
<1>3. ~ \E k \in 1..3 : ReadUpTo(f, k, EolLen(f))
  <2>1. ASSUME NEW k \in 1..3, l.position = EndOf(f, k) + EolLen(f) PROVE FALSE
    <3>1. CASE k = 1
      <4>1. l.position = EndOf(f, 2 - 1) + EolLen(f)
        BY <2>1, <3>1
      <4> QED BY <4>1, <1>1, DigitLine
    <3>2. CASE k = 2
      <4>1. l.position = EndOf(f, 3 - 1) + EolLen(f)
        BY <2>1, <3>2
      <4> QED BY <4>1, <1>1, DigitLine
    <3>3. CASE k = 3
      BY <2>1, <3>3, <1>1, VesselLine
    <3> QED BY <3>1, <3>2, <3>3
  <2> QED BY <2>1 DEF ReadUpTo
<1>4. PICK k \in 1..4, j \in 0..2 : ReadUpTo(f, k, j) /\ Agrees(f, k) /\ j < EolLen(f)
  BY <1>1, <1>2, <1>3, PlaceOf
<1>5. /\ l'.position = l.position + 1 /\ l'.lastCR
      /\ l'.paramCount = IF l.lastCR THEN l.paramCount ELSE (l.paramCount + 1) % 256
      /\ l'.baudA = l.baudA /\ l'.baudB = l.baudB /\ l'.outputs = l.outputs
      /\ l'.vesselID = l.vesselID
  BY <1>1 DEF LineEnded, LocalsType
<1>6. EolLen(f) \in 1..2 /\ EndOf(f, k) \in Nat
  BY EndsInTurn
<1>7. j + 1 \in 0..2 /\ j + 1 \in 1..EolLen(f) /\ j + 1 \in 0..EolLen(f)
      /\ j + 1 > (IF k = 4 THEN 1 ELSE 0)
  <2>1. k = 4 => j \in 1..EolLen(f)
    BY <1>4 DEF ReadUpTo
  <2>2. j < EolLen(f) /\ EolLen(f) \in 1..2
    BY <1>4, <1>6
  <2> QED BY <2>1, <2>2
<1>8. l'.position = EndOf(f, k) + (j + 1)
  <2>1. l.position = EndOf(f, k) + j
    BY <1>4 DEF ReadUpTo
  <2> QED BY <2>1, <1>5, <1>6
<1>9. l'.paramCount = k + 1
  <2>1. l.paramCount = IF l.lastCR THEN k + 1 ELSE k
    BY <1>4 DEF ReadUpTo
  <2>2. (k + 1) % 256 = k + 1
    OBVIOUS
  <2> QED BY <2>1, <2>2, <1>5
<1>10. ReadUpTo(f, k, j + 1)'
  BY <1>5, <1>7, <1>8, <1>9 DEF ReadUpTo
<1>11. Agrees(f, k)'
  BY <1>1, <1>4, <1>5 DEF Agrees
<1> QED BY <1>7, <1>10, <1>11

-----------------------------------------------------------------------------
(***************************************************************************)
(* Types.                                                                  *)
(***************************************************************************)

\* Every text has a place before which there is nothing of a set.
LEMMA BeforeExists ==
  ASSUME NEW s \in Seq(Byte), NEW stops
  PROVE  LET n == Before(s, stops)
         IN /\ n \in 0..Len(s)
            /\ \A i \in 1..n : s[i] \notin stops
            /\ n = Len(s) \/ s[n + 1] \in stops
<1> DEFINE L == Len(s)
           T == {n \in 0..L : n = L \/ s[n + 1] \in stops}
           P(m) == /\ \A i \in 1..m : s[i] \notin stops
                   /\ m = L \/ s[m + 1] \in stops
<1>1. L \in Nat
  OBVIOUS
<1> HIDE DEF L
<1>2. T \subseteq Nat /\ T # {}
  <2>1. L \in T
    BY <1>1
  <2>2. 0..L \subseteq Nat
    BY <1>1
  <2> QED BY <2>1, <2>2
<1>3. PICK n \in T : \A m \in T : n <= m
  <2> HIDE DEF T
  <2> QED BY <1>2, Least
<1>4. ASSUME NEW i \in 1..n PROVE s[i] \notin stops
  <2>1. i - 1 \in 0..L /\ ~(n <= i - 1) /\ (i - 1) + 1 = i
    BY <1>1
  <2>2. i - 1 \notin T
    BY <1>3, <2>1
  <2> QED BY <2>1, <2>2
<1>5. n \in 0..L /\ P(n)
  BY <1>4
<1>6. Before(s, stops) = CHOOSE m \in 0..L : P(m)
  BY DEF Before, L
<1> HIDE DEF P
<1>7. P(Before(s, stops)) /\ Before(s, stops) \in 0..L
  BY <1>5, <1>6
<1> QED BY <1>7 DEF P, L

\* Whatever the text, strtoul() gives a number of the width of the vessel.
LEMMA StrtoulFits ==
  ASSUME NEW s \in Seq(Byte)
  PROVE  strtoul(s) \in Vessel
<1> DEFINE n == Before(s, NoDigit)
           Digit(j) == IF j < n THEN DigitOf(s[n - j]) ELSE 0
<1>1. n \in 0..Len(s) /\ \A i \in 1..n : s[i] \notin NoDigit
  BY BeforeExists
<1>2. ASSUME NEW j \in Nat PROVE Digit(j) \in 0..15
  <2>1. CASE j < n
    <3>1. n - j \in 1..n /\ n - j \in 1..Len(s)
      BY <1>1, <2>1
    <3>2. s[n - j] \in Byte /\ s[n - j] \notin NoDigit
      BY <1>1, <3>1
    <3>3. \A c \in Byte : DigitOf(c) \in 0..16
      BY DEF Byte, DigitOf
    <3>4. DigitOf(s[n - j]) \in 0..16 /\ DigitOf(s[n - j]) # 16
      BY <3>2, <3>3 DEF NoDigit
    <3> DEFINE d == DigitOf(s[n - j])
    <3>5. Digit(j) = d /\ d \in 0..16 /\ d # 16
      BY <2>1, <3>4
    <3> HIDE DEF d, Digit
    <3> QED BY <3>5
  <2>2. CASE ~(j < n)
    BY <2>2
  <2> QED BY <2>1, <2>2
<1> HIDE DEF Digit
<1>3. ASSUME NEW k \in 1..VesselBytes
      PROVE  16 * Digit(2 * k - 1) + Digit(2 * k - 2) \in Byte
  <2>1. 2 * k - 1 \in Nat /\ 2 * k - 2 \in Nat
    OBVIOUS
  <2>2. Digit(2 * k - 1) \in 0..15 /\ Digit(2 * k - 2) \in 0..15
    BY <1>2, <2>1
  <2>3. \A x, y \in 0..15 : 16 * x + y \in Byte
    BY DEF Byte
  <2> QED BY <2>2, <2>3
<1>4. strtoul(s) = IF \E j \in (2 * VesselBytes)..(n - 1) : Digit(j) # 0
                   THEN [k \in 1..VesselBytes |-> 255]
                   ELSE [k \in 1..VesselBytes |-> 16 * Digit(2 * k - 1) + Digit(2 * k - 2)]
  BY DEF strtoul, Digit
<1>5. [k \in 1..VesselBytes |-> 255] \in Vessel
  BY DEF Vessel, Byte
<1>6. [k \in 1..VesselBytes |-> 16 * Digit(2 * k - 1) + Digit(2 * k - 2)] \in Vessel
  BY <1>3 DEF Vessel
<1> QED BY <1>4, <1>5, <1>6, Zenon

\* The cells by number.
LEMMA CellNumbers ==
  /\ {EEPROM_BAUD_A, EEPROM_BAUD_B, EEPROM_SEATALK, EEPROM_OUTPUT} \subseteq Cells
  /\ \A k \in 1..VesselBytes : /\ VesselCell(k) \in Cells
                               /\ VesselCell(k) \notin {EEPROM_BAUD_A, EEPROM_BAUD_B,
                                                        EEPROM_SEATALK, EEPROM_OUTPUT}
  /\ \A k, m \in 1..VesselBytes : VesselCell(k) = VesselCell(m) => k = m
BY DEF Cells, VesselCell, EEPROM_BAUD_A, EEPROM_BAUD_B, EEPROM_SEATALK, EEPROM_OUTPUT,
       EEPROM_VESSELID

\* The locals and the globals at the beginning.
LEMMA FromEEPROM ==
  ASSUME NEW e \in [Cells -> Byte]
  PROVE  LocalsFrom(e) \in LocalsType /\ GlobalsFrom(e) \in GlobalsType
<1>1. /\ e[EEPROM_BAUD_A] \in Byte /\ e[EEPROM_BAUD_B] \in Byte
      /\ e[EEPROM_SEATALK] \in Byte /\ e[EEPROM_OUTPUT] \in Byte
  BY CellNumbers
<1>2. \A b \in Byte : AcceptedA(b) \in Byte /\ AcceptedB(b) \in Byte
  BY DEF AcceptedA, AcceptedB, Byte, Hex06
<1>3. VesselIn(e) \in Vessel
  BY CellNumbers DEF VesselIn, Vessel
<1>4. 0 \in Nat /\ 1 \in Byte
  BY DEF Byte
<1>5. LocalsFrom(e) \in LocalsType
  BY <1>1, <1>2, <1>3, <1>4 DEF LocalsFrom, LocalsType
<1>6. Closed \in PortType
  BY DEF Closed, PortType
<1>7. [p \in {"A", "B"} |-> Closed] \in [{"A", "B"} -> PortType]
  BY <1>6
<1>8. (e[EEPROM_SEATALK] \in 1..5) \in BOOLEAN
  OBVIOUS
<1>9. GlobalsFrom(e) \in GlobalsType
  BY <1>7, <1>8 DEF GlobalsFrom, GlobalsType
<1> QED BY <1>5, <1>9

\* EEPROM writes.
Write == Cells \X Byte

\* What a statement has to write is a list of writes.
LEMMA WritesTyped ==
  /\ \A cell \in Cells, new \in Byte, old \in Byte : Changed(cell, new, old) \in Seq(Write)
  /\ \A active \in BOOLEAN : SeatalkWrites(active) \in Seq(Write)
  /\ \A v \in Vessel : VesselWrites(v) \in Seq(Write)
<1>1. \A w \in Write : <<w>> \in Seq(Write)
  OBVIOUS
<1>2. <<>> \in Seq(Write)
  OBVIOUS
<1>3. ASSUME NEW cell \in Cells, NEW new \in Byte, NEW old \in Byte
      PROVE  Changed(cell, new, old) \in Seq(Write)
  <2>1. <<cell, new>> \in Write
    BY DEF Write
  <2> QED BY <1>1, <1>2, <2>1 DEF Changed
<1>4. ASSUME NEW active \in BOOLEAN PROVE SeatalkWrites(active) \in Seq(Write)
  <2>1. <<EEPROM_SEATALK, IF active THEN 1 ELSE 0>> \in Write
    BY CellNumbers DEF Write, Byte
  <2> QED BY <1>1, <1>2, <2>1 DEF SeatalkWrites
<1>5. ASSUME NEW v \in Vessel PROVE VesselWrites(v) \in Seq(Write)
  <2>1. \A k \in 1..VesselBytes : <<VesselCell(k), v[k]>> \in Write
    BY CellNumbers DEF Write, Vessel
  <2>2. VesselWrites(v) \in [1..VesselBytes -> Write]
    BY <2>1 DEF VesselWrites
  <2> QED BY <2>2
<1> QED BY <1>3, <1>4, <1>5

\* Two lists of writes after each other.
LEMMA WritesJoined ==
  ASSUME NEW s \in Seq(Write), NEW t \in Seq(Write)
  PROVE  s \o t \in Seq(Write)
OBVIOUS

\* What is read from config.dat is a byte, and so is a code.
LEMMA CharTyped ==
  ASSUME CardOK
  PROVE  /\ card.text \in Seq(Byte) /\ Len(card.text) \in Nat
         /\ \A i \in Nat \ {0} : CharAt(i) \in Byte
         /\ \A c \in Byte : Code(c) \in Byte
<1>1. card.text \in Seq(Byte)
  <2>1. NoText \in Seq(Byte)
    BY DEF NoText
  <2>2. CASE card.text = NoText
    BY <2>1, <2>2
  <2>3. CASE card.form \in Forms /\ card.text = Download(card.form)
    BY <2>3, DownloadIs
  <2>4. CASE card.text \in OtherTexts
    BY <2>4, ConfigAssumption
  <2> QED BY <2>2, <2>3, <2>4 DEF CardOK
<1>2. Len(card.text) \in Nat
  BY <1>1
<1>3. ASSUME NEW i \in Nat \ {0} PROVE CharAt(i) \in Byte
  <2>1. CASE i <= Len(card.text)
    <3>1. card.text[i] \in Byte
      BY <1>1, <2>1
    <3> QED BY <2>1, <3>1 DEF CharAt
  <2>2. CASE ~(i <= Len(card.text))
    BY <2>2 DEF CharAt, Byte
  <2> QED BY <2>1, <2>2
<1>4. \A c \in Byte : Code(c) \in Byte
  BY DEF Code, Byte, Zero
<1> QED BY <1>1, <1>2, <1>3, <1>4

\* A card that is put in, or written on, is known.
LEMMA CardsAreKnown ==
  /\ \A c \in Cards : card' = c => CardOK'
  /\ CardOK => \A x : card' = [card EXCEPT !.cnf = x] => CardOK'
<1>1. ASSUME NEW c \in Cards, card' = c PROVE CardOK'
  <2>1. CASE c = NewCard(NoText, NoForm)
    BY <1>1, <2>1 DEF CardOK, NewCard
  <2>2. CASE \E f \in Forms : c = NewCard(Download(f), f)
    BY <1>1, <2>2 DEF CardOK, NewCard
  <2>3. CASE \E t \in OtherTexts : c = NewCard(t, Foreign)
    BY <1>1, <2>3 DEF CardOK, NewCard
  <2> QED BY <2>1, <2>2, <2>3 DEF Cards
<1>2. ASSUME CardOK, NEW x, card' = [card EXCEPT !.cnf = x] PROVE CardOK'
  <2>1. card = [text |-> card.text, form |-> card.form, cnf |-> card.cnf]
    BY <1>2 DEF CardOK
  <2>2. card' = [text |-> card.text, form |-> card.form, cnf |-> x]
    BY <1>2, <2>1
  <2>3. card'.text = card.text /\ card'.form = card.form /\ card'.cnf = x
    BY <2>2
  <2> QED BY <1>2, <2>2, <2>3 DEF CardOK
<1> QED BY <1>1, <1>2

\* One more or one fewer read: the locals and globals after n characters.
LEMMA AdvancedTyped ==
  ASSUME l \in LocalsType, NEW n \in Nat
  PROVE  Advanced(n) \in LocalsType
<1>1. l.position + n \in Nat
  BY DEF LocalsType
<1> QED BY <1>1 DEF Advanced, LocalsType

\* The character of a parameter keeps the types.
LEMMA CharKeepsTypes ==
  ASSUME TypeOK, ConfigChar
  PROVE  l' \in LocalsType /\ g' \in GlobalsType /\ todo' \in Seq(Write)
<1>1. /\ l \in LocalsType /\ g \in GlobalsType /\ CardOK
      /\ todo = <<>> /\ <<>> \in Seq(Write)
  BY DEF TypeOK, ConfigChar, Parsing
<1>2. l.position + 1 \in Nat \ {0} /\ l.position + 2 \in Nat \ {0}
  BY <1>1 DEF LocalsType
<1>3. /\ Code(Next1) \in Byte /\ Code(CharAt(l.position + 2)) \in Byte
  BY <1>1, <1>2, CharTyped DEF Next1
<1>4. /\ l.baudA \in Byte /\ l.baudB \in Byte /\ l.outputs \in Byte
  BY <1>1 DEF LocalsType
<1>5. ASSUME NEW active \in BOOLEAN, NEW baud \in Byte, NEW n \in Nat,
             Parameter1(active, baud, n)
      PROVE  l' \in LocalsType /\ g' \in GlobalsType /\ todo' \in Seq(Write)
  <2>1. g' \in GlobalsType
    BY <1>1, <1>5 DEF Parameter1, GlobalsType
  <2>2. l' \in LocalsType
    BY <1>1, <1>5, AdvancedTyped DEF Parameter1, LocalsType
  <2>3. todo' \in Seq(Write)
    BY <1>4, <1>5, CellNumbers, WritesTyped, WritesJoined DEF Parameter1
  <2> QED BY <2>1, <2>2, <2>3
<1>6. ASSUME NEW baud \in Byte, Parameter2(baud)
      PROVE  l' \in LocalsType /\ g' \in GlobalsType /\ todo' \in Seq(Write)
  <2>1. l' \in LocalsType
    BY <1>1, <1>6, AdvancedTyped DEF Parameter2, LocalsType
  <2> QED BY <1>1, <1>4, <1>6, <2>1, CellNumbers, WritesTyped DEF Parameter2
<1>7. ASSUME NEW out \in Byte, Parameter3(out)
      PROVE  l' \in LocalsType /\ g' \in GlobalsType /\ todo' \in Seq(Write)
  <2>1. l' \in LocalsType
    BY <1>1, <1>7, AdvancedTyped DEF Parameter3, LocalsType
  <2> QED BY <1>1, <1>4, <1>7, <2>1, CellNumbers, WritesTyped DEF Parameter3
<1>8. ASSUME Parameter4
      PROVE  l' \in LocalsType /\ g' \in GlobalsType /\ todo' \in Seq(Write)
  <2> DEFINE t == card.text
             rest == SubSeq(t, l.position + 1, Len(t))
             n == Before(rest, LineEnds)
             v == strtoul(SubSeq(rest, 1, n))
  <2>1. t \in Seq(Byte)
    BY <1>1, CharTyped
  <2>2. rest \in Seq(Byte)
    <3> HIDE DEF t
    <3>1. l.position + 1 \in 1..(Len(t) + 1) \/ l.position + 1 > Len(t)
      BY <1>2, <2>1
    <3> QED BY <1>2, <2>1, <3>1
  <2> HIDE DEF rest
  <2>3. n \in 0..Len(rest) /\ Len(rest) \in Nat
    BY <2>2, BeforeExists
  <2>4. SubSeq(rest, 1, n) \in Seq(Byte)
    <3> HIDE DEF n
    <3> QED BY <2>2, <2>3
  <2>5. v \in Vessel
    BY <2>4, StrtoulFits
  <2> DEFINE m == IF n < Len(rest) THEN n + 1 ELSE n
  <2>6. m \in Nat
    <3> HIDE DEF n
    <3> QED BY <2>3
  <2>7. l' = [Advanced(m) EXCEPT !.vesselID = v] /\ todo' = VesselWrites(v) /\ g' = g
    BY <1>8 DEF Parameter4, rest
  <2> HIDE DEF m, v
  <2>8. l' \in LocalsType
    BY <1>1, <2>5, <2>6, <2>7, AdvancedTyped DEF LocalsType
  <2> QED BY <1>1, <2>5, <2>7, <2>8, WritesTyped
<1>9. ASSUME l' = Advanced(1), UNCHANGED <<todo, g>>
      PROVE  l' \in LocalsType /\ g' \in GlobalsType /\ todo' \in Seq(Write)
  BY <1>1, <1>9, AdvancedTyped
<1>10. \/ Parameter1(TRUE, Code(CharAt(l.position + 2)), 2)
       \/ Parameter1(FALSE, Code(Next1), 1)
       \/ Parameter2(Code(Next1)) \/ Parameter3(Code(Next1)) \/ Parameter4
       \/ l' = Advanced(1) /\ UNCHANGED <<todo, g>>
  BY Zenon DEF ConfigChar
<1>11. 1 \in Nat /\ 2 \in Nat /\ TRUE \in BOOLEAN /\ FALSE \in BOOLEAN
  OBVIOUS
<1> QED BY <1>3, <1>5, <1>6, <1>7, <1>8, <1>9, <1>10, <1>11, Zenon

\* Every step keeps the types.
LEMMA TypesKept ==
  ASSUME TypeOK, [Next]_vars
  PROVE  TypeOK'
<1> USE DEF TypeOK
<1>1. todo \in Seq(Write) /\ (todo' \in Seq(Write) => todo' \in Seq(Cells \X Byte))
  BY DEF Write
<1>2. <<>> \in Seq(Write)
  OBVIOUS
<1>3. UNCHANGED card => CardOK'
  BY DEF CardOK
<1>19. CountEvent => events' \in 0..MaxEvents
  BY EventsAreCounted DEF CountEvent
<1>4. CASE ReadEEPROM
  BY <1>3, <1>4, FromEEPROM DEF ReadEEPROM
<1>5. CASE OpenConfig
  <2>1. g' \in GlobalsType
    BY <1>5 DEF OpenConfig, GlobalsType
  <2>2. source' \in Forms \cup {NoForm, Foreign}
    BY <1>5 DEF OpenConfig, CardOK
  <2> QED BY <1>3, <1>5, <2>1, <2>2 DEF OpenConfig, environment
<1>6. CASE LineEnd
  <2>1. \A b \in Byte : (b + 1) % 256 \in Byte
    BY DEF Byte
  <2>2. l \in LocalsType /\ l.position + 1 \in Nat
        /\ l.paramCount \in Byte /\ (l.paramCount + 1) % 256 \in Byte
    BY <2>1 DEF LocalsType
  <2> DEFINE c == IF l.lastCR THEN l.paramCount ELSE (l.paramCount + 1) % 256
             q == l.position + 1
  <2>3. c \in Byte /\ q \in Nat
    BY <2>2
  <2>4. l' = [l EXCEPT !.paramCount = c, !.lastCR = TRUE, !.position = q, !.cached = TRUE]
    BY <1>6 DEF LineEnd, LineEnded
  <2> HIDE DEF c, q
  <2>5. l' \in LocalsType
    BY <2>2, <2>3, <2>4 DEF LocalsType
  <2> QED BY <1>3, <1>6, <2>5 DEF LineEnd, environment
<1>7. CASE ConfigChar
  BY <1>1, <1>3, <1>7, CharKeepsTypes DEF ConfigChar, environment
<1>8. CASE ReadFails
  <2>4. 255 \in Byte
    BY DEF Byte
  <2>1. Code(255) \in Byte /\ l.baudA \in Byte
    BY <2>4, CharTyped DEF LocalsType
  <2>5. l' \in LocalsType
    <3> DEFINE b == Code(255)
    <3>1. l' = [l EXCEPT !.lastCR = FALSE, !.baudA = b] /\ b \in Byte
      BY <1>8, <2>1 DEF ReadFails
    <3> HIDE DEF b
    <3>2. l \in LocalsType
      OBVIOUS
    <3> QED BY <3>1, <3>2 DEF LocalsType
  <2>6. g' \in GlobalsType
    BY <1>8 DEF ReadFails, GlobalsType
  <2>2. l' \in LocalsType /\ g' \in GlobalsType
    BY <2>5, <2>6
  <2>3. todo' \in Seq(Write)
    BY <1>8, <2>1, CellNumbers, WritesTyped, WritesJoined DEF ReadFails
  <2> QED BY <1>1, <1>3, <1>8, <2>2, <2>3 DEF ReadFails, environment
<1>9. CASE EEPROMWrite
  <2>1. todo[1] \in Write /\ Tail(todo) \in Seq(Write)
    BY <1>1, <1>9 DEF EEPROMWrite
  <2>2. todo[1][1] \in Cells /\ todo[1][2] \in Byte
    BY <2>1 DEF Write
  <2> QED BY <1>1, <1>3, <1>9, <2>1, <2>2 DEF EEPROMWrite, environment
<1>10. CASE CloseConfig
  BY <1>3, <1>10 DEF CloseConfig, environment
<1>11. CASE Outputs
  <2>1. g' \in GlobalsType
    BY <1>11 DEF Outputs, GlobalsType
  <2> QED BY <1>3, <1>11, <2>1 DEF Outputs, environment
<1>12. CASE RemoveCnf
  <2>1. CardOK'
    BY <1>3, <1>12, CardsAreKnown DEF RemoveCnf
  <2> QED BY <1>12, <2>1 DEF RemoveCnf
<1>13. CASE WriteCnf
  <2>1. CardOK'
    BY <1>3, <1>13, CardsAreKnown DEF WriteCnf
  <2> QED BY <1>13, <2>1 DEF WriteCnf
<1>14. CASE OpenPorts
  <2>2. \A i \in 1..5 : BAUDRATES[i] \in Nat
    BY DEF BAUDRATES
  <2>3. /\ Closed \in PortType /\ [baud |-> 4800, bits |-> 9] \in PortType
        /\ \A i \in 1..5 : [baud |-> BAUDRATES[i], bits |-> 8] \in PortType
    BY <2>2 DEF Closed, PortType
  <2>4. \A i \in 1..3 : i \in 1..5
    OBVIOUS
  <2> DEFINE openA == l.baudA \in 1..5
             openB == l.baudB \in 1..3
             asA == IF g.seatalkActive
                    THEN [baud |-> 4800, bits |-> 9]
                    ELSE [baud |-> BAUDRATES[l.baudA], bits |-> 8]
             asB == [baud |-> BAUDRATES[l.baudB], bits |-> 8]
             a == IF openA THEN asA ELSE Closed
             b == IF openB THEN asB ELSE Closed
  <2>5. a \in PortType /\ b \in PortType
    <3>1. openA => [baud |-> BAUDRATES[l.baudA], bits |-> 8] \in PortType
      BY <2>3
    <3>2. openB => asB \in PortType
      BY <2>3, <2>4
    <3>3. openA => asA \in PortType
      BY <2>3, <3>1
    <3> HIDE DEF openA, openB, asA, asB
    <3> QED BY <2>3, <3>2, <3>3
  <2>6. g' = [g EXCEPT !.firstSerial = @ \/ openA, !.secondSerial = @ \/ openB,
                       !.port = [A |-> a, B |-> b]]
    BY <1>14 DEF OpenPorts
  <2>7. openA \in BOOLEAN /\ openB \in BOOLEAN
    OBVIOUS
  <2> HIDE DEF openA, openB, a, b
  <2>8. [A |-> a, B |-> b] \in [{"A", "B"} -> PortType]
    BY <2>5
  <2>9. (g.firstSerial \/ openA) \in BOOLEAN /\ (g.secondSerial \/ openB) \in BOOLEAN
    OBVIOUS
  <2>1. g' \in GlobalsType
    BY <2>6, <2>8, <2>9 DEF GlobalsType
  <2> QED BY <1>3, <1>14, <2>1 DEF OpenPorts, environment
<1>15. CASE PowerCut
  <2>1. todo # <<>> => todo[1][1] \in Cells
    BY <1>1 DEF Write
  <2>2. Erased \in Byte
    BY DEF Erased, Byte
  <2>3. eeprom' \in [Cells -> Byte]
    BY <1>15, <2>1, <2>2 DEF PowerCut
  <2> QED BY <1>1, <1>2, <1>3, <1>15, <1>19, <2>3 DEF PowerCut
<1>16. CASE CardPulled
  BY <1>3, <1>16, <1>19 DEF CardPulled
<1>17. CASE ChangeCard
  <2>1. CardOK'
    BY <1>17, CardsAreKnown DEF ChangeCard
  <2> QED BY <1>17, <2>1, <1>19 DEF ChangeCard
<1>18. CASE UNCHANGED vars
  BY <1>3, <1>18 DEF vars, environment
<1> QED BY <1>4, <1>5, <1>6, <1>7, <1>8, <1>9, <1>10, <1>11, <1>12, <1>13, <1>14,
           <1>15, <1>16, <1>17, <1>18 DEF Next, Program

-----------------------------------------------------------------------------
(***************************************************************************)
(* The file is followed.                                                   *)
(***************************************************************************)

\* The form of this start is the same before and after a step of the reading.
LEMMA SameForm ==
  ASSUME NEW f, source = f, source' = f
  PROVE  /\ \A k, j : ReadUpTo(source, k, j)' <=> ReadUpTo(f, k, j)'
         /\ \A k : Agrees(source, k)' <=> Agrees(f, k)'
         /\ ReadSoFar(source) <=> ReadSoFar(f)
         /\ \A k : Agrees(source, k) <=> Agrees(f, k)
         /\ (\E k \in 1..4, j \in 0..2 : ReadUpTo(f, k, j)' /\ Agrees(f, k)')
              => ReadSoFar(source)'
<1>1. ASSUME NEW k, NEW j PROVE ReadUpTo(source, k, j)' <=> ReadUpTo(f, k, j)'
  BY DEF ReadUpTo, EndOf, EolLen
<1>2. ASSUME NEW k PROVE Agrees(source, k)' <=> Agrees(f, k)'
  BY DEF Agrees
<1>3. (\E k \in 1..4, j \in 0..2 : ReadUpTo(f, k, j)' /\ Agrees(f, k)')
        => ReadSoFar(source)'
  BY <1>1, <1>2 DEF ReadSoFar
<1>4. ReadSoFar(source) <=> ReadSoFar(f)
  OBVIOUS
<1> QED BY <1>1, <1>2, <1>3, <1>4

\* While config.dat of a form is read, its text is that of the form.
LEMMA TextOfForm ==
  ASSUME TypeOK, FollowsFile, pc = "parse", source \in Forms
  PROVE  /\ card.text = Download(source) /\ l \in LocalsType /\ g \in GlobalsType
         /\ ReadSoFar(source) \/ Stuck
BY NotForms DEF TypeOK, CardOK, FollowsFile

\* At its end all of it has been taken.
LEMMA ReadToTheEnd ==
  ASSUME NEW f \in Forms, card.text = Download(f), l \in LocalsType,
         ReadSoFar(f) \/ Stuck, ~l.cached => l.position = 0,
         l.position >= Len(card.text)
  PROVE  Agrees(f, 4)
<1> DEFINE L == Len(card.text)
           p == l.position
<1>1. L = EndOf(f, 4) + EolLen(f) /\ L \in Nat /\ L > 0 /\ p \in Nat /\ p >= L
  <2>1. L = EndOf(f, 4) + EolLen(f) /\ p \in Nat /\ p >= L
    BY DownloadIs DEF LocalsType
  <2>2. EndOf(f, 4) \in Nat \ {0} /\ EolLen(f) \in 1..2
    BY EndsInTurn
  <2> HIDE DEF L, p
  <2> QED BY <2>1, <2>2
<1>2. p # 0
  <2> HIDE DEF p, L
  <2> QED BY <1>1
<1>3. ~Stuck /\ ~NothingRead
  BY <1>2 DEF Stuck, NothingRead
<1>4. PICK k \in 1..4, j \in 0..2 : ReadUpTo(f, k, j) /\ Agrees(f, k)
  BY <1>3 DEF ReadSoFar
<1>5. k \notin 1..3
  <2>1. SUFFICES ASSUME k \in 1..3 PROVE FALSE
    OBVIOUS
  <2>2. EndOf(f, k) + j + 1 <= L
    BY <1>1, <2>1, EndsInTurn
  <2>3. p = EndOf(f, k) + j /\ EndOf(f, k) \in Nat
    BY <1>4, EndsInTurn DEF ReadUpTo
  <2> HIDE DEF p, L
  <2> QED BY <1>1, <2>2, <2>3
<1>6. k = 4
  BY <1>5
<1> QED BY <1>4, <1>6

\* Every step follows the file.
LEMMA FollowsKept ==
  ASSUME TypeOK, FollowsFile, [Next]_vars
  PROVE  FollowsFile'
<1>1. /\ ~l.cached => l.position = 0
      /\ pc # "parse" => todo = <<>>
      /\ l \in LocalsType /\ g \in GlobalsType
  BY DEF FollowsFile, TypeOK
\* What a step leaves alone that does not read.
<1>2. ASSUME UNCHANGED <<l, g, source>>, pc' \in After, pc \in After, todo' = <<>>
      PROVE  FollowsFile'
  <2>1. PICK f : f = source
    OBVIOUS
  <2>2. source \in Forms => Agrees(source, 4)
    BY <1>2 DEF FollowsFile
  <2>3. Agrees(f, 4) => Agrees(f, 4)'
    BY <1>2 DEF Agrees
  <2>4. source' \in Forms => Agrees(source, 4)'
    BY <1>2, <2>1, <2>2, <2>3, SameForm
  <2> QED BY <1>1, <1>2, <2>4 DEF FollowsFile, After
<1>3. CASE ReadEEPROM
  <2>1. /\ l'.position = 0 /\ l'.paramCount = 1 /\ ~l'.lastCR /\ ~l'.cached
        /\ l'.seatalk = eeprom[EEPROM_SEATALK]
    BY <1>3 DEF ReadEEPROM, LocalsFrom
  <2> QED BY <1>1, <1>3, <2>1 DEF ReadEEPROM, FollowsFile, NothingRead, After
<1>4. CASE OpenConfig
  <2>1. NothingRead /\ source = NoForm
    BY <1>4 DEF OpenConfig, FollowsFile
  <2>2. NothingRead'
    BY <1>4, <2>1 DEF OpenConfig, NothingRead
  <2>3. CASE pc' = "parse"
    BY <1>1, <1>4, <2>2, <2>3 DEF OpenConfig, FollowsFile, ReadSoFar, environment, After
  <2>4. CASE pc' = "outputs"
    <3>1. source' = NoForm
      BY <1>4, <2>1, <2>4 DEF OpenConfig
    <3> QED BY <1>1, <1>4, <2>4, <3>1, NotForms DEF OpenConfig, FollowsFile, After
  <2> QED BY <1>4, <2>3, <2>4 DEF OpenConfig
<1>5. CASE LineEnd
  <2>1. /\ pc = "parse" /\ ReadSucceeds /\ UNCHANGED <<pc, card, source>>
        /\ l' = LineEnded(l)
    BY <1>5 DEF LineEnd, Parsing, environment
  <2>2. l'.cached
    BY <1>1, <2>1 DEF LineEnded, LocalsType
  <2>3. source \in Forms => ReadSoFar(source)'
    <3>1. SUFFICES ASSUME source \in Forms PROVE ReadSoFar(source)'
      OBVIOUS
    <3>2. PICK f \in Forms : f = source
      BY <3>1
    <3>3. card.text = Download(f) /\ ReadSoFar(f)
      BY <2>1, <3>2, TextOfForm DEF Stuck, ReadSucceeds
    <3>4. \E k \in 1..4, j \in 0..2 : ReadUpTo(f, k, j)' /\ Agrees(f, k)'
      BY <1>1, <1>5, <3>3, LineEndTaken
    <3> QED BY <2>1, <3>2, <3>4, SameForm
  <2> QED BY <2>1, <2>2, <2>3 DEF FollowsFile, After
<1>6. CASE ConfigChar
  <2>1. /\ pc = "parse" /\ ReadSucceeds /\ UNCHANGED <<pc, card, source>>
    BY <1>6 DEF ConfigChar, Parsing, environment
  <2>2. l'.cached
    <3>1. \A n : Advanced(n).cached /\ "cached" \in DOMAIN Advanced(n)
                 /\ "baudA" # "cached"
      BY <1>1 DEF Advanced, LocalsType
    <3> QED BY <1>6, <1>1 DEF ConfigChar, Parameter1, Parameter2, Parameter3, Parameter4,
                     Advanced, LocalsType
  <2>3. source \in Forms => ReadSoFar(source)'
    <3>1. SUFFICES ASSUME source \in Forms PROVE ReadSoFar(source)'
      OBVIOUS
    <3>2. PICK f \in Forms : f = source
      BY <3>1
    <3>3. card.text = Download(f) /\ ReadSoFar(f)
      BY <2>1, <3>2, TextOfForm DEF Stuck, ReadSucceeds
    <3>4. PICK k \in 1..4 :
            /\ Takes(f, k)
            /\ k > 1 => ReadUpTo(f, k - 1, EolLen(f)) /\ Agrees(f, k - 1)
      BY <1>1, <1>6, <3>3, TakesInTurn
    <3>5. ReadUpTo(f, k, IF k = 4 THEN 1 ELSE 0)' /\ Agrees(f, k)'
      BY <1>1, <3>4, Taken
    <3>6. (IF k = 4 THEN 1 ELSE 0) \in 0..2
      OBVIOUS
    <3> QED BY <2>1, <3>2, <3>5, <3>6, SameForm
  <2> QED BY <2>1, <2>2, <2>3 DEF FollowsFile, After
<1>7. CASE ReadFails
  <2>1. /\ pc = "parse" /\ ~l.cached /\ ~mounted /\ UNCHANGED <<pc, card, mounted, source>>
        /\ l' = [l EXCEPT !.lastCR = FALSE, !.baudA = Code(255)]
    BY <1>7 DEF ReadFails, Parsing, ReadSucceeds, environment
  <2>2. l'.cached = l.cached /\ l'.position = l.position
    BY <1>1, <2>1 DEF LocalsType
  <2> QED BY <1>1, <2>1, <2>2 DEF FollowsFile, Stuck, After
<1>8. CASE EEPROMWrite
  <2>1. /\ pc = "parse" /\ todo # <<>> /\ UNCHANGED <<pc, l, g, card, mounted, source>>
    BY <1>8 DEF EEPROMWrite, environment
  <2>2. source \in Forms => ReadSoFar(source)' \/ Stuck'
    <3>1. SUFFICES ASSUME source \in Forms, ~Stuck PROVE ReadSoFar(source)'
      BY <2>1 DEF Stuck
    <3>2. PICK f \in Forms : f = source
      BY <3>1
    <3>3. ReadSoFar(f) /\ ~NothingRead
      BY <2>1, <3>1, <3>2, TextOfForm DEF NothingRead
    <3>4. PICK k \in 1..4, j \in 0..2 : ReadUpTo(f, k, j) /\ Agrees(f, k)
      BY <3>3 DEF ReadSoFar
    <3>5. ReadUpTo(f, k, j)' /\ Agrees(f, k)'
      BY <2>1, <3>4 DEF ReadUpTo, Agrees
    <3> QED BY <2>1, <3>2, <3>5, SameForm
  <2> QED BY <1>1, <2>1, <2>2 DEF FollowsFile, After
<1>9. CASE CloseConfig
  <2>1. /\ pc = "parse" /\ todo = <<>> /\ l.position >= Len(card.text)
        /\ pc' = "outputs" /\ UNCHANGED <<todo, l, g, card, source>>
    BY <1>9 DEF CloseConfig, environment
  <2>2. source \in Forms => Agrees(source, 4)'
    <3>1. SUFFICES ASSUME source \in Forms PROVE Agrees(source, 4)'
      OBVIOUS
    <3>2. PICK f \in Forms : f = source
      BY <3>1
    <3>3. Agrees(f, 4)
      BY <1>1, <2>1, <3>2, TextOfForm, ReadToTheEnd
    <3>4. Agrees(f, 4)'
      BY <2>1, <3>3 DEF Agrees
    <3> QED BY <2>1, <3>2, <3>4, SameForm
  <2> QED BY <1>1, <2>1, <2>2 DEF FollowsFile, After
<1>10. CASE Outputs
  <2>1. /\ pc \in After /\ pc' \in After /\ pc # "parse" /\ pc' # "parse" /\ pc' # "open"
        /\ UNCHANGED <<l, source, todo>>
    BY <1>10 DEF Outputs, After
  <2>2. g'.seatalkActive = g.seatalkActive
    BY <1>1, <1>10 DEF Outputs, GlobalsType
  <2> QED BY <1>1, <2>1, <2>2 DEF FollowsFile, Agrees
<1>11. CASE RemoveCnf
  BY <1>1, <1>2, <1>11 DEF RemoveCnf, After
<1>12. CASE WriteCnf
  BY <1>1, <1>2, <1>12 DEF WriteCnf, After
<1>13. CASE OpenPorts
  <2>1. /\ pc \in After /\ pc' \in After /\ pc # "parse" /\ pc' # "parse" /\ pc' # "open"
        /\ UNCHANGED <<l, source, todo>>
    BY <1>13 DEF OpenPorts, After
  <2>2. g'.seatalkActive = g.seatalkActive
    BY <1>1, <1>13 DEF OpenPorts, GlobalsType
  <2> QED BY <1>1, <2>1, <2>2 DEF FollowsFile, Agrees
<1>14. CASE PowerCut
  BY <1>1, <1>14 DEF PowerCut, FollowsFile, After
<1>18. ASSUME UNCHANGED <<pc, eeprom, todo, l, g, card, source>>, Stuck => Stuck'
       PROVE  FollowsFile'
  <2>1. \A k, j : ReadUpTo(source, k, j)' <=> ReadUpTo(source, k, j)
    BY <1>18 DEF ReadUpTo, EndOf, EolLen
  <2>2. \A k : Agrees(source, k)' <=> Agrees(source, k)
    BY <1>18 DEF Agrees
  <2>3. NothingRead' <=> NothingRead
    BY <1>18 DEF NothingRead
  <2>4. ReadSoFar(source)' <=> ReadSoFar(source)
    BY <2>1, <2>2, <2>3 DEF ReadSoFar
  <2> QED BY <1>18, <2>2, <2>3, <2>4 DEF FollowsFile
<1>15. CASE CardPulled
  BY <1>15, <1>18 DEF CardPulled, Stuck
<1>16. CASE ChangeCard
  BY <1>1, <1>16 DEF ChangeCard, FollowsFile, After
<1>17. CASE UNCHANGED vars
  BY <1>17, <1>18 DEF vars, environment, Stuck
<1> QED BY <1>3, <1>4, <1>5, <1>6, <1>7, <1>8, <1>9, <1>10, <1>11, <1>12, <1>13, <1>14,
           <1>15, <1>16, <1>17 DEF Next, Program

-----------------------------------------------------------------------------
(***************************************************************************)
(* The parameters are used.                                                *)
(***************************************************************************)

\* A step that leaves the outputs and the ports alone.
LEMMA UsesAlone ==
  ASSUME UsesParameters,
         UNCHANGED <<pc, source, l.outputs, l.baudA, l.baudB, g>>
  PROVE  UsesParameters'
BY DEF UsesParameters, OutputsFrom, PortFor

\* A character changes no more of the globals than the flag.
LEMMA CharGlobals ==
  ASSUME ConfigChar \/ ReadFails, g \in GlobalsType
  PROVE  /\ g'.outputVcc = g.outputVcc /\ g'.outputGyro = g.outputGyro
         /\ g'.firstSerial = g.firstSerial /\ g'.secondSerial = g.secondSerial
         /\ g'.port = g.port
<1>1. \/ g' = g \/ \E x \in BOOLEAN : g' = [g EXCEPT !.seatalkActive = x]
  BY DEF ConfigChar, ReadFails, Parameter1, Parameter2, Parameter3, Parameter4
<1> QED BY <1>1 DEF GlobalsType

\* Every step makes of the parameters what it should.
LEMMA UsesKept ==
  ASSUME TypeOK, FollowsFile, UsesParameters, [Next]_vars
  PROVE  UsesParameters'
<1>1. l \in LocalsType /\ g \in GlobalsType /\ CardOK
  BY DEF TypeOK
<1>2. CASE ReadEEPROM
  <2>1. ~g'.outputVcc /\ g'.outputGyro /\ g'.firstSerial /\ g'.secondSerial
    BY <1>2 DEF ReadEEPROM, GlobalsFrom
  <2> QED BY <1>2, <2>1 DEF ReadEEPROM, UsesParameters
<1>3. CASE OpenConfig
  <2>1. ~g.outputVcc /\ g.outputGyro /\ source = NoForm /\ g.firstSerial /\ g.secondSerial
    BY <1>3 DEF OpenConfig, UsesParameters, FollowsFile
  <2>2. CASE pc' = "parse"
    <3>1. /\ ~g'.firstSerial /\ ~g'.secondSerial /\ ~g'.outputVcc /\ g'.outputGyro
      BY <1>1, <1>3, <2>1, <2>2 DEF OpenConfig, GlobalsType
    <3>2. source' = card.form /\ card.text # NoText
      BY <1>3, <2>2 DEF OpenConfig
    <3>3. source' # NoForm
      BY <1>1, <3>2, NotForms DEF CardOK
    <3> QED BY <2>2, <3>1, <3>3 DEF UsesParameters
  <2>3. CASE pc' = "outputs"
    <3>1. g' = g /\ source' = source
      BY <1>3, <2>3 DEF OpenConfig
    <3> QED BY <2>1, <2>3, <3>1 DEF UsesParameters
  <2> QED BY <1>3, <2>2, <2>3 DEF OpenConfig
<1>4. CASE LineEnd
  <2>1. pc = "parse" /\ UNCHANGED <<pc, source, g>>
    BY <1>4 DEF LineEnd, Parsing
  <2> QED BY <2>1 DEF UsesParameters
<1>5. CASE ConfigChar \/ ReadFails
  <2>1. pc = "parse" /\ UNCHANGED <<pc, source>>
    BY <1>5 DEF ConfigChar, ReadFails, Parsing
  <2> QED BY <1>1, <1>5, <2>1, CharGlobals DEF UsesParameters
<1>6. CASE EEPROMWrite
  BY <1>6, UsesAlone DEF EEPROMWrite
<1>7. CASE CloseConfig
  BY <1>7 DEF CloseConfig, UsesParameters
<1>8. CASE Outputs
  <2>1. ~g.outputVcc /\ g.outputGyro
    BY <1>8 DEF Outputs, UsesParameters
  <2>2. /\ g'.firstSerial = g.firstSerial /\ g'.secondSerial = g.secondSerial
    BY <1>1, <1>8 DEF Outputs, GlobalsType
  <2>3. CASE l.outputs < 128
    <3>1. /\ g'.outputVcc = (l.outputs % 2 = 1)
          /\ g'.outputGyro = ((l.outputs \div 2) % 2 = 1)
      BY <1>1, <1>8, <2>3 DEF Outputs, GlobalsType
    <3>2. l' = l
      BY <1>8 DEF Outputs
    <3>3. OutputsFrom(l.outputs)'
      BY <2>3, <3>1, <3>2 DEF OutputsFrom
    <3> QED BY <1>8, <2>2, <3>3 DEF Outputs, UsesParameters
  <2>4. CASE ~(l.outputs < 128)
    <3>1. g' = g /\ l' = l
      BY <1>8, <2>4 DEF Outputs
    <3>2. OutputsFrom(l.outputs)'
      BY <2>1, <2>4, <3>1 DEF OutputsFrom
    <3> QED BY <1>8, <2>2, <3>2 DEF Outputs, UsesParameters
  <2> QED BY <2>3, <2>4
<1>9. CASE RemoveCnf \/ WriteCnf
  <2>1. /\ pc \in {"remove", "cnf"} /\ pc' \in {"cnf", "ports"}
        /\ UNCHANGED <<l, g, source>>
    BY <1>9 DEF RemoveCnf, WriteCnf
  <2>2. OutputsFrom(l.outputs)'
    BY <2>1 DEF UsesParameters, OutputsFrom
  <2> QED BY <2>1, <2>2 DEF UsesParameters
<1>10. CASE OpenPorts
  <2> DEFINE a == PortFor(l.baudA, 5, g.seatalkActive)
             b == PortFor(l.baudB, 3, FALSE)
             fs == g.firstSerial \/ l.baudA \in 1..5
             ss == g.secondSerial \/ l.baudB \in 1..3
  <2>1. g' = [g EXCEPT !.firstSerial = fs, !.secondSerial = ss,
                       !.port = [A |-> a, B |-> b]]
    <3> DEFINE openA == l.baudA \in 1..5
               openB == l.baudB \in 1..3
               asA == IF g.seatalkActive
                      THEN [baud |-> 4800, bits |-> 9]
                      ELSE [baud |-> BAUDRATES[l.baudA], bits |-> 8]
               asB == [baud |-> BAUDRATES[l.baudB], bits |-> 8]
               pa == IF openA THEN asA ELSE Closed
               pb == IF openB THEN asB ELSE Closed
    <3>1. g' = [g EXCEPT !.firstSerial = @ \/ openA, !.secondSerial = @ \/ openB,
                         !.port = [A |-> pa, B |-> pb]]
      BY <1>10 DEF OpenPorts
    <3>2. pa = a
      BY DEF PortFor
    <3>3. pb = b
      BY DEF PortFor
    <3> HIDE DEF pa, pb, a, b
    <3> QED BY <3>1, <3>2, <3>3
  <2>2. /\ pc = "ports" /\ pc' = "run" /\ UNCHANGED <<l, source>>
    BY <1>10 DEF OpenPorts
  <2>3. /\ g.firstSerial <=> source = NoForm
        /\ g.secondSerial <=> source = NoForm
        /\ OutputsFrom(l.outputs)
    BY <2>2 DEF UsesParameters
  <2> HIDE DEF a, b, fs, ss
  <2>4. /\ g'.firstSerial = fs /\ g'.secondSerial = ss /\ g'.port = [A |-> a, B |-> b]
        /\ g'.outputVcc = g.outputVcc /\ g'.outputGyro = g.outputGyro
        /\ g'.seatalkActive = g.seatalkActive
    BY <1>1, <2>1 DEF GlobalsType
  <2>5. OutputsFrom(l.outputs)'
    BY <2>2, <2>3, <2>4 DEF OutputsFrom
  <2>6. g'.port = [A |-> PortFor(l'.baudA, 5, g'.seatalkActive),
                   B |-> PortFor(l'.baudB, 3, FALSE)]
    BY <2>2, <2>4 DEF a, b
  <2>7. /\ g'.firstSerial <=> source' = NoForm \/ l'.baudA \in 1..5
        /\ g'.secondSerial <=> source' = NoForm \/ l'.baudB \in 1..3
    BY <2>2, <2>3, <2>4 DEF fs, ss
  <2> QED BY <2>2, <2>5, <2>6, <2>7 DEF UsesParameters
<1>11. CASE PowerCut
  BY <1>11 DEF PowerCut, UsesParameters
<1>12. CASE CardPulled \/ ChangeCard \/ UNCHANGED vars
  BY <1>12, UsesAlone DEF CardPulled, ChangeCard, vars
<1> QED BY <1>2, <1>3, <1>4, <1>5, <1>6, <1>7, <1>8, <1>9, <1>10, <1>11, <1>12
        DEF Next, Program

\* What is used is what the form says.
LEMMA UsedAsSaid ==
  ASSUME TypeOK, FollowsFile, UsesParameters
  PROVE  RunsAsTheFormSays
<1> SUFFICES ASSUME pc = "run", source \in Forms
             PROVE  /\ g.port["A"] = PortFor(source.baudA, 5, source.seatalk)
                    /\ g.port["B"] = PortFor(source.baudB, 3, FALSE)
                    /\ g.firstSerial <=> g.port["A"] # Closed
                    /\ g.secondSerial <=> g.port["B"] # Closed
                    /\ g.seatalkActive = source.seatalk
                    /\ g.outputVcc <=> source.outputs \in {1, 3}
                    /\ g.outputGyro <=> source.outputs \in {2, 3}
                    /\ l.vesselID = source.vessel
  BY DEF RunsAsTheFormSays
<1>1. Agrees(source, 4)
  BY DEF FollowsFile, After
<1>2. /\ l.baudA = source.baudA /\ g.seatalkActive = source.seatalk
      /\ l.baudB = source.baudB /\ l.outputs = source.outputs
      /\ l.vesselID = source.vessel
  BY <1>1 DEF Agrees
<1>3. /\ g.port = [A |-> PortFor(l.baudA, 5, g.seatalkActive),
                   B |-> PortFor(l.baudB, 3, FALSE)]
      /\ g.firstSerial <=> source = NoForm \/ l.baudA \in 1..5
      /\ g.secondSerial <=> source = NoForm \/ l.baudB \in 1..3
      /\ OutputsFrom(l.outputs)
  BY DEF UsesParameters
<1>4. /\ g.port["A"] = PortFor(source.baudA, 5, source.seatalk)
      /\ g.port["B"] = PortFor(source.baudB, 3, FALSE)
  BY <1>2, <1>3
<1>5. \A x, y, nine : PortFor(x, y, nine) # Closed <=> x \in 1..y
  BY DEF PortFor, Closed
<1>6. source # NoForm
  BY NotForms
<1>7. /\ g.firstSerial <=> g.port["A"] # Closed
      /\ g.secondSerial <=> g.port["B"] # Closed
  <2>1. g.firstSerial <=> source.baudA \in 1..5
    BY <1>2, <1>3, <1>6
  <2>2. g.secondSerial <=> source.baudB \in 1..3
    BY <1>2, <1>3, <1>6
  <2>3. (g.port["A"] # Closed <=> source.baudA \in 1..5)
        /\ (g.port["B"] # Closed <=> source.baudB \in 1..3)
    BY <1>4, <1>5, Zenon
  <2> QED BY <2>1, <2>2, <2>3, Zenon
<1>8. \A o \in 0..3 : /\ (o < 128 /\ o % 2 = 1) <=> o \in {1, 3}
                      /\ (o < 128 => (o \div 2) % 2 = 1) <=> o \in {2, 3}
  <2>1. \A o \in 0..3 : o \in {0, 1, 2, 3}
    OBVIOUS
  <2>2. /\ 0 % 2 = 0 /\ 1 % 2 = 1 /\ 2 % 2 = 0 /\ 3 % 2 = 1
        /\ 0 \div 2 = 0 /\ 1 \div 2 = 0 /\ 2 \div 2 = 1 /\ 3 \div 2 = 1
    OBVIOUS
  <2> QED BY <2>1, <2>2
<1>9. source.outputs \in 0..3
  BY FormFields
<1>10. /\ g.outputVcc <=> source.outputs \in {1, 3}
       /\ g.outputGyro <=> source.outputs \in {2, 3}
  BY <1>2, <1>3, <1>8, <1>9, Zenon DEF OutputsFrom
<1> QED BY <1>2, <1>4, <1>7, <1>10

-----------------------------------------------------------------------------
(***************************************************************************)
(* What is used is what the cells will hold.                               *)
(***************************************************************************)

\* The writes q are of u, unless that is none, and of w, unless that is none.
Holds(q, hasU, u, hasW, w) ==
  /\ \A i \in DOMAIN q : (hasU /\ q[i] = u) \/ (hasW /\ q[i] = w)
  /\ \A i, j \in DOMAIN q : q[i][1] = q[j][1] => i = j
  /\ hasU => \E i \in DOMAIN q : q[i] = u
  /\ hasW => \E i \in DOMAIN q : q[i] = w

\* Two writes, of which none, one or both come.
LEMMA PairHolds ==
  ASSUME NEW u \in Write, NEW w \in Write, u[1] # w[1],
         NEW hasU \in BOOLEAN, NEW hasW \in BOOLEAN,
         NEW s, s = IF hasU THEN <<u>> ELSE <<>>,
         NEW t, t = IF hasW THEN <<w>> ELSE <<>>
  PROVE  Holds(s \o t, hasU, u, hasW, w)
<1>1. CASE hasU /\ hasW
  <2>1. s \in Seq(Write) /\ Len(s) = 1 /\ s[1] = u
    BY <1>1
  <2>2. t \in Seq(Write) /\ Len(t) = 1 /\ t[1] = w
    BY <1>1
  <2> DEFINE q == s \o t
  <2>3. Len(q) = 2 /\ q[1] = u /\ q[2] = w /\ DOMAIN q = 1..Len(q)
    BY <2>1, <2>2
  <2>4. \A i \in 1..2 : i = 1 \/ i = 2
    OBVIOUS
  <2>5. DOMAIN q = 1..2 /\ 1 \in 1..2 /\ 2 \in 1..2
    BY <2>3
  <2> HIDE DEF q
  <2>6. Holds(q, hasU, u, hasW, w)
    BY <1>1, <2>3, <2>4, <2>5 DEF Holds
  <2> QED BY <2>6 DEF q
<1>2. CASE hasU /\ ~hasW
  <2>1. s \o t = <<u>>
    BY <1>2
  <2>2. DOMAIN <<u>> = {1} /\ <<u>>[1] = u
    OBVIOUS
  <2> QED BY <1>2, <2>1, <2>2 DEF Holds
<1>3. CASE ~hasU /\ hasW
  <2>1. s \o t = <<w>>
    BY <1>3
  <2>2. DOMAIN <<w>> = {1} /\ <<w>>[1] = w
    OBVIOUS
  <2> QED BY <1>3, <2>1, <2>2 DEF Holds
<1>4. CASE ~hasU /\ ~hasW
  <2>1. s \o t = <<>>
    BY <1>4
  <2>2. DOMAIN <<>> = {}
    OBVIOUS
  <2> QED BY <1>4, <2>1, <2>2 DEF Holds
<1> QED BY <1>1, <1>2, <1>3, <1>4

\* One write or none.
LEMMA OneHolds ==
  ASSUME NEW u \in Write, NEW w, NEW hasU \in BOOLEAN
  PROVE  Holds(IF hasU THEN <<u>> ELSE <<>>, hasU, u, FALSE, w)
<1>1. DOMAIN <<u>> = {1} /\ <<u>>[1] = u /\ DOMAIN <<>> = {}
  OBVIOUS
<1>2. CASE hasU
  BY <1>1, <1>2 DEF Holds
<1>3. CASE ~hasU
  BY <1>1, <1>3 DEF Holds
<1> QED BY <1>2, <1>3

\* What the first parameter writes.
SeatalkWrite(active) == <<EEPROM_SEATALK, IF active THEN 1 ELSE 0>>
SeatalkDiffers(active) == l.seatalk > Hex06 \/ ~((l.seatalk > 0) <=> active)

\* The baud rate of port A if it differs, the flag if it does.
LEMMA FirstWrites ==
  ASSUME NEW active \in BOOLEAN, NEW new \in Byte, NEW old \in Byte
  PROVE  Holds(Changed(EEPROM_BAUD_A, new, old) \o SeatalkWrites(active),
               new # old, <<EEPROM_BAUD_A, new>>,
               SeatalkDiffers(active), SeatalkWrite(active))
<1>1. <<EEPROM_BAUD_A, new>> \in Write /\ SeatalkWrite(active) \in Write
  BY CellNumbers DEF Write, SeatalkWrite, Byte
<1>2. <<EEPROM_BAUD_A, new>>[1] # SeatalkWrite(active)[1]
  BY DEF SeatalkWrite, EEPROM_BAUD_A, EEPROM_SEATALK
<1>3. Changed(EEPROM_BAUD_A, new, old)
        = IF new # old THEN << <<EEPROM_BAUD_A, new>> >> ELSE <<>>
  BY DEF Changed
<1>4. SeatalkWrites(active)
        = IF SeatalkDiffers(active) THEN << SeatalkWrite(active) >> ELSE <<>>
  BY DEF SeatalkWrites, SeatalkWrite, SeatalkDiffers
<1>5. (new # old) \in BOOLEAN /\ SeatalkDiffers(active) \in BOOLEAN
  BY DEF SeatalkDiffers
<1> QED BY <1>1, <1>2, <1>3, <1>4, <1>5, PairHolds, Zenon

\* The cell of a later parameter, if it differs.
LEMMA OtherWrites ==
  ASSUME NEW cell \in Cells, NEW new \in Byte, NEW old \in Byte, NEW w
  PROVE  Holds(Changed(cell, new, old), new # old, <<cell, new>>, FALSE, w)
<1>1. <<cell, new>> \in Write
  BY DEF Write
<1>2. Changed(cell, new, old) = IF new # old THEN << <<cell, new>> >> ELSE <<>>
  BY DEF Changed
<1> QED BY <1>1, <1>2, OneHolds, Zenon

\* The vessel has a cell for each byte.
LEMMA VesselWritesAre ==
  ASSUME NEW v
  PROVE  /\ DOMAIN VesselWrites(v) = 1..VesselBytes
         /\ \A k \in 1..VesselBytes : VesselWrites(v)[k] = <<VesselCell(k), v[k]>>
BY DEF VesselWrites

\* A character writes no cell twice, and the flag as 0 or 1.
LEMMA CharWrites ==
  ASSUME TypeOK, ConfigChar \/ ReadFails
  PROVE  /\ OnceEach'
         /\ \A i \in DOMAIN todo' : todo'[i][1] = EEPROM_SEATALK => todo'[i][2] \in {0, 1}
<1> DEFINE Fine(q) ==
      /\ \A i, j \in DOMAIN q : q[i][1] = q[j][1] => i = j
      /\ \A i \in DOMAIN q : q[i][1] = EEPROM_SEATALK => q[i][2] \in {0, 1}
<1>1. l \in LocalsType /\ CardOK /\ l.baudA \in Byte /\ l.baudB \in Byte /\ l.outputs \in Byte
  BY DEF TypeOK, LocalsType
<1>2. Code(Next1) \in Byte /\ Code(CharAt(l.position + 2)) \in Byte /\ Code(255) \in Byte
  <2>1. l.position + 1 \in Nat \ {0} /\ l.position + 2 \in Nat \ {0}
    BY <1>1 DEF LocalsType
  <2>2. 255 \in Byte
    BY DEF Byte
  <2> QED BY <1>1, <2>1, <2>2, CharTyped DEF Next1
<1>3. ASSUME NEW active \in BOOLEAN, NEW baud \in Byte
      PROVE  Fine(Changed(EEPROM_BAUD_A, baud, l.baudA) \o SeatalkWrites(active))
  <2> DEFINE q == Changed(EEPROM_BAUD_A, baud, l.baudA) \o SeatalkWrites(active)
  <2>1. Holds(q, baud # l.baudA, <<EEPROM_BAUD_A, baud>>,
              SeatalkDiffers(active), SeatalkWrite(active))
    BY <1>1, FirstWrites
  <2> HIDE DEF q
  <2>2. SeatalkWrite(active)[2] \in {0, 1} /\ <<EEPROM_BAUD_A, baud>>[1] # EEPROM_SEATALK
    BY DEF SeatalkWrite, EEPROM_BAUD_A, EEPROM_SEATALK
  <2>3. Fine(q)
    BY <2>1, <2>2 DEF Holds
  <2> QED BY <2>3 DEF q
<1>4. ASSUME NEW cell \in {EEPROM_BAUD_B, EEPROM_OUTPUT}, NEW new \in Byte, NEW old \in Byte
      PROVE  Fine(Changed(cell, new, old))
  <2> DEFINE q == Changed(cell, new, old)
  <2>1. Holds(q, new # old, <<cell, new>>, FALSE, 0)
    BY CellNumbers, OtherWrites
  <2> HIDE DEF q
  <2>2. <<cell, new>>[1] # EEPROM_SEATALK
    BY DEF EEPROM_BAUD_B, EEPROM_OUTPUT, EEPROM_SEATALK
  <2>3. Fine(q)
    BY <2>1, <2>2 DEF Holds
  <2> QED BY <2>3 DEF q
<1>5. ASSUME NEW v PROVE Fine(VesselWrites(v))
  <2> DEFINE q == VesselWrites(v)
  <2>1. DOMAIN q = 1..VesselBytes
        /\ \A k \in 1..VesselBytes : q[k] = <<VesselCell(k), v[k]>>
    BY VesselWritesAre
  <2> HIDE DEF q
  <2>2. \A k \in 1..VesselBytes : q[k][1] = VesselCell(k)
    BY <2>1
  <2>3. Fine(q)
    BY <2>1, <2>2, CellNumbers
  <2> QED BY <2>3 DEF q
<1>6. Fine(todo)
  <2>1. todo = <<>>
    BY DEF ConfigChar, ReadFails, Parsing
  <2>2. DOMAIN <<>> = {}
    OBVIOUS
  <2> QED BY <2>1, <2>2
<1>7. Fine(todo')
  <2>1. \/ \E active \in BOOLEAN, baud \in Byte :
             todo' = Changed(EEPROM_BAUD_A, baud, l.baudA) \o SeatalkWrites(active)
        \/ \E new \in Byte : todo' = Changed(EEPROM_BAUD_B, new, l.baudB)
        \/ \E new \in Byte : todo' = Changed(EEPROM_OUTPUT, new, l.outputs)
        \/ \E v : todo' = VesselWrites(v)
        \/ todo' = todo
    <3>1. CASE ReadFails
      BY <1>2, <3>1 DEF ReadFails
    <3>2. CASE ConfigChar
      <4>1. \/ Parameter1(TRUE, Code(CharAt(l.position + 2)), 2)
            \/ Parameter1(FALSE, Code(Next1), 1)
            \/ Parameter2(Code(Next1)) \/ Parameter3(Code(Next1)) \/ Parameter4
            \/ todo' = todo
        BY <3>2, Zenon DEF ConfigChar
      <4>2. Parameter4 => \E v : todo' = VesselWrites(v)
        BY DEF Parameter4
      <4> QED BY <1>2, <4>1, <4>2, Zenon DEF Parameter1, Parameter2, Parameter3
    <3> QED BY <3>1, <3>2
  <2> HIDE DEF Fine
  <2> QED BY <1>1, <1>3, <1>4, <1>5, <1>6, <2>1
<1> QED BY <1>7 DEF OnceEach

\* How Saved is shown of the next state, and taken from this one.
LEMMA SavedThen ==
  ASSUME NEW a \in Byte, Will(EEPROM_BAUD_A, a)', AcceptedA(a) = l'.baudA,
         NEW b \in Byte, Will(EEPROM_BAUD_B, b)', AcceptedB(b) = l'.baudB,
         NEW c \in Byte, Will(EEPROM_SEATALK, c)', g'.seatalkActive <=> c \in 1..5,
         NEW o, o = l'.outputs, Will(EEPROM_OUTPUT, o)',
         NEW v, v = l'.vesselID, \A k \in 1..VesselBytes : Will(VesselCell(k), v[k])'
  PROVE  Saved'
<1>1. Will(EEPROM_OUTPUT, l.outputs)'
  BY DEF Will
<1>2. \A k \in 1..VesselBytes : Will(VesselCell(k), l.vesselID[k])'
  BY DEF Will
<1>3. (\E x \in Byte : Will(EEPROM_BAUD_A, x) /\ AcceptedA(x) = l.baudA)'
  BY DEF AcceptedA
<1>4. (\E x \in Byte : Will(EEPROM_BAUD_B, x) /\ AcceptedB(x) = l.baudB)'
  BY DEF AcceptedB
<1>5. (\E x \in Byte : Will(EEPROM_SEATALK, x) /\ (g.seatalkActive <=> x \in 1..5))'
  OBVIOUS
<1> QED BY <1>1, <1>2, <1>3, <1>4, <1>5 DEF Saved

\* What Saved says of this state, for a parameter at a time.
LEMMA SavedNow ==
  ASSUME Saved
  PROVE  /\ \E a \in Byte : Will(EEPROM_BAUD_A, a) /\ AcceptedA(a) = l.baudA
         /\ \E b \in Byte : Will(EEPROM_BAUD_B, b) /\ AcceptedB(b) = l.baudB
         /\ \E c \in Byte : Will(EEPROM_SEATALK, c) /\ (g.seatalkActive <=> c \in 1..5)
         /\ \E o : o = l.outputs /\ Will(EEPROM_OUTPUT, o)
         /\ \E v : v = l.vesselID /\ \A k \in 1..VesselBytes : Will(VesselCell(k), v[k])
BY DEF Saved

\* A step that keeps the parameters and what the cells will hold.
LEMMA SavedAlone ==
  ASSUME Saved, \A x \in Cells : \A v : Will(x, v) => Will(x, v)',
         UNCHANGED <<l.baudA, l.baudB, l.outputs, l.vesselID, g.seatalkActive>>
  PROVE  Saved'
<1>1. PICK a \in Byte : Will(EEPROM_BAUD_A, a) /\ AcceptedA(a) = l.baudA
  BY SavedNow
<1>2. PICK b \in Byte : Will(EEPROM_BAUD_B, b) /\ AcceptedB(b) = l.baudB
  BY SavedNow
<1>3. PICK c \in Byte : Will(EEPROM_SEATALK, c) /\ (g.seatalkActive <=> c \in 1..5)
  BY SavedNow
<1>4. PICK o : o = l.outputs /\ Will(EEPROM_OUTPUT, o)
  BY SavedNow
<1>5. PICK v : v = l.vesselID /\ \A k \in 1..VesselBytes : Will(VesselCell(k), v[k])
  BY SavedNow
<1>6. \A k \in 1..VesselBytes : Will(VesselCell(k), v[k])'
  BY <1>5, CellNumbers
<1>7. /\ AcceptedA(a) = l'.baudA /\ AcceptedB(b) = l'.baudB
      /\ g'.seatalkActive <=> c \in 1..5
      /\ o = l'.outputs /\ v = l'.vesselID
  BY <1>1, <1>2, <1>3, <1>4, <1>5
<1>8. Will(EEPROM_BAUD_A, a)' /\ Will(EEPROM_BAUD_B, b)' /\ Will(EEPROM_SEATALK, c)'
      /\ Will(EEPROM_OUTPUT, o)'
  BY <1>1, <1>2, <1>3, <1>4, CellNumbers
<1> QED BY <1>6, <1>7, <1>8, SavedThen

\* New writes: what is in them will be, and the other cells stay as they are.
LEMMA WillWrite ==
  ASSUME todo = <<>>, UNCHANGED eeprom,
         NEW hasU \in BOOLEAN, NEW u, NEW hasW \in BOOLEAN, NEW w,
         Holds(todo', hasU, u, hasW, w)
  PROVE  /\ \A x, v : u = <<x, v>> /\ hasU => Will(x, v)'
         /\ \A x, v : w = <<x, v>> /\ hasW => Will(x, v)'
         /\ \A x, v : Will(x, v) /\ (hasU => u[1] # x) /\ (hasW => w[1] # x) => Will(x, v)'
<1>1. DOMAIN todo = {}
  OBVIOUS
<1>2. ASSUME NEW x, NEW v, u = <<x, v>>, hasU PROVE Will(x, v)'
  BY <1>2 DEF Holds, Will
<1>3. ASSUME NEW x, NEW v, w = <<x, v>>, hasW PROVE Will(x, v)'
  BY <1>3 DEF Holds, Will
<1>4. ASSUME NEW x, NEW v, Will(x, v), hasU => u[1] # x, hasW => w[1] # x
      PROVE  Will(x, v)'
  <2>1. eeprom'[x] = v
    BY <1>1, <1>4 DEF Will
  <2>2. \A i \in DOMAIN todo' : todo'[i][1] # x
    BY <1>4 DEF Holds
  <2> QED BY <2>1, <2>2 DEF Will
<1> QED BY <1>2, <1>3, <1>4

\* The first parameter saves the flag and the baud rate of port A.
LEMMA FirstSaves ==
  ASSUME TypeOK, Saved, SeatalkCell, UNCHANGED eeprom, todo = <<>>,
         NEW f \in Forms, NothingRead, NEW n, Parameter1(f.seatalk, f.baudA, n)
  PROVE  Saved'
<1>1. /\ l \in LocalsType /\ g \in GlobalsType /\ l.baudA \in Byte
  BY DEF TypeOK, LocalsType
<1>2. f.seatalk \in BOOLEAN /\ f.baudA \in 0..6 /\ f.baudA \in Byte
  <2>1. \A x \in 0..6 : x \in Byte
    BY DEF Byte
  <2> QED BY <2>1, FormFields
<1>3. /\ l'.baudA = f.baudA /\ l'.baudB = l.baudB /\ l'.outputs = l.outputs
      /\ l'.vesselID = l.vesselID
  BY <1>1 DEF Parameter1, Advanced, LocalsType
<1>4. g'.seatalkActive = f.seatalk
  BY <1>1 DEF Parameter1, GlobalsType
<1> DEFINE u == <<EEPROM_BAUD_A, f.baudA>>
           w == SeatalkWrite(f.seatalk)
           hasU == f.baudA # l.baudA
           hasW == SeatalkDiffers(f.seatalk)
<1>5. Holds(todo', hasU, u, hasW, w)
  BY <1>1, <1>2, FirstWrites DEF Parameter1
<1>6. hasU \in BOOLEAN /\ hasW \in BOOLEAN
  BY DEF SeatalkDiffers
<1>7. /\ \A x, v : u = <<x, v>> /\ hasU => Will(x, v)'
      /\ \A x, v : w = <<x, v>> /\ hasW => Will(x, v)'
      /\ \A x, v : Will(x, v) /\ (hasU => u[1] # x) /\ (hasW => w[1] # x) => Will(x, v)'
  <2> HIDE DEF u, w, hasU, hasW
  <2> QED BY <1>5, <1>6, WillWrite
<1>8. u[1] = EEPROM_BAUD_A /\ w[1] = EEPROM_SEATALK
  BY DEF SeatalkWrite
<1>9. PICK a \in Byte : Will(EEPROM_BAUD_A, a)' /\ AcceptedA(a) = l'.baudA
  <2>1. CASE hasU
    <3>1. AcceptedA(f.baudA) = f.baudA
      <4>1. \A x \in 0..6 : AcceptedA(x) = x
        BY DEF AcceptedA, Hex06
      <4> QED BY <4>1, <1>2
    <3>2. Will(EEPROM_BAUD_A, f.baudA)'
      BY <1>7, <2>1
    <3> QED BY <1>2, <1>3, <3>1, <3>2
  <2>2. CASE ~hasU
    <3>1. PICK a \in Byte : Will(EEPROM_BAUD_A, a) /\ AcceptedA(a) = l.baudA
      BY SavedNow
    <3>2. EEPROM_SEATALK # EEPROM_BAUD_A
      BY DEF EEPROM_SEATALK, EEPROM_BAUD_A
    <3>3. Will(EEPROM_BAUD_A, a)'
      BY <1>7, <1>8, <2>2, <3>1, <3>2
    <3> QED BY <1>3, <2>2, <3>1, <3>3
  <2> QED BY <2>1, <2>2
<1>10. PICK c \in Byte : Will(EEPROM_SEATALK, c)' /\ (g'.seatalkActive <=> c \in 1..5)
  <2>1. CASE hasW
    <3> DEFINE c == IF f.seatalk THEN 1 ELSE 0
    <3>1. w = <<EEPROM_SEATALK, c>>
      BY DEF SeatalkWrite
    <3>2. c \in Byte /\ (f.seatalk <=> c \in 1..5)
      BY <1>2 DEF Byte
    <3> HIDE DEF c
    <3>3. Will(EEPROM_SEATALK, c)'
      BY <1>7, <2>1, <3>1
    <3> QED BY <1>4, <3>2, <3>3
  <2>2. CASE ~hasW
    <3> DEFINE c == eeprom[EEPROM_SEATALK]
    <3>1. l.seatalk = c
      BY DEF NothingRead
    <3>2. c \in {0, 1, 255}
      BY DEF SeatalkCell, Erased
    <3>3. Will(EEPROM_SEATALK, c)
      BY DEF Will
    <3>4. EEPROM_SEATALK # EEPROM_BAUD_A
      BY DEF EEPROM_SEATALK, EEPROM_BAUD_A
    <3>5. Will(EEPROM_SEATALK, c)'
      BY <1>7, <1>8, <2>2, <3>3, <3>4
    <3>6. ~(c > 6) /\ ((c > 0) <=> f.seatalk)
      BY <2>2, <3>1 DEF SeatalkDiffers, Hex06
    <3> HIDE DEF c
    <3>7. c \in Byte /\ (f.seatalk <=> c \in 1..5)
      BY <3>2, <3>6 DEF Byte
    <3>8. PICK d : d = c
      OBVIOUS
    <3>9. Will(EEPROM_SEATALK, d)'
      BY <1>7, <1>8, <2>2, <3>3, <3>4, <3>8
    <3> QED BY <1>4, <3>7, <3>8, <3>9
  <2> QED BY <2>1, <2>2
<1>11. ASSUME NEW x \in Cells, x \notin {EEPROM_BAUD_A, EEPROM_SEATALK}, NEW v, Will(x, v)
       PROVE  Will(x, v)'
  BY <1>7, <1>8, <1>11
<1>12. /\ EEPROM_BAUD_B \notin {EEPROM_BAUD_A, EEPROM_SEATALK}
       /\ EEPROM_OUTPUT \notin {EEPROM_BAUD_A, EEPROM_SEATALK}
       /\ \A k \in 1..VesselBytes : VesselCell(k) \notin {EEPROM_BAUD_A, EEPROM_SEATALK}
  BY CellNumbers DEF EEPROM_BAUD_A, EEPROM_BAUD_B, EEPROM_SEATALK, EEPROM_OUTPUT
<1>13. PICK b \in Byte : Will(EEPROM_BAUD_B, b)' /\ AcceptedB(b) = l'.baudB
  BY <1>3, <1>11, <1>12, CellNumbers, SavedNow
<1>14. PICK o : o = l'.outputs /\ Will(EEPROM_OUTPUT, o)'
  BY <1>3, <1>11, <1>12, CellNumbers, SavedNow
<1>15. PICK v : v = l'.vesselID /\ \A k \in 1..VesselBytes : Will(VesselCell(k), v[k])'
  BY <1>3, <1>11, <1>12, CellNumbers, SavedNow
<1> QED BY <1>9, <1>10, <1>13, <1>14, <1>15, SavedThen

\* One cell is written, or none: the others will hold what they would have held.
LEMMA OneWrite ==
  ASSUME todo = <<>>, UNCHANGED eeprom, NEW cell \in Cells, NEW new \in Byte, NEW old \in Byte,
         todo' = Changed(cell, new, old)
  PROVE  /\ new # old => Will(cell, new)'
         /\ \A x, v : Will(x, v) /\ (new = old \/ x # cell) => Will(x, v)'
<1> DEFINE u == <<cell, new>>
           hasU == new # old
<1>1. Holds(todo', hasU, u, FALSE, u)
  BY OtherWrites
<1>2. hasU \in BOOLEAN /\ FALSE \in BOOLEAN
  OBVIOUS
<1>3. /\ \A x, v : u = <<x, v>> /\ hasU => Will(x, v)'
      /\ \A x, v : Will(x, v) /\ (hasU => u[1] # x) => Will(x, v)'
  <2> HIDE DEF u, hasU
  <2> QED BY <1>1, <1>2, WillWrite
<1>4. u[1] = cell
  OBVIOUS
<1> QED BY <1>3, <1>4

\* The second saves the baud rate of port B.
LEMMA SecondSaves ==
  ASSUME TypeOK, Saved, UNCHANGED eeprom, todo = <<>>, NEW f \in Forms, Parameter2(f.baudB)
  PROVE  Saved'
<1>1. l \in LocalsType /\ l.baudB \in Byte
  BY DEF TypeOK, LocalsType
<1>2. f.baudB \in Byte /\ AcceptedB(f.baudB) = f.baudB
  <2>1. \A x \in 0..4 : x \in Byte /\ AcceptedB(x) = x
    BY DEF Byte, AcceptedB
  <2> QED BY <2>1, FormFields
<1>3. /\ l'.baudA = l.baudA /\ l'.baudB = f.baudB /\ l'.outputs = l.outputs
      /\ l'.vesselID = l.vesselID /\ g' = g
  BY <1>1 DEF Parameter2, Advanced, LocalsType
<1>4. /\ f.baudB # l.baudB => Will(EEPROM_BAUD_B, f.baudB)'
      /\ \A x, v : Will(x, v) /\ (f.baudB = l.baudB \/ x # EEPROM_BAUD_B) => Will(x, v)'
  BY <1>1, <1>2, OneWrite, CellNumbers DEF Parameter2
<1>5. PICK b \in Byte : Will(EEPROM_BAUD_B, b)' /\ AcceptedB(b) = l'.baudB
  <2>1. CASE f.baudB # l.baudB
    BY <1>2, <1>3, <1>4, <2>1
  <2>2. CASE f.baudB = l.baudB
    BY <1>3, <1>4, <2>2, SavedNow
  <2> QED BY <2>1, <2>2
<1>6. /\ EEPROM_BAUD_A # EEPROM_BAUD_B /\ EEPROM_SEATALK # EEPROM_BAUD_B
      /\ EEPROM_OUTPUT # EEPROM_BAUD_B
      /\ \A k \in 1..VesselBytes : VesselCell(k) # EEPROM_BAUD_B
  BY CellNumbers DEF EEPROM_BAUD_A, EEPROM_BAUD_B, EEPROM_SEATALK, EEPROM_OUTPUT
<1>7. PICK a \in Byte : Will(EEPROM_BAUD_A, a)' /\ AcceptedA(a) = l'.baudA
  BY <1>3, <1>4, <1>6, SavedNow
<1>8. PICK c \in Byte : Will(EEPROM_SEATALK, c)' /\ (g'.seatalkActive <=> c \in 1..5)
  BY <1>3, <1>4, <1>6, SavedNow
<1>9. PICK o : o = l'.outputs /\ Will(EEPROM_OUTPUT, o)'
  BY <1>3, <1>4, <1>6, SavedNow
<1>10. PICK v : v = l'.vesselID /\ \A k \in 1..VesselBytes : Will(VesselCell(k), v[k])'
  BY <1>3, <1>4, <1>6, SavedNow
<1> QED BY <1>5, <1>7, <1>8, <1>9, <1>10, SavedThen

\* The third saves the outputs.
LEMMA ThirdSaves ==
  ASSUME TypeOK, Saved, UNCHANGED eeprom, todo = <<>>, NEW f \in Forms, Parameter3(f.outputs)
  PROVE  Saved'
<1>1. l \in LocalsType /\ l.outputs \in Byte
  BY DEF TypeOK, LocalsType
<1>2. f.outputs \in Byte
  <2>1. \A x \in 0..3 : x \in Byte
    BY DEF Byte
  <2> QED BY <2>1, FormFields
<1>3. /\ l'.baudA = l.baudA /\ l'.baudB = l.baudB /\ l'.outputs = f.outputs
      /\ l'.vesselID = l.vesselID /\ g' = g
  BY <1>1 DEF Parameter3, Advanced, LocalsType
<1>4. /\ f.outputs # l.outputs => Will(EEPROM_OUTPUT, f.outputs)'
      /\ \A x, v : Will(x, v) /\ (f.outputs = l.outputs \/ x # EEPROM_OUTPUT) => Will(x, v)'
  BY <1>1, <1>2, OneWrite, CellNumbers DEF Parameter3
<1>5. PICK o : o = l'.outputs /\ Will(EEPROM_OUTPUT, o)'
  <2>1. CASE f.outputs # l.outputs
    BY <1>3, <1>4, <2>1
  <2>2. CASE f.outputs = l.outputs
    BY <1>3, <1>4, <2>2, SavedNow
  <2> QED BY <2>1, <2>2
<1>6. /\ EEPROM_BAUD_A # EEPROM_OUTPUT /\ EEPROM_SEATALK # EEPROM_OUTPUT
      /\ EEPROM_BAUD_B # EEPROM_OUTPUT
      /\ \A k \in 1..VesselBytes : VesselCell(k) # EEPROM_OUTPUT
  BY CellNumbers DEF EEPROM_BAUD_A, EEPROM_BAUD_B, EEPROM_SEATALK, EEPROM_OUTPUT
<1>7. PICK a \in Byte : Will(EEPROM_BAUD_A, a)' /\ AcceptedA(a) = l'.baudA
  BY <1>3, <1>4, <1>6, SavedNow
<1>8. PICK b \in Byte : Will(EEPROM_BAUD_B, b)' /\ AcceptedB(b) = l'.baudB
  BY <1>3, <1>4, <1>6, SavedNow
<1>9. PICK c \in Byte : Will(EEPROM_SEATALK, c)' /\ (g'.seatalkActive <=> c \in 1..5)
  BY <1>3, <1>4, <1>6, SavedNow
<1>10. PICK v : v = l'.vesselID /\ \A k \in 1..VesselBytes : Will(VesselCell(k), v[k])'
  BY <1>3, <1>4, <1>6, SavedNow
<1> QED BY <1>5, <1>7, <1>8, <1>9, <1>10, SavedThen

\* The fourth saves the vessel, byte by byte.
LEMMA VesselSaves ==
  ASSUME TypeOK, Saved, UNCHANGED eeprom, todo = <<>>, NEW f \in Forms, TakesVessel(f)
  PROVE  Saved'
<1>1. l \in LocalsType
  BY DEF TypeOK
<1>2. /\ l'.baudA = l.baudA /\ l'.baudB = l.baudB /\ l'.outputs = l.outputs
      /\ l'.vesselID = f.vessel /\ g' = g
  BY <1>1 DEF TakesVessel, Advanced, LocalsType
<1>3. PICK v : v = f.vessel
  OBVIOUS
<1>4. /\ DOMAIN todo' = 1..VesselBytes
      /\ \A k \in 1..VesselBytes : todo'[k] = <<VesselCell(k), v[k]>>
  BY <1>3, VesselWritesAre DEF TakesVessel
<1>5. \A k \in 1..VesselBytes : Will(VesselCell(k), v[k])'
  BY <1>4 DEF Will
<1>6. ASSUME NEW x, \A k \in 1..VesselBytes : VesselCell(k) # x, NEW y, Will(x, y)
      PROVE  Will(x, y)'
  <2>1. DOMAIN todo = {}
    OBVIOUS
  <2>2. eeprom'[x] = y
    BY <2>1, <1>6 DEF Will
  <2>3. \A i \in DOMAIN todo' : todo'[i][1] # x
    BY <1>4, <1>6
  <2> QED BY <2>2, <2>3 DEF Will
<1>7. \A k \in 1..VesselBytes : /\ VesselCell(k) # EEPROM_BAUD_A /\ VesselCell(k) # EEPROM_BAUD_B
                                /\ VesselCell(k) # EEPROM_SEATALK /\ VesselCell(k) # EEPROM_OUTPUT
  BY CellNumbers
<1>8. PICK a \in Byte : Will(EEPROM_BAUD_A, a)' /\ AcceptedA(a) = l'.baudA
  BY <1>2, <1>6, <1>7, SavedNow
<1>9. PICK b \in Byte : Will(EEPROM_BAUD_B, b)' /\ AcceptedB(b) = l'.baudB
  BY <1>2, <1>6, <1>7, SavedNow
<1>10. PICK c \in Byte : Will(EEPROM_SEATALK, c)' /\ (g'.seatalkActive <=> c \in 1..5)
  BY <1>2, <1>6, <1>7, SavedNow
<1>11. PICK o : o = l'.outputs /\ Will(EEPROM_OUTPUT, o)'
  BY <1>2, <1>6, <1>7, SavedNow
<1>12. v = l'.vesselID
  BY <1>2, <1>3
<1> QED BY <1>5, <1>8, <1>9, <1>10, <1>11, <1>12, SavedThen

\* Every parameter of a form is saved as it is taken.
LEMMA TakenIsSaved ==
  ASSUME TypeOK, Saved, SeatalkCell, UNCHANGED eeprom, todo = <<>>,
         NEW f \in Forms, NEW k \in 1..4, Takes(f, k)
  PROVE  Saved'
<1>1. CASE k = 1
  BY <1>1, FirstSaves DEF Takes
<1>2. CASE k = 2
  BY <1>2, SecondSaves DEF Takes
<1>3. CASE k = 3
  BY <1>3, ThirdSaves DEF Takes
<1>4. CASE k = 4
  BY <1>4, VesselSaves DEF Takes
<1> QED BY <1>1, <1>2, <1>3, <1>4

\* What is not the first of a list comes one place earlier in its tail.
LEMMA TailIs ==
  ASSUME NEW q \in Seq(Write), q # <<>>
  PROVE  /\ Len(q) \in Nat \ {0} /\ DOMAIN q = 1..Len(q)
         /\ q[1] \in Write
         /\ Tail(q) \in Seq(Write) /\ DOMAIN Tail(q) = 1..(Len(q) - 1)
         /\ \A i \in 1..(Len(q) - 1) : Tail(q)[i] = q[i + 1]
OBVIOUS

\* A step that writes nothing and has nothing new to write.
LEMMA WritesAlone ==
  ASSUME UNCHANGED <<eeprom, todo>>
  PROVE  /\ OnceEach => OnceEach'
         /\ SeatalkCell => SeatalkCell'
         /\ \A x \in Cells : \A v : Will(x, v) => Will(x, v)'
BY DEF OnceEach, SeatalkCell, Will

\* A cell that is written changes nothing of what the cells will hold.
LEMMA WriteMade ==
  ASSUME TypeOK, OnceEach, SeatalkCell, EEPROMWrite
  PROVE  /\ OnceEach' /\ SeatalkCell'
         /\ \A x \in Cells : \A v : Will(x, v) => Will(x, v)'
<1> DEFINE n == Len(todo)
<1>1. /\ n \in Nat \ {0} /\ DOMAIN todo = 1..n /\ DOMAIN todo' = 1..(n - 1)
      /\ \A i \in 1..(n - 1) : todo'[i] = todo[i + 1]
      /\ todo[1] \in Cells \X Byte
  BY TailIs DEF EEPROMWrite, TypeOK, Write
<1> DEFINE c == todo[1][1]
           b == todo[1][2]
<1>2. c \in Cells /\ b \in Byte /\ todo[1] = <<c, b>>
  BY <1>1
<1>3. /\ \A x \in Cells : eeprom'[x] = IF x = c THEN b ELSE eeprom[x]
  BY DEF EEPROMWrite, TypeOK
<1> HIDE DEF n, c, b
<1>4. 1 \in DOMAIN todo /\ \A i \in 1..(n - 1) : i + 1 \in DOMAIN todo /\ i + 1 # 1
  BY <1>1
<1>5. \A i \in 1..(n - 1) : todo'[i][1] # c
  BY <1>1, <1>2, <1>4 DEF OnceEach, c
<1>6. OnceEach'
  <2>1. ASSUME NEW i \in 1..(n - 1), NEW j \in 1..(n - 1), todo'[i][1] = todo'[j][1]
        PROVE  i = j
    <3>1. todo[i + 1][1] = todo[j + 1][1]
      BY <1>1, <2>1
    <3>2. i + 1 = j + 1
      BY <1>4, <3>1 DEF OnceEach
    <3> QED BY <3>2
  <2> QED BY <1>1, <2>1 DEF OnceEach
<1>7. SeatalkCell'
  <2>1. \A i \in 1..(n - 1) : todo'[i][1] = EEPROM_SEATALK => todo'[i][2] \in {0, 1}
    BY <1>1, <1>4 DEF SeatalkCell
  <2>2. c = EEPROM_SEATALK => b \in {0, 1}
    BY <1>4 DEF SeatalkCell, c, b
  <2>3. eeprom'[EEPROM_SEATALK] \in {0, 1, Erased}
    BY <1>3, <2>2, CellNumbers DEF SeatalkCell
  <2> QED BY <1>1, <2>1, <2>3 DEF SeatalkCell
<1>8. ASSUME NEW x \in Cells, NEW v, Will(x, v)
      PROVE  Will(x, v)'
  <2>1. ASSUME NEW i \in DOMAIN todo, todo[i] = <<x, v>>
        PROVE  Will(x, v)'
    <3>1. CASE i = 1
      <4>1. x = c /\ v = b
        BY <1>2, <2>1, <3>1
      <4> QED BY <1>1, <1>3, <1>5, <4>1 DEF Will
    <3>2. CASE i # 1
      <4>1. i - 1 \in 1..(n - 1) /\ (i - 1) + 1 = i
        BY <1>1, <2>1, <3>2
      <4>2. todo'[i - 1] = <<x, v>>
        BY <1>1, <2>1, <4>1
      <4> QED BY <1>1, <4>1, <4>2 DEF Will
    <3> QED BY <3>1, <3>2
  <2>2. ASSUME eeprom[x] = v, \A i \in DOMAIN todo : todo[i][1] # x
        PROVE  Will(x, v)'
    <3>1. x # c
      BY <1>4, <2>2 DEF c
    <3>2. eeprom'[x] = v
      BY <1>3, <2>2, <3>1
    <3>3. \A i \in DOMAIN todo' : todo'[i][1] # x
      BY <1>1, <1>4, <2>2
    <3> QED BY <3>2, <3>3 DEF Will
  <2> QED BY <1>8, <2>1, <2>2 DEF Will
<1> QED BY <1>6, <1>7, <1>8

\* A file that is read is that of a form, or of nobody's.
LEMMA FormOrForeign ==
  ASSUME TypeOK, FollowsFile, pc = "parse"
  PROVE  source \in Forms \/ source = Foreign
BY DEF TypeOK, CardOK, FollowsFile

\* What is read from the EEPROM at the beginning is what it holds.
LEMMA ReadIsSaved ==
  ASSUME TypeOK, FollowsFile, ReadEEPROM
  PROVE  Saved'
<1>1. /\ todo = <<>> /\ UNCHANGED <<eeprom, todo>>
      /\ l' = LocalsFrom(eeprom) /\ g' = GlobalsFrom(eeprom)
      /\ eeprom \in [Cells -> Byte]
  BY DEF ReadEEPROM, FollowsFile, TypeOK
<1>2. DOMAIN todo = {}
  BY <1>1
<1>3. \A x, v : eeprom[x] = v => Will(x, v)'
  BY <1>1, <1>2 DEF Will
<1>4. PICK a \in Byte : Will(EEPROM_BAUD_A, a)' /\ AcceptedA(a) = l'.baudA
  BY <1>1, <1>3, CellNumbers DEF LocalsFrom
<1>5. PICK b \in Byte : Will(EEPROM_BAUD_B, b)' /\ AcceptedB(b) = l'.baudB
  BY <1>1, <1>3, CellNumbers DEF LocalsFrom
<1>6. PICK c \in Byte : Will(EEPROM_SEATALK, c)' /\ (g'.seatalkActive <=> c \in 1..5)
  BY <1>1, <1>3, CellNumbers DEF GlobalsFrom
<1>7. PICK o : o = l'.outputs /\ Will(EEPROM_OUTPUT, o)'
  BY <1>1, <1>3 DEF LocalsFrom
<1>8. PICK v : v = l'.vesselID /\ \A k \in 1..VesselBytes : Will(VesselCell(k), v[k])'
  <2>1. PICK v : v = VesselIn(eeprom)
    OBVIOUS
  <2>2. \A k \in 1..VesselBytes : v[k] = eeprom[VesselCell(k)]
    BY <2>1 DEF VesselIn
  <2>3. \A k \in 1..VesselBytes : Will(VesselCell(k), v[k])'
    BY <1>3, <2>2
  <2>4. v = l'.vesselID
    BY <1>1, <2>1 DEF LocalsFrom
  <2> QED BY <2>3, <2>4
<1> QED BY <1>4, <1>5, <1>6, <1>7, <1>8, SavedThen

\* Every step saves what it uses.
LEMMA SavesKept ==
  ASSUME TypeOK, FollowsFile, SavesWhatItUses, [Next]_vars
  PROVE  SavesWhatItUses'
<1>1. /\ OnceEach /\ SeatalkCell /\ l \in LocalsType /\ g \in GlobalsType
      /\ pc # "off" /\ source # Foreign => Saved \/ Stuck
      /\ ~l.cached => l.position = 0
      /\ pc # "parse" => todo = <<>>
      /\ pc = "open" => source = NoForm
  BY DEF SavesWhatItUses, TypeOK, FollowsFile
\* A step that neither writes nor takes a parameter.
<1>2. ASSUME UNCHANGED <<eeprom, todo>>,
             UNCHANGED <<l.baudA, l.baudB, l.outputs, l.vesselID, g.seatalkActive>>,
             pc' # "off" /\ source' # Foreign => Saved \/ Stuck'
      PROVE  SavesWhatItUses'
  <2>1. OnceEach' /\ SeatalkCell'
    BY <1>1, <1>2, WritesAlone
  <2>2. Saved => Saved'
    BY <1>2, WritesAlone, SavedAlone
  <2> QED BY <1>2, <2>1, <2>2 DEF SavesWhatItUses
<1>3. CASE ReadEEPROM
  <2>1. Saved'
    BY <1>3, ReadIsSaved
  <2>2. OnceEach' /\ SeatalkCell'
    BY <1>1, <1>3, WritesAlone DEF ReadEEPROM
  <2> QED BY <2>1, <2>2 DEF SavesWhatItUses
<1>4. CASE OpenConfig
  <2>1. /\ UNCHANGED <<eeprom, todo, l>> /\ pc = "open"
    BY <1>4 DEF OpenConfig
  <2>2. g'.seatalkActive = g.seatalkActive
    BY <1>1, <1>4 DEF OpenConfig, GlobalsType
  <2>3. Saved
    BY <1>1, <2>1, NotForms DEF Stuck
  <2> QED BY <1>2, <2>1, <2>2, <2>3
<1>5. CASE LineEnd
  <2>1. /\ UNCHANGED <<pc, eeprom, todo, g, source>> /\ pc = "parse" /\ ~Stuck
        /\ l' = LineEnded(l)
    BY <1>5 DEF LineEnd, Parsing, ReadSucceeds, Stuck
  <2>2. UNCHANGED <<l.baudA, l.baudB, l.outputs, l.vesselID>>
    BY <1>1, <2>1 DEF LineEnded, LocalsType
  <2> QED BY <1>1, <1>2, <2>1, <2>2
<1>6. CASE ConfigChar
  <2>1. /\ UNCHANGED <<pc, eeprom, source>> /\ pc = "parse" /\ ~Stuck /\ todo = <<>>
    BY <1>6 DEF ConfigChar, Parsing, ReadSucceeds, Stuck
  <2>2. OnceEach' /\ SeatalkCell'
    BY <1>1, <1>6, <2>1, CharWrites DEF SeatalkCell
  <2>3. ASSUME source # Foreign PROVE Saved'
    <3>1. PICK f \in Forms : f = source
      BY <2>1, <2>3, FormOrForeign
    <3>2. card.text = Download(f) /\ ReadSoFar(f)
      BY <2>1, <3>1, TextOfForm
    <3>3. PICK k \in 1..4 : Takes(f, k)
      BY <1>1, <1>6, <3>2, TakesInTurn
    <3>4. Saved
      BY <1>1, <2>1, <2>3
    <3> QED BY <1>1, <2>1, <3>3, <3>4, TakenIsSaved
  <2> QED BY <2>1, <2>2, <2>3 DEF SavesWhatItUses
<1>7. CASE ReadFails
  <2>1. /\ UNCHANGED <<pc, eeprom, mounted, source>> /\ pc = "parse"
        /\ ~l.cached /\ ~mounted /\ l' = [l EXCEPT !.lastCR = FALSE, !.baudA = Code(255)]
    BY <1>7 DEF ReadFails, Parsing, ReadSucceeds, environment
  <2>2. OnceEach' /\ SeatalkCell'
    BY <1>1, <1>7, <2>1, CharWrites DEF SeatalkCell
  <2>3. l'.cached = l.cached
    BY <1>1, <2>1 DEF LocalsType
  <2> QED BY <2>1, <2>2, <2>3 DEF SavesWhatItUses, Stuck
<1>8. CASE EEPROMWrite
  <2>1. UNCHANGED <<pc, l, g, mounted, source>>
    BY <1>8 DEF EEPROMWrite, environment
  <2>2. /\ OnceEach' /\ SeatalkCell'
        /\ \A x \in Cells : \A v : Will(x, v) => Will(x, v)'
    BY <1>1, <1>8, WriteMade
  <2>3. Saved => Saved'
    BY <2>1, <2>2, SavedAlone
  <2>4. Stuck => Stuck'
    BY <2>1 DEF Stuck
  <2> QED BY <1>1, <2>1, <2>2, <2>3, <2>4 DEF SavesWhatItUses
<1>9. CASE CloseConfig
  <2>1. /\ UNCHANGED <<eeprom, todo, l, g, source>> /\ pc = "parse"
        /\ l.position >= Len(card.text)
    BY <1>9 DEF CloseConfig
  <2>2. ~Stuck
    <3>1. card.text # <<>> /\ card.text \in Seq(Byte)
      BY <2>1, CharTyped DEF FollowsFile, TypeOK, NoText
    <3>2. Len(card.text) \in Nat \ {0}
      BY <3>1
    <3>3. l.position # 0
      BY <2>1, <3>2
    <3> QED BY <1>1, <3>3 DEF Stuck
  <2> QED BY <1>1, <1>2, <2>1, <2>2
<1>10. CASE Outputs
  <2>1. UNCHANGED <<eeprom, todo, l, source>> /\ pc = "outputs"
    BY <1>10 DEF Outputs
  <2>2. g'.seatalkActive = g.seatalkActive
    BY <1>1, <1>10 DEF Outputs, GlobalsType
  <2> QED BY <1>1, <1>2, <2>1, <2>2 DEF Stuck
<1>11. CASE RemoveCnf
  BY <1>1, <1>2, <1>11 DEF RemoveCnf, Stuck
<1>12. CASE WriteCnf
  BY <1>1, <1>2, <1>12 DEF WriteCnf, Stuck
<1>13. CASE OpenPorts
  <2>1. UNCHANGED <<eeprom, todo, l, source>> /\ pc = "ports"
    BY <1>13 DEF OpenPorts
  <2>2. g'.seatalkActive = g.seatalkActive
    BY <1>1, <1>13 DEF OpenPorts, GlobalsType
  <2> QED BY <1>1, <1>2, <2>1, <2>2 DEF Stuck
<1>14. CASE PowerCut
  <2>1. pc' = "off" /\ todo' = <<>>
    BY <1>14 DEF PowerCut
  <2>2. DOMAIN todo' = {}
    BY <2>1
  <2>3. eeprom'[EEPROM_SEATALK] \in {0, 1, Erased}
    BY <1>1, <1>14, CellNumbers DEF PowerCut, SeatalkCell, TypeOK
  <2> QED BY <2>1, <2>2, <2>3 DEF SavesWhatItUses, OnceEach, SeatalkCell
<1>15. CASE CardPulled
  BY <1>1, <1>2, <1>15 DEF CardPulled, Stuck
<1>16. CASE ChangeCard
  BY <1>1, <1>2, <1>16 DEF ChangeCard
<1>17. CASE UNCHANGED vars
  BY <1>1, <1>2, <1>17 DEF vars, environment, Stuck
<1> QED BY <1>3, <1>4, <1>5, <1>6, <1>7, <1>8, <1>9, <1>10, <1>11, <1>12, <1>13, <1>14,
           <1>15, <1>16, <1>17 DEF Next, Program

\* A logger that runs, runs as the EEPROM says.
LEMMA RunsAsItSaved ==
  ASSUME TypeOK, FollowsFile, UsesParameters, SavesWhatItUses
  PROVE  RunsAsSaved
<1> SUFFICES ASSUME pc = "run", source # Foreign PROVE RunsAsSaved
  BY DEF RunsAsSaved
<1>1. Saved /\ todo = <<>>
  BY DEF SavesWhatItUses, FollowsFile, Stuck
<1>2. DOMAIN todo = {}
  BY <1>1
<1>3. \A x, v : Will(x, v) => eeprom[x] = v
  BY <1>2 DEF Will
<1>4. PICK a : a = AcceptedA(eeprom[EEPROM_BAUD_A])
  OBVIOUS
<1>5. PICK b : b = AcceptedB(eeprom[EEPROM_BAUD_B])
  OBVIOUS
<1>6. a = l.baudA /\ b = l.baudB
  BY <1>1, <1>3, <1>4, <1>5, SavedNow
<1>7. g.seatalkActive <=> eeprom[EEPROM_SEATALK] \in 1..5
  BY <1>1, <1>3, SavedNow
<1>8. l.outputs = eeprom[EEPROM_OUTPUT]
  BY <1>1, <1>3, SavedNow
<1>9. l.vesselID = VesselIn(eeprom)
  <2>1. PICK v : v = l.vesselID /\ \A k \in 1..VesselBytes : Will(VesselCell(k), v[k])
    BY <1>1, SavedNow
  <2>2. v \in Vessel
    BY <2>1 DEF TypeOK, LocalsType
  <2>3. \A k \in 1..VesselBytes : v[k] = eeprom[VesselCell(k)]
    BY <1>3, <2>1
  <2>4. v = VesselIn(eeprom)
    BY <2>2, <2>3 DEF Vessel, VesselIn
  <2> QED BY <2>1, <2>4
<1>10. /\ g.port = [A |-> PortFor(l.baudA, 5, g.seatalkActive), B |-> PortFor(l.baudB, 3, FALSE)]
       /\ OutputsFrom(l.outputs)
  BY DEF UsesParameters
<1>11. \A c : PortFor(c, 5, g.seatalkActive)
               = PortFor(c, 5, eeprom[EEPROM_SEATALK] \in 1..5)
  BY <1>7 DEF PortFor
<1>12. g.port = [A |-> PortFor(a, 5, eeprom[EEPROM_SEATALK] \in 1..5),
                 B |-> PortFor(b, 3, FALSE)]
  BY <1>6, <1>10, <1>11
<1>13. OutputsFrom(eeprom[EEPROM_OUTPUT])
  BY <1>8, <1>10
<1> QED BY <1>4, <1>5, <1>7, <1>9, <1>12, <1>13 DEF RunsAsSaved

-----------------------------------------------------------------------------
(***************************************************************************)
(* What a cell holds, somebody chose.                                      *)
(***************************************************************************)

\* With its parameter a form has only its own cells written.
LEMMA TakenIsChosen ==
  ASSUME TypeOK, NEW f \in Forms, NEW k \in 1..4, Takes(f, k)
  PROVE  \A i \in DOMAIN todo' : todo'[i] \in CellsOf(f)
<1>1. l.baudA \in Byte /\ l.baudB \in Byte /\ l.outputs \in Byte
  BY DEF TypeOK, LocalsType
<1>2. f.seatalk \in BOOLEAN /\ f.baudA \in Byte /\ f.baudB \in Byte /\ f.outputs \in Byte
  <2>1. \A x \in 0..6 : x \in Byte
    BY DEF Byte
  <2>2. (\A x \in 0..4 : x \in 0..6) /\ (\A x \in 0..3 : x \in 0..6)
    OBVIOUS
  <2> QED BY <2>1, <2>2, FormFields
<1>3. /\ <<EEPROM_BAUD_A, f.baudA>> \in CellsOf(f) /\ <<EEPROM_BAUD_B, f.baudB>> \in CellsOf(f)
      /\ <<EEPROM_OUTPUT, f.outputs>> \in CellsOf(f) /\ SeatalkWrite(f.seatalk) \in CellsOf(f)
      /\ \A m \in 1..VesselBytes : VesselWrites(f.vessel)[m] \in CellsOf(f)
  BY DEF CellsOf, SeatalkWrite
<1>4. CASE k = 1
  <2>1. Holds(todo', f.baudA # l.baudA, <<EEPROM_BAUD_A, f.baudA>>,
              SeatalkDiffers(f.seatalk), SeatalkWrite(f.seatalk))
    <3>1. todo' = Changed(EEPROM_BAUD_A, f.baudA, l.baudA) \o SeatalkWrites(f.seatalk)
      <4>1. Parameter1(f.seatalk, f.baudA, EndOf(f, 1))
        BY <1>4 DEF Takes
      <4> QED BY <4>1 DEF Parameter1
    <3> QED BY <1>1, <1>2, <3>1, FirstWrites
  <2> QED BY <1>3, <2>1 DEF Holds
<1>5. CASE k = 2
  <2>1. Holds(todo', f.baudB # l.baudB, <<EEPROM_BAUD_B, f.baudB>>, FALSE, 0)
    <3>1. todo' = Changed(EEPROM_BAUD_B, f.baudB, l.baudB)
      BY <1>5 DEF Takes, Parameter2
    <3> QED BY <1>1, <1>2, <3>1, CellNumbers, OtherWrites
  <2> QED BY <1>3, <2>1 DEF Holds
<1>6. CASE k = 3
  <2>1. Holds(todo', f.outputs # l.outputs, <<EEPROM_OUTPUT, f.outputs>>, FALSE, 0)
    <3>1. todo' = Changed(EEPROM_OUTPUT, f.outputs, l.outputs)
      BY <1>6 DEF Takes, Parameter3
    <3> QED BY <1>1, <1>2, <3>1, CellNumbers, OtherWrites
  <2> QED BY <1>3, <2>1 DEF Holds
<1>7. CASE k = 4
  <2>1. todo' = VesselWrites(f.vessel)
    BY <1>7 DEF Takes, TakesVessel
  <2> QED BY <1>3, <2>1, VesselWritesAre
<1> QED BY <1>4, <1>5, <1>6, <1>7

\* Every step keeps the cells to what was chosen.
LEMMA ChosenKept ==
  ASSUME TypeOK, FollowsFile, tainted \/ (CellsChosen /\ WritesChosen), [Next]_vars
  PROVE  tainted' \/ (CellsChosen' /\ WritesChosen')
<1> SUFFICES ASSUME ~tainted' PROVE CellsChosen' /\ WritesChosen'
  OBVIOUS
<1>1. ~tainted
  <2>1. CASE Program
    <3>1. tainted' = tainted \/ tainted' = TRUE \/ tainted' = (tainted \/ card.form = Foreign)
      <4>1. OpenConfig \/ ReadFails =>
              tainted' = tainted \/ tainted' = TRUE \/ tainted' = (tainted \/ card.form = Foreign)
        BY Zenon DEF OpenConfig, ReadFails
      <4>2. ~(OpenConfig \/ ReadFails) => tainted' = tainted
        <5>1. LineEnd \/ ConfigChar \/ EEPROMWrite \/ CloseConfig => tainted' = tainted
          BY Zenon DEF LineEnd, ConfigChar, EEPROMWrite, CloseConfig
        <5>2. Outputs \/ RemoveCnf \/ WriteCnf \/ OpenPorts => tainted' = tainted
          BY Zenon DEF Outputs, RemoveCnf, WriteCnf, OpenPorts
        <5> QED BY <2>1, <5>1, <5>2 DEF Program
      <4> QED BY <4>1, <4>2
    <3> QED BY <3>1
  <2>2. CASE ReadEEPROM \/ PowerCut \/ CardPulled \/ ChangeCard \/ UNCHANGED vars
    BY <2>2, Zenon DEF ReadEEPROM, PowerCut, CardPulled, ChangeCard, vars
  <2> QED BY <2>1, <2>2 DEF Next
<1>2. CellsChosen /\ WritesChosen /\ (pc # "parse" => todo = <<>>)
  BY <1>1 DEF FollowsFile
<1>3. DOMAIN <<>> = {}
  OBVIOUS
\* A step that writes nothing and has nothing new to write.
<1>4. ASSUME UNCHANGED <<eeprom, todo, source>>, pc' = "parse" => pc = "parse"
      PROVE  CellsChosen' /\ WritesChosen'
  BY <1>2, <1>4 DEF CellsChosen, WritesChosen, CellsOf
<1>5. CASE ReadEEPROM
  <2>1. todo' = <<>> /\ UNCHANGED eeprom /\ pc' = "open"
    BY <1>2, <1>5 DEF ReadEEPROM
  <2> QED BY <1>2, <1>3, <2>1 DEF CellsChosen, WritesChosen
<1>6. CASE OpenConfig
  <2>1. todo' = <<>> /\ UNCHANGED eeprom /\ pc' \in {"parse", "outputs"}
    BY <1>2, <1>6 DEF OpenConfig
  <2>2. pc' = "parse" => source' \in Forms
    BY <1>6 DEF OpenConfig, TypeOK, CardOK
  <2> QED BY <1>2, <1>3, <2>1, <2>2 DEF CellsChosen, WritesChosen
<1>7. CASE ConfigChar
  <2>1. UNCHANGED <<pc, eeprom, source>> /\ pc = "parse" /\ ~Stuck
    BY <1>7 DEF ConfigChar, Parsing, ReadSucceeds, Stuck
  <2>2. PICK f \in Forms : f = source
    BY <1>2, <2>1 DEF WritesChosen
  <2>3. card.text = Download(f) /\ ReadSoFar(f) /\ l \in LocalsType
    BY <2>1, <2>2, TextOfForm
  <2>4. PICK k \in 1..4 : Takes(f, k)
    BY <1>7, <2>3, TakesInTurn
  <2>5. \A i \in DOMAIN todo' : todo'[i] \in CellsOf(f)
    BY <2>4, TakenIsChosen
  <2>6. WritesChosen'
    <3>1. f = source'
      BY <2>1, <2>2
    <3>2. CellsOf(source)' = CellsOf(f)
      BY <3>1 DEF CellsOf
    <3> QED BY <2>1, <2>5, <3>1, <3>2 DEF WritesChosen
  <2> QED BY <1>2, <2>1, <2>6 DEF CellsChosen
<1>8. CASE EEPROMWrite
  <2> DEFINE n == Len(todo)
             c == todo[1][1]
             b == todo[1][2]
  <2>1. /\ n \in Nat \ {0} /\ DOMAIN todo = 1..n /\ DOMAIN todo' = 1..(n - 1)
        /\ \A i \in 1..(n - 1) : todo'[i] = todo[i + 1]
        /\ todo[1] \in Cells \X Byte
    BY <1>8, TailIs DEF EEPROMWrite, TypeOK, Write
  <2>2. /\ UNCHANGED <<pc, source>> /\ pc = "parse"
        /\ \A x \in Cells : eeprom'[x] = IF x = c THEN b ELSE eeprom[x]
    BY <1>8 DEF EEPROMWrite, TypeOK
  <2>3. todo[1] = <<c, b>>
    BY <2>1
  <2> HIDE DEF n, c, b
  <2>4. 1 \in DOMAIN todo /\ \A i \in 1..(n - 1) : i + 1 \in DOMAIN todo
    BY <2>1
  <2>5. source \in Forms /\ <<c, b>> \in CellsOf(source)
    BY <1>2, <2>2, <2>3, <2>4 DEF WritesChosen
  <2>6. CellsChosen'
    BY <1>2, <2>2, <2>5 DEF CellsChosen
  <2>7. WritesChosen'
    <3>1. CellsOf(source)' = CellsOf(source)
      BY <2>2 DEF CellsOf
    <3>2. \A i \in 1..(n - 1) : todo'[i] \in CellsOf(source)
      BY <1>2, <2>1, <2>4 DEF WritesChosen
    <3> QED BY <2>1, <2>2, <2>5, <3>1, <3>2 DEF WritesChosen
  <2> QED BY <2>6, <2>7
<1>9. CASE PowerCut
  <2>1. pc' = "off" /\ todo' = <<>>
    BY <1>9 DEF PowerCut
  <2>2. CellsChosen'
    BY <1>2, <1>9 DEF PowerCut, CellsChosen, TypeOK
  <2> QED BY <1>3, <2>1, <2>2 DEF WritesChosen
<1>10. CASE ReadFails
  BY <1>10 DEF ReadFails
<1>11. CASE LineEnd \/ CloseConfig \/ Outputs \/ RemoveCnf \/ WriteCnf \/ OpenPorts
            \/ CardPulled \/ ChangeCard \/ UNCHANGED vars
  BY <1>4, <1>11 DEF LineEnd, CloseConfig, Outputs, RemoveCnf, WriteCnf, OpenPorts,
                     CardPulled, ChangeCard, vars
<1> QED BY <1>5, <1>6, <1>7, <1>8, <1>9, <1>10, <1>11 DEF Next, Program

-----------------------------------------------------------------------------
(***************************************************************************)
(* The inductive invariant.                                                *)
(***************************************************************************)
ConfigInv ==
  /\ TypeOK /\ FollowsFile /\ UsesParameters /\ SavesWhatItUses
  /\ tainted \/ (CellsChosen /\ WritesChosen)

\* A board from the factory.
LEMMA FromTheFactory ==
  Init => ConfigInv
<1> SUFFICES ASSUME Init PROVE ConfigInv
  OBVIOUS
<1>1. /\ pc = "off" /\ todo = <<>> /\ source = NoForm /\ card \in Cards /\ ~tainted
      /\ events = 0 /\ mounted = FALSE /\ tainted = FALSE
      /\ l = LocalsFrom(eeprom) /\ g = GlobalsFrom(eeprom)
      /\ eeprom = [x \in Cells |-> Erased]
  BY DEF Init
<1>2. eeprom \in [Cells -> Byte] /\ \A x \in Cells : eeprom[x] = Erased
  <2>1. Erased \in Byte
    BY DEF Erased, Byte
  <2> QED BY <1>1, <2>1
<1>3. CardOK
  <2>1. CASE card = NewCard(NoText, NoForm)
    BY <2>1 DEF CardOK, NewCard
  <2>2. CASE \E f \in Forms : card = NewCard(Download(f), f)
    BY <2>2 DEF CardOK, NewCard
  <2>3. CASE \E t \in OtherTexts : card = NewCard(t, Foreign)
    BY <2>3 DEF CardOK, NewCard
  <2> QED BY <1>1, <2>1, <2>2, <2>3 DEF Cards
<1>4. TypeOK
  <2>1. events \in 0..MaxEvents
    BY <1>1, EventsAreCounted
  <2>2. todo \in Seq(Cells \X Byte)
    BY <1>1
  <2> QED BY <1>1, <1>2, <1>3, <2>1, <2>2, FromEEPROM DEF TypeOK
<1>5. FollowsFile
  BY <1>1 DEF FollowsFile, After, LocalsFrom
<1>6. UsesParameters
  BY <1>1 DEF UsesParameters
<1>7. DOMAIN todo = {}
  BY <1>1
<1>8. SavesWhatItUses
  BY <1>1, <1>2, <1>7, CellNumbers DEF SavesWhatItUses, OnceEach, SeatalkCell
<1>9. CellsChosen /\ WritesChosen
  BY <1>1, <1>2, <1>7 DEF CellsChosen, WritesChosen
<1> QED BY <1>4, <1>5, <1>6, <1>8, <1>9 DEF ConfigInv

\* Every step keeps the invariant.
LEMMA ConfigInvKept ==
  ConfigInv /\ [Next]_vars => ConfigInv'
BY TypesKept, FollowsKept, UsesKept, SavesKept, ChosenKept DEF ConfigInv

\* The invariant of every start, for any forms, files and number of power cuts.
LEMMA ConfigInvariant ==
  Spec => []ConfigInv
BY FromTheFactory, ConfigInvKept, PTL DEF Spec

(***************************************************************************)
(* A logger that has read config.dat to its end runs with the ports,       *)
(* SeaTalk, outputs and vessel the form says (getParameters(),             *)
(* initSerials()), whatever the EEPROM held before and wherever an earlier *)
(* start was cut short.                                                    *)
(***************************************************************************)
THEOREM FormIsFollowed ==
  Spec => []OpenedAsConfigured
<1>1. ConfigInv => OpenedAsConfigured
  BY UsedAsSaid DEF ConfigInv, OpenedAsConfigured
<1> QED BY <1>1, ConfigInvariant, PTL

(***************************************************************************)
(* What a start uses it has saved: the next one without config.dat would   *)
(* run the same (EEPROM_writeStruct() and the writes of "changed           *)
(* parameters", although only differences are written).                    *)
(***************************************************************************)
THEOREM SettingsAreKept ==
  Spec => []RestartKeepsSettings
<1>1. ConfigInv => RestartKeepsSettings
  BY RunsAsItSaved DEF ConfigInv, RestartKeepsSettings
<1> QED BY <1>1, ConfigInvariant, PTL

(***************************************************************************)
(* As long as no read failed and no foreign file was read, every cell is   *)
(* erased or holds what a form says, and so is what is still to be         *)
(* written, also when the power goes between two cells or during one.      *)
(***************************************************************************)
THEOREM NothingUnchosen ==
  Spec => []ChosenOrErased
<1>1. ConfigInv => ChosenOrErased
  BY DEF ConfigInv, ChosenOrErased
<1> QED BY <1>1, ConfigInvariant, PTL

=============================================================================
