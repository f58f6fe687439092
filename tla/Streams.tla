------------------------------ MODULE Streams ------------------------------
(***************************************************************************)
(* The streams of SdFat: ios, ostream and istream (formatted and           *)
(* unformatted output and input), over a file (SdStream.cpp: fstream with  *)
(* its open modes, CR LF for a line end unless binary) and over a buffer   *)
(* in memory (bufstream.h).  An operation takes the stream, a record, and  *)
(* returns it with what it read.  Characters are numbers; an unsigned long *)
(* has Bits bits and a short ShortBits; a floating point number is a       *)
(* number of thousandths, and its arithmetic exact.  The file is a         *)
(* sequence of bytes here; SdFile has how it gets to the card.             *)
(***************************************************************************)
EXTENDS Integers, Sequences, FiniteSets

CONSTANTS
  Bits, ShortBits,        \* width of uint32_t and of short
  BigFloat,               \* above it nothing but "BIG FLT" is printed
  Files, OpenModes,       \* what a file holds at first, and how it is opened
  BufTexts,               \* texts an ibufstream reads
  BufSizes,               \* sizes of an obufstream
  Widths, Precisions,     \* set before something is put
  Numbers, Floats, Strs,  \* what is put
  MaxCalls                \* bound: operations on a stream

Word == 2^Bits
LF == 10
CR == 13
Blank == 32
Zero == 48
Dot == 46
Plus == 43
Minus == 45
True == <<116, 114, 117, 101>>
False == <<102, 97, 108, 115, 101>>
BIG_FLT == <<66, 73, 71, 32, 70, 76, 84>>

isspace(c) == c = Blank \/ c \in 9..13
isdigit(c) == c \in 48..57
isupper(c) == c \in 65..90
isalpha(c) == isupper(c) \/ c \in 97..122

\* ios_base() and ios(): dec, right, skipws.
Defaults == [base |-> 10, adjust |-> "right", showbase |-> FALSE, showpos |-> FALSE,
             showpoint |-> FALSE, uppercase |-> FALSE, boolalpha |-> FALSE, skipws |-> TRUE,
             fill |-> Blank, width |-> 0, precision |-> 2]

\* A stream that is not open; a stream over a buffer has a size and no mode.
Closed == [kind |-> "file", raw |-> <<>>, pos |-> 0, size |-> 0, r |-> FALSE, w |-> FALSE,
           app |-> FALSE, bin |-> FALSE, state |-> {}, fmt |-> Defaults, gcount |-> 0]

\* The manipulators and setters of ios_base; width holds for one value.
Manipulated(f) ==
  {[f EXCEPT !.base = x] : x \in {8, 10, 16}}
    \cup {[f EXCEPT !.adjust = x] : x \in {"left", "right", "internal"}}
    \cup UNION {{[f EXCEPT !.showbase = x], [f EXCEPT !.showpos = x], [f EXCEPT !.showpoint = x],
                 [f EXCEPT !.uppercase = x], [f EXCEPT !.boolalpha = x]} : x \in BOOLEAN}
    \cup {[f EXCEPT !.fill = x] : x \in {Blank, Zero}}
    \cup {[f EXCEPT !.width = x] : x \in Widths} \cup {[f EXCEPT !.precision = x] : x \in Precisions}
\* Those that input looks at.
InputManipulated(f) ==
  {[f EXCEPT !.base = x] : x \in {8, 10, 16}} \cup {[f EXCEPT !.skipws = x] : x \in BOOLEAN}

setstate(s, bit) == [s EXCEPT !.state = @ \cup {bit}]
fail(s) == s.state \cap {"fail", "bad"} # {}
SetPos(s, p) == [s EXCEPT !.pos = p]

-----------------------------------------------------------------------------
(***************************************************************************)
(* SdStreamBase and ibufstream, obufstream.                                *)
(***************************************************************************)
\* The modes without ate and binary, and what of a file they open; any other
\* is refused.  O_CREAT where there is w and not in|out alone.
Modes == {{"app", "in"}, {"app", "in", "out"}, {"app"}, {"app", "out"}, {"in"}, {"in", "out"},
          {"in", "out", "trunc"}, {"out"}, {"out", "trunc"}}
Creates(m) == m \notin {{"in"}, {"in", "out"}}
Truncates(m) == m \in {{"in", "out", "trunc"}, {"out"}, {"out", "trunc"}}

\* open(): of a file that is there with this content, or is not there.
open(s, mode, exists, raw) ==
  LET m == mode \cap {"app", "in", "out", "trunc"}
      content == IF exists /\ ~Truncates(m) THEN raw ELSE <<>>
  IN IF m \notin Modes \/ (~exists /\ ~Creates(m)) THEN setstate([Closed EXCEPT !.state = s.state], "fail")
     ELSE [s EXCEPT !.raw = content, !.pos = IF "ate" \in mode THEN Len(content) ELSE 0,
                    !.r = "in" \in m, !.w = m # {"in"}, !.app = "app" \in m,
                    !.bin = "binary" \in mode, !.state = {}]

\* SdBaseFile::write(): at the end if the file is opened to append.
write(s, t) ==
  LET p == IF s.app THEN Len(s.raw) ELSE s.pos
  IN IF ~s.w THEN setstate(s, "bad")
     ELSE [s EXCEPT !.raw = SubSeq(@, 1, p) \o t \o SubSeq(@, p + Len(t) + 1, Len(@)),
                    !.pos = p + Len(t)]

putch(s, c) ==
  IF s.kind = "file" THEN write(s, IF c = LF /\ ~s.bin THEN <<CR, LF>> ELSE <<c>>)
  ELSE IF Len(s.raw) >= s.size - 1 THEN setstate(s, "bad")
  ELSE [s EXCEPT !.raw = Append(@, c)]

putstr(s, t) ==
  LET put[i \in 0..Len(t)] == IF i = 0 THEN s ELSE putch(put[i - 1], t[i])
  IN put[Len(t)]

getch(s) ==
  LET c == s.raw[s.pos + 1]
      crlf == s.kind = "file" /\ ~s.bin /\ c = CR /\ s.pos + 1 < Len(s.raw) /\ s.raw[s.pos + 2] = LF
  IN IF s.kind = "file" /\ ~s.r THEN [s |-> setstate(s, "bad"), c |-> -1]
     ELSE IF s.pos >= Len(s.raw) THEN [s |-> setstate(s, "eof"), c |-> -1]
     ELSE IF crlf THEN [s |-> SetPos(s, s.pos + 2), c |-> LF]
     ELSE [s |-> SetPos(s, s.pos + 1), c |-> c]

\* seekg() and seekp() with a position, and relative to a place in a file.
seekpos(s, p) ==
  IF s.kind = "file" THEN IF p \in 0..Len(s.raw) THEN SetPos(s, p) ELSE setstate(s, "fail")
  ELSE IF s.size = 0 THEN IF p \in 0..(Len(s.raw) - 1) THEN SetPos(s, p) ELSE setstate(s, "fail")
  ELSE IF p \in 0..Len(s.raw) THEN [s EXCEPT !.raw = SubSeq(@, 1, p)] ELSE setstate(s, "fail")

seekoff(s, off, way) ==
  IF s.kind = "buffer" THEN setstate(s, "fail")
  ELSE seekpos(s, off + CASE way = "beg" -> 0 [] way = "cur" -> s.pos [] way = "end" -> Len(s.raw))

\* SdBaseFile::fgets(), which has only the bytes of the file.
fgets(s, num) ==
  LET stop == {i \in s.pos..Len(s.raw) :
                 \/ i = Len(s.raw) \/ (i > s.pos /\ s.raw[i] = LF)
                 \/ Cardinality({j \in (s.pos + 1)..i : s.raw[j] # CR}) + 1 >= num}
      end == CHOOSE i \in stop : \A j \in stop : i <= j
  IN [s |-> SetPos(s, end),
      ret |-> SelectSeq(SubSeq(s.raw, s.pos + 1, end), LAMBDA c : c # CR)]

-----------------------------------------------------------------------------
(***************************************************************************)
(* ostream                                                                 *)
(***************************************************************************)
do_fill(s, len) ==
  LET n == IF len < s.fmt.width THEN s.fmt.width - len ELSE 0
  IN [putstr(s, [i \in 1..n |-> s.fmt.fill]) EXCEPT !.fmt.width = 0]
fill_not_left(s, len) == IF s.fmt.adjust # "left" THEN do_fill(s, len) ELSE s

Digit(d, uppercase) == IF d < 10 THEN 48 + d ELSE IF uppercase THEN 55 + d ELSE 87 + d
fmtNum(n, base, uppercase) ==
  LET str[m \in 0..n] ==
        IF m < base THEN <<Digit(m, uppercase)>> ELSE Append(str[m \div base], Digit(m % base, uppercase))
  IN str[n]

putStr(s, t) == do_fill(putstr(fill_not_left(s, Len(t)), t), Len(t))
putChar(s, c) == do_fill(putch(fill_not_left(s, 1), c), 1)
putBool(s, b) ==
  IF s.fmt.boolalpha THEN putStr(s, IF b THEN True ELSE False)
  ELSE putChar(s, IF b THEN 49 ELSE 48)

\* A sign or prefix, the digits, and what is put behind them.
PutParts(s, pre, str, rest) ==
  LET len == Len(pre) + Len(str) + Len(rest)
      internal == s.fmt.adjust = "internal"
      s1 == IF internal THEN do_fill(putstr(s, pre), len) ELSE fill_not_left(s, len)
  IN do_fill(putstr(s1, (IF internal THEN <<>> ELSE pre) \o str \o rest), len)

putNumUnsigned(s, n, neg) ==
  LET f == s.fmt
      sign == IF neg THEN <<Minus>> ELSE IF f.showpos THEN <<Plus>> ELSE <<>>
      prefix == IF ~f.showbase THEN <<>>
                ELSE IF f.base = 16 THEN <<Zero, IF f.uppercase THEN 88 ELSE 120>> ELSE <<Zero>>
  IN PutParts(s, IF f.base = 10 THEN sign ELSE prefix, fmtNum(n, f.base, f.uppercase), <<>>)

putNum(s, n) ==
  LET neg == n < 0 /\ s.fmt.base = 10
  IN putNumUnsigned(s, (IF neg THEN 0 - n ELSE n) % Word, neg)

\* A number of thousandths: rounded by a half of the last digit, cut off.
putDouble(s, n) ==
  LET f == s.fmt
      nd == f.precision
      abs == IF n < 0 THEN 0 - n ELSE n
      round == 1000 \div 10^nd
      twice == 2 * abs + round
      intPart == twice \div 2000
      fraction[i \in 0..nd] == IF i = 0 THEN twice % 2000 ELSE (10 * fraction[i - 1]) % 2000
  IN IF abs > BigFloat THEN putStr(s, BIG_FLT)
     ELSE PutParts(s,
            IF n < 0 THEN <<Minus>> ELSE IF f.showpos THEN <<Plus>> ELSE <<>>,
            fmtNum(intPart, 10, FALSE) \o (IF nd > 0 \/ f.showpoint THEN <<Dot>> ELSE <<>>),
            [i \in 1..nd |-> 48 + (10 * fraction[i - 1]) \div 2000])

-----------------------------------------------------------------------------
(***************************************************************************)
(* istream, unformatted: with the number of characters extracted.          *)
(***************************************************************************)
get(s) ==
  LET g == getch(s)
  IN IF g.c < 0 THEN [s |-> [setstate(g.s, "fail") EXCEPT !.gcount = 0], ret |-> <<>>]
     ELSE [s |-> [g.s EXCEPT !.gcount = 1], ret |-> <<g.c>>]

\* Extracted: the stream, the characters stored, and their number.
Counted(s, str, n) == [s |-> [(IF n = 0 THEN setstate(s, "fail") ELSE s) EXCEPT !.gcount = n],
                       ret |-> str]

RECURSIVE GetInto(_, _, _, _)
GetInto(s, str, n, delim) ==
  LET g == getch(s)
  IN IF Len(str) + 1 >= n \/ g.c = delim THEN Counted(s, str, Len(str))
     ELSE IF g.c < 0 THEN Counted(g.s, str, Len(str))
     ELSE GetInto(g.s, Append(str, g.c), n, delim)
getStrN(s, n, delim) == GetInto(s, <<>>, n, delim)

\* Mutant: the character that does not fit is not given back.
RECURSIVE LineLossy(_, _, _, _)
LineLossy(s, str, n, delim) ==
  LET g == getch(s)
  IN IF g.c < 0 THEN Counted(g.s, str, Len(str))
     ELSE IF g.c = delim THEN Counted(g.s, str, Len(str) + 1)
     ELSE IF Len(str) + 1 >= n THEN Counted(setstate(g.s, "fail"), str, Len(str))
     ELSE LineLossy(g.s, Append(str, g.c), n, delim)
getlineLossy(s, n, delim) == LineLossy(s, <<>>, n, delim)

RECURSIVE LineInto(_, _, _, _)
LineInto(s, str, n, delim) ==
  LET g == getch(s)
  IN IF g.c < 0 THEN Counted(g.s, str, Len(str))
     ELSE IF g.c = delim THEN Counted(g.s, str, Len(str) + 1)
     ELSE IF Len(str) + 1 >= n THEN Counted(setstate(s, "fail"), str, Len(str))
     ELSE LineInto(g.s, Append(str, g.c), n, delim)
getline(s, n, delim) == LineInto(s, <<>>, n, delim)

RECURSIVE IgnoreMore(_, _, _, _)
IgnoreMore(s, count, n, delim) ==
  LET g == getch(s)
  IN IF count >= n THEN [s EXCEPT !.gcount = count]
     ELSE IF g.c < 0 THEN [g.s EXCEPT !.gcount = count]
     ELSE IF g.c = delim THEN [g.s EXCEPT !.gcount = count + 1]
     ELSE IgnoreMore(g.s, count + 1, n, delim)
ignore(s, n, delim) == [s |-> IgnoreMore(s, 0, n, delim), ret |-> <<>>]

peek(s) ==
  LET g == getch(s)
      s1 == [g.s EXCEPT !.gcount = 0]
  IN [s |-> IF g.c >= 0 THEN SetPos(s1, s.pos)
            ELSE IF "bad" \in s1.state THEN s1 ELSE setstate(s1, "eof"),
      ret |-> IF g.c < 0 THEN <<>> ELSE <<g.c>>]

RECURSIVE skipWhite(_)
skipWhite(s) ==
  LET g == getch(s)
  IN IF isspace(g.c) THEN skipWhite(g.s) ELSE SetPos(g.s, s.pos)

-----------------------------------------------------------------------------
(***************************************************************************)
(* istream, formatted.                                                     *)
(***************************************************************************)
RECURSIVE readSkip(_)
readSkip(s) ==
  LET g == getch(s)
  IN IF isspace(g.c) /\ s.fmt.skipws THEN readSkip(g.s) ELSE g

\* A value is a sequence of one element, or nothing if there is none.
Failed(s) == [s |-> setstate(s, "fail"), ret |-> <<>>]
Value(s, v) == [s |-> s, ret |-> <<v>>]

getChar(s) ==
  LET g == readSkip(s) IN IF g.c < 0 THEN Failed(g.s) ELSE Value(g.s, g.c)

\* "pos" is where the stream is set back to if g, which was read from there,
\* is not part of the text.
RECURSIVE StrInto(_, _, _, _)
StrInto(pos, g, str, m) ==
  IF Len(str) >= m \/ g.c < 0 THEN [s |-> g.s, ret |-> str]
  ELSE IF isspace(g.c) THEN [s |-> SetPos(g.s, pos), ret |-> str]
  ELSE StrInto(g.s.pos, getch(g.s), Append(str, g.c), m)

getStr(s) ==
  LET m == IF s.fmt.width = 0 THEN 65534 ELSE s.fmt.width - 1
      r == IF m = 0 THEN [s |-> s, ret |-> <<>>] ELSE StrInto(s.pos, readSkip(s), <<>>, m)
  IN [s |-> [(IF r.ret = <<>> THEN setstate(r.s, "fail") ELSE r.s) EXCEPT !.fmt.width = 0],
      ret |-> r.ret]

\* Where the sign is read, and what follows it.
Signed(g) == IF g.c \in {Plus, Minus} THEN getch(g.s) ELSE g

DigitOf(c) == IF isdigit(c) THEN c - 48
              ELSE IF isupper(c) THEN c - 55
              ELSE IF isalpha(c) THEN c - 87 ELSE 36

\* g is the next character, pos the position behind the last good one.
RECURSIVE Digits(_, _, _, _, _, _)
Digits(pos, g, val, any, base, max) ==
  LET d == DigitOf(g.c)
      over == val > max \div base \/ (val = max \div base /\ d > max % base)
  IN IF d >= base THEN [s |-> SetPos(g.s, pos), val |-> val, any |-> any]
     ELSE IF over THEN [s |-> SetPos(g.s, pos), val |-> val, any |-> -1]
     ELSE Digits(g.s.pos, getch(g.s), val * base + d, 1, base, max)

\* Behind 0x the zero counts if no digit follows.
HexFrom(pos, g, max) ==
  IF g.c \in {88, 120}
  THEN LET r == Digits(pos, getch(g.s), 0, 0, 16, max) IN [r EXCEPT !.any = IF @ = 0 THEN 1 ELSE @]
  ELSE Digits(pos, g, 0, 1, 16, max)
NumberFrom(pos, g, base, max) ==
  IF base = 16 /\ g.c = Zero THEN HexFrom(g.s.pos, getch(g.s), max) ELSE Digits(pos, g, 0, 0, base, max)

Numbered(neg, r) ==
  IF r.any > 0 THEN Value(r.s, (IF neg THEN 0 - r.val ELSE r.val) % Word) ELSE Failed(r.s)
NumberAt(s, g, posMax, negMax) ==
  Numbered(g.c = Minus, NumberFrom(s.pos, Signed(g), s.fmt.base,
                                   IF g.c = Minus THEN negMax ELSE posMax))
getNumber(s, posMax, negMax) == NumberAt(s, readSkip(s), posMax, negMax)

\* The number as a type of this width, signed or not.
Typed(v, bits, signed) ==
  LET m == v % 2^bits IN IF signed /\ m >= 2^(bits - 1) THEN m - 2^bits ELSE m
getNumberOf(s, bits, signed) ==
  LET max == 2^(bits - IF signed THEN 1 ELSE 0) - 1
  IN [getNumber(s, max, IF signed THEN max + 1 ELSE max)
        EXCEPT !.ret = [i \in DOMAIN @ |-> Typed(@[i], bits, signed)]]

RECURSIVE BoolFrom(_, _, _, _)
BoolFrom(g, i, trueOk, falseOk) ==
  LET f == falseOk /\ g.c = False[i]
      t == trueOk /\ g.c = True[i]
  IN IF ~t /\ ~f THEN Failed(g.s)
     ELSE IF t /\ i = 4 THEN Value(g.s, 1)
     ELSE IF f /\ i = 5 THEN Value(g.s, 0)
     ELSE BoolFrom(getch(g.s), i + 1, t, f)
getBool(s) ==
  IF s.fmt.boolalpha THEN BoolFrom(readSkip(s), 1, TRUE, TRUE)
  ELSE getNumberOf(s, 1, FALSE)

\* The mantissa: digits that do not fit count for the exponent only.
EXP_LIMIT == 100
MaxExponent == 38
RECURSIVE Mantissa(_, _, _)
Mantissa(pos, g, m) ==
  LET fits == m.frac < (Word - 1) \div 10
      m1 == [m EXCEPT !.got_digit = TRUE,
                      !.frac = IF fits THEN @ * 10 + g.c - 48 ELSE @,
                      !.exp = @ + (IF fits THEN (IF m.got_dot THEN -1 ELSE 0)
                                   ELSE IF m.got_dot THEN 0 ELSE 1)]
  IN IF isdigit(g.c) THEN Mantissa(g.s.pos, getch(g.s), m1)
     ELSE IF ~m.got_dot /\ g.c = Dot THEN Mantissa(g.s.pos, getch(g.s), [m EXCEPT !.got_dot = TRUE])
     ELSE [pos |-> pos, g |-> g, m |-> m]

RECURSIVE Exponent(_, _, _)
Exponent(pos, g, exp) ==
  IF ~isdigit(g.c) \/ exp > EXP_LIMIT THEN [pos |-> pos, g |-> g, exp |-> exp]
  ELSE Exponent(g.s.pos, getch(g.s), exp * 10 + g.c - 48)

\* The value is frac times ten to the power of exp.
Scaled(neg, frac, exp, s) ==
  IF frac # 0 /\ exp \notin (0 - MaxExponent)..MaxExponent THEN Failed(s)
  ELSE Value(s, [neg |-> neg, frac |-> frac, exp |-> exp])
WithExponent(neg, m, expNeg, e) ==
  IF isdigit(e.g.c) THEN Failed(SetPos(e.g.s, e.pos))
  ELSE Scaled(neg, m.frac, m.exp + IF expNeg THEN 0 - e.exp ELSE e.exp, SetPos(e.g.s, e.pos))
ExponentAt(neg, pos, m, g) == WithExponent(neg, m, g.c = Minus, Exponent(pos, Signed(g), 0))

DoubleFrom(neg, r) ==
  IF ~r.m.got_digit THEN Failed(SetPos(r.g.s, r.pos))
  ELSE IF r.g.c \in {69, 101} THEN ExponentAt(neg, r.pos, r.m, getch(r.g.s))
  ELSE Scaled(neg, r.m.frac, r.m.exp, SetPos(r.g.s, r.pos))
DoubleAt(pos, g) ==
  DoubleFrom(g.c = Minus,
             Mantissa(pos, Signed(g), [got_digit |-> FALSE, got_dot |-> FALSE, frac |-> 0, exp |-> 0]))
getDouble(s) == DoubleAt(s.pos, readSkip(s))

-----------------------------------------------------------------------------
(***************************************************************************)
(* One stream and the calls on it; "call" is the last one.                 *)
(***************************************************************************)
VARIABLES stream, call, calls

stvars == <<stream, call, calls>>

Buffer(raw, size) == [Closed EXCEPT !.kind = "buffer", !.raw = raw, !.r = size = 0,
                                    !.w = size > 0, !.size = size]

StInit ==
  /\ stream \in {[Closed EXCEPT !.raw = t] : t \in Files}
                 \cup {Buffer(t, 0) : t \in BufTexts} \cup {Buffer(<<>>, n) : n \in BufSizes}
  /\ call = [op |-> "none"] /\ calls = 0

Writes == {"put number", "put float", "put bool", "put text"}
Reads == {"get", "peek", "ws", "getline", "ignore", "fgets", "char", "str", "bool", "number", "float"}

\* An operation with its argument and what it returned.
Did(op, arg, s, ret) ==
  /\ calls < IF stream.kind = "file" THEN MaxCalls ELSE 1
  /\ stream' = s
  /\ call' = [op |-> op, arg |-> arg, ret |-> ret, was |-> stream]
  /\ calls' = calls + 1
Read(op, arg, r) == stream.r /\ Did(op, arg, r.s, r.ret)

Open(mode, exists) ==
  /\ stream.kind = "file" /\ ~stream.r /\ ~stream.w /\ stream.state = {}
  /\ Did("open", <<mode, exists>>, open(stream, mode, exists, stream.raw), <<>>)

Manipulate ==
  /\ stream.kind = "buffer" /\ calls = 0 /\ UNCHANGED <<call, calls>>
  /\ \E f \in IF stream.w THEN Manipulated(stream.fmt) ELSE InputManipulated(stream.fmt) :
       stream' = [stream EXCEPT !.fmt = f]

PutValue ==
  /\ stream.w
  /\ \/ \E n \in Numbers : Did("put number", n, putNum(stream, n), <<>>)
     \/ \E n \in Numbers : n >= 0 /\ Did("put number", n, putNumUnsigned(stream, n, FALSE), <<>>)
     \/ \E x \in Floats : Did("put float", x, putDouble(stream, x), <<>>)
     \/ \E b \in BOOLEAN : Did("put bool", b, putBool(stream, b), <<>>)
PutText ==
  /\ stream.w
  /\ \E t \in Strs : \/ Did("put text", t, putStr(stream, t), <<>>)
                     \/ Len(t) = 1 /\ Did("put text", t, putChar(stream, t[1]), <<>>)

Unformatted ==
  \/ Read("get", 0, get(stream))
  \/ Read("peek", 0, peek(stream))
  \/ Read("ws", 0, [s |-> skipWhite(stream), ret |-> <<>>])
  \/ \E n \in 1..3 :
       \/ Read("get", n, getStrN(stream, n, LF))
       \/ Read("getline", n, getline(stream, n, LF))
       \/ Read("ignore", n, ignore(stream, n, LF))
       \/ stream.kind = "file" /\ Read("fgets", n, fgets(stream, n))

Formatted ==
  \/ Read("char", 0, getChar(stream))
  \/ \E w \in {0, 2, 3} : Read("str", w, getStr([stream EXCEPT !.fmt.width = w]))
  \/ \E b \in BOOLEAN : Read("bool", b, getBool([stream EXCEPT !.fmt.boolalpha = b]))
  \/ \E bits \in {ShortBits, Bits}, signed \in BOOLEAN :
       Read("number", <<bits, signed>>, getNumberOf(stream, bits, signed))
  \/ Read("float", 0, getDouble(stream))

Seek ==
  /\ stream.r \/ stream.w
  /\ \E p \in 0..3 : \/ Did("seek", p, seekpos(stream, p), <<>>)
                    \/ \E way \in {"beg", "cur", "end"} : \E off \in {-1, 1} :
                         p = 0 /\ Did("seekoff", <<off, way>>, seekoff(stream, off, way), <<>>)

StNext == \/ \E mode \in OpenModes, exists \in BOOLEAN : Open(mode, exists)
          \/ Manipulate \/ PutValue \/ PutText \/ Unformatted \/ Formatted \/ Seek

StSpec == StInit /\ [][StNext]_stvars

-----------------------------------------------------------------------------
(***************************************************************************)
(* What is promised.  The text of a stream has no CR before a LF unless    *)
(* it is binary.                                                           *)
(***************************************************************************)
Between(s, p, q) ==
  LET crlf == {i \in DOMAIN s.raw : s.kind = "file" /\ ~s.bin /\ s.raw[i] = CR
                                   /\ i < Len(s.raw) /\ s.raw[i + 1] = LF}
      kept == SelectSeq([i \in DOMAIN s.raw |-> i], LAMBDA i : i \notin crlf /\ p < i /\ i <= q)
  IN [i \in DOMAIN kept |-> s.raw[kept[i]]]

Rest(s) == Between(s, s.pos, Len(s.raw))
Front(t, n) == SubSeq(t, 1, IF n < Len(t) THEN n ELSE Len(t))
Behind(t, n) == SubSeq(t, n + 1, Len(t))
\* How long the text is whose characters are none of these.
Without(t, C) == CHOOSE n \in 0..Len(t) :
                   /\ \A i \in 1..n : t[i] \notin C
                   /\ n = Len(t) \/ t[n + 1] \in C
With(t, C) == Without(t, {t[i] : i \in DOMAIN t} \ C)
Space == {Blank} \cup 9..13
Figures == 48..57

Power(b, n) == b^n
ValueOf(t, base) ==
  LET sum[i \in 0..Len(t)] == IF i = 0 THEN 0 ELSE sum[i - 1] + DigitOf(t[i]) * Power(base, Len(t) - i)
  IN sum[Len(t)]

\* The length of the number a text begins with, 0 if with none: a sign, 0x
\* if the base is 16, and digits; or with a dot among the digits and an
\* exponent.
SignLen(t) == IF t # <<>> /\ t[1] \in {Plus, Minus} THEN 1 ELSE 0
DigitsOf(base) == {c \in 48..122 : DigitOf(c) < base}
NumeralAt(t, base) ==
  LET k == SignLen(t)
      u == Behind(t, k)
      x == base = 16 /\ Len(u) > 2 /\ u[1] = Zero /\ u[2] \in {88, 120} /\ DigitOf(u[3]) < 16
  IN [sign |-> k, pre |-> IF x THEN 2 ELSE 0, digits |-> With(Behind(u, IF x THEN 2 ELSE 0), DigitsOf(base))]

\* n is the numeral u begins with, w what is before u.
NumberIs(u, n, base, bits, signed, ret, took, w) ==
  LET neg == n.sign = 1 /\ u[1] = Minus
      end == n.sign + n.pre + n.digits
      v == ValueOf(SubSeq(u, end - n.digits + 1, end), base)
      max == IF ~signed THEN 2^bits - 1 ELSE IF neg THEN 2^(bits - 1) ELSE 2^(bits - 1) - 1
  IN IF n.digits = 0 THEN ret = <<>> /\ took = 0
     ELSE IF v > max THEN ret = <<>> /\ took < w + end
     ELSE /\ ret = <<IF ~neg THEN v ELSE IF signed THEN 0 - v ELSE (0 - v) % 2^bits>>
          /\ took = w + end
NumberRead(t, w, base, bits, signed, ret, took) ==
  LET u == Behind(t, w) IN NumberIs(u, NumeralAt(u, base), base, bits, signed, ret, took, w)

\* int digits, frac behind a dot, and an exponent of exp digits with its sign.
FloatIs(t, neg, u, int, frac, dot, k, exp, ret, took) ==
  LET len == int + dot + frac
      ev == ValueOf(SubSeq(u, len + k + 2, len + k + 1 + exp), 10)
  IN /\ int + frac = 0 => ret = <<>>
     /\ int + frac \in 1..3 /\ exp <= 1 =>
          /\ ret = <<[neg |-> neg, frac |-> ValueOf(SubSeq(u, 1, int) \o SubSeq(u, int + 2, len), 10),
                     exp |-> (IF exp > 0 /\ k = 1 /\ u[len + 2] = Minus THEN 0 - ev ELSE ev) - frac]>>
          /\ took = Len(t) - Len(u) + len + IF exp > 0 THEN 1 + k + exp ELSE 0
FloatExponent(t, neg, u, int, frac, dot, ret, took) ==
  LET e == Behind(u, int + dot + frac)
      hasE == e # <<>> /\ e[1] \in {69, 101}
      k == IF hasE THEN SignLen(Behind(e, 1)) ELSE 0
  IN FloatIs(t, neg, u, int, frac, dot, k, IF hasE THEN With(Behind(e, 1 + k), Figures) ELSE 0, ret, took)
FloatFraction(t, neg, u, int, dot, ret, took) ==
  FloatExponent(t, neg, u, int, IF dot = 1 THEN With(Behind(u, int + 1), Figures) ELSE 0, dot, ret, took)
FloatInteger(t, neg, u, int, ret, took) ==
  FloatFraction(t, neg, u, int, IF int < Len(u) /\ u[int + 1] = Dot THEN 1 ELSE 0, ret, took)
FloatRead(t, w, ret, took) ==
  LET k == SignLen(Behind(t, w))
      u == Behind(t, w + k)
  IN FloatInteger(t, k = 1 /\ t[w + 1] = Minus, u, With(u, Figures), ret, took)

\* "rest" is the text before the call, of which took characters are gone: w
\* blanks, a word, or a line come first.
ReadIs(was, n, ret, rest, took, line, w, word) ==
  CASE call.op = "get" ->
         /\ ret = Front(rest, IF n = 0 THEN 1 ELSE IF line < n THEN line ELSE n - 1)
         /\ took = Len(ret)
         /\ ret = <<>> => "fail" \in stream.state
    [] call.op = "getline" ->
         /\ ret = Front(rest, IF line < n THEN line ELSE n - 1)
         /\ took = Len(ret) + IF line < n /\ line < Len(rest) THEN 1 ELSE 0
         /\ "fail" \in was.state \/ ("fail" \in stream.state <=> took = 0 \/ line >= n)
    [] call.op = "ignore" -> took = Len(Front(rest, IF line < n THEN line + 1 ELSE n))
    [] call.op = "peek" -> took = 0 /\ ret = Front(rest, 1) /\ stream.gcount = 0
    [] call.op = "ws" -> took = With(rest, Space)
    [] call.op = "char" -> ret = Front(Behind(rest, w), 1) /\ took = w + Len(ret)
    [] call.op = "str" ->
         /\ ret = Front(Behind(rest, w), IF n = 0 \/ word < n THEN word ELSE n - 1)
         /\ ret # <<>> => took - w - Len(ret) \in 0..(IF n = 0 \/ word < n - 1 THEN 0 ELSE 1)
    [] call.op = "number" -> NumberRead(rest, w, was.fmt.base, n[1], n[2], ret, took)
    [] call.op = "bool" ->
         IF n THEN ret = IF Front(Behind(rest, w), 4) = True THEN <<1>>
                         ELSE IF Front(Behind(rest, w), 5) = False THEN <<0>> ELSE <<>>
         ELSE NumberRead(rest, w, was.fmt.base, 1, FALSE, ret, took)
    [] call.op = "float" -> FloatRead(rest, w, ret, took)
    [] call.op = "fgets" ->
         /\ ret = SelectSeq(SubSeq(was.raw, was.pos + 1, stream.pos), LAMBDA c : c # CR)
         /\ \/ Len(ret) = n - 1 \/ stream.pos = Len(stream.raw)
            \/ ret # <<>> /\ ret[Len(ret)] = LF
         /\ \A i \in 1..(Len(ret) - 1) : ret[i] # LF

ReadOf(was, rest, took, w) ==
  /\ stream.raw = was.raw
  /\ call.op \in {"get", "getline", "ignore"} =>
       /\ stream.gcount = took
       /\ "eof" \in stream.state \ was.state => took = Len(rest)
  /\ ReadIs(was, call.arg, call.ret, rest, took, Without(rest, {LF}), w, Without(Behind(rest, w), Space))

SkippedOf(was, rest) == IF was.fmt.skipws THEN With(rest, Space) ELSE 0
ReadExact ==
  LET was == call.was
      rest == Rest(was)
  IN ReadOf(was, rest, Len(Between(was, was.pos, stream.pos)), SkippedOf(was, rest))

-----------------------------------------------------------------------------
\* What a value looks like: sign or prefix, and the rest.
Numeral(v, base, uppercase) ==
  LET len == CHOOSE k \in 1..(Bits + 1) : v < Power(base, k) /\ (k = 1 \/ v >= Power(base, k - 1))
  IN [i \in 1..len |-> Digit((v \div Power(base, len - i)) % base, uppercase)]

Looks(op, v, f) ==
  CASE op = "put number" /\ f.base = 10 ->
         <<IF v < 0 THEN <<Minus>> ELSE IF f.showpos THEN <<Plus>> ELSE <<>>,
           Numeral(IF v < 0 THEN 0 - v ELSE v, 10, FALSE)>>
    [] op = "put number" /\ f.base # 10 ->
         <<IF ~f.showbase THEN <<>> ELSE IF f.base = 8 THEN <<Zero>>
           ELSE <<Zero, IF f.uppercase THEN 88 ELSE 120>>,
           Numeral(v % Word, f.base, f.uppercase)>>
    [] op = "put bool" ->
         << <<>>, IF f.boolalpha THEN IF v THEN True ELSE False ELSE <<IF v THEN 49 ELSE 48>> >>
    [] op = "put text" -> << <<>>, v>>

\* A value is filled up to the width at the side the flags say.
Filled(l, f) ==
  LET len == Len(l[1] \o l[2])
      pad == [i \in 1..(IF len < f.width THEN f.width - len ELSE 0) |-> f.fill]
  IN CASE f.adjust = "left" -> l[1] \o l[2] \o pad
       [] f.adjust = "right" -> pad \o l[1] \o l[2]
       [] f.adjust = "internal" -> l[1] \o pad \o l[2]

\* It can be read back if the filling cannot be taken for a part of it.
Readable(f) ==
  \/ f.width = 0
  \/ f.fill = Blank /\ f.adjust # "internal"
  \/ f.fill = Zero /\ f.adjust = "internal"

Absolute(v) == IF v < 0 THEN 0 - v ELSE v

\* The nearest number with so many digits.
FloatBack(v, precision, r) ==
  LET unit == Power(10, 3 - precision)
  IN IF Absolute(v) > BigFloat THEN r = <<>>
     ELSE /\ r # <<>> /\ r[1].exp = 0 - precision
          /\ r[1].neg <=> v < 0
          /\ 2 * (r[1].frac * unit - Absolute(v)) \in (1 - unit)..unit

ReadBack(back, op, v, f) ==
  CASE op = "put number" ->
         getNumberOf(back, Bits, v < 0 /\ f.base = 10).ret = <<IF f.base = 10 THEN v ELSE v % Word>>
    [] op = "put float" -> FloatBack(v, f.precision, getDouble(back).ret)
    [] op = "put bool" -> f.fill = Blank => getBool(back).ret = <<IF v THEN 1 ELSE 0>>
    [] OTHER -> TRUE

WrittenAs(all, op, size) ==
  op # "put float" =>
    /\ stream.raw = Front(all, size - 1)
    /\ "bad" \in stream.state <=> Len(stream.raw) < Len(all)
BufferWritten(op, v, f, size) ==
  /\ stream.fmt = [f EXCEPT !.width = 0]
  /\ WrittenAs(Filled(Looks(op, v, f), f), op, size)
  /\ stream.state = {} => Len(stream.raw) >= f.width
  /\ stream.state = {} /\ Readable(f) => ReadBack([stream EXCEPT !.r = TRUE, !.pos = 0], op, v, f)

FileWritten(was, end, op, v) ==
  was.app \/ was.pos = end =>
    /\ op # "put float" => Between(stream, end, stream.pos) = Filled(Looks(op, v, was.fmt), was.fmt)
    /\ Between(stream, 0, end) = Between(was, 0, end)

WriteExact ==
  LET was == call.was
  IN IF stream.kind = "buffer" THEN BufferWritten(call.op, call.arg, was.fmt, was.size)
     ELSE FileWritten(was, Len(was.raw), call.op, call.arg)

\* What is put on a stream is there as its flags say, as much of it as the
\* buffer holds, and is read back as the same value; whatever is read is what
\* the text begins with, and nothing is taken from the stream that was not
\* asked for or given back: a line, a word, a number are read to their end,
\* also those that are too long or too large, and gcount() tells how many
\* characters are gone (istream.cpp, ostream.cpp, SdStream.cpp,
\* bufstream.h; comments of get(), getline(), ignore(), peek()).
StreamsAreExact ==
  /\ call.op \in Reads => ReadExact
  /\ call.op \in Writes => WriteExact

=============================================================================
