---------------------------- MODULE PrintStream ----------------------------
(***************************************************************************)
(* Print and Stream of the Arduino core (Print.cpp, Stream.cpp), the       *)
(* fields, dates and directory listings SdFat prints with them             *)
(* (SdBaseFilePrint.cpp), and the parsers that read such text back from a  *)
(* stream whose characters come in bursts: Pause stands for a silence that *)
(* is longer than the timeout.  Characters are numbers, a long has Bits    *)
(* bits, a floating point number is a number of thousandths and its        *)
(* arithmetic exact.                                                       *)
(***************************************************************************)
EXTENDS Integers, Sequences, FiniteSets

CONSTANTS
  Bits,           \* width of a long
  Overflow,       \* above it "ovf" is printed
  Inputs,         \* what comes in
  Longs, Bases, Reals, Precisions,
  Dates, Times, Trees,
  Targets, Ends,  \* what is searched, and what ends the search
  MaxReads        \* bound: calls on one input

Pause == -1
CR == 13
LF == 10
Blank == 32
Comma == 44
Minus == 45
Dot == 46
NO_SKIP_CHAR == 1
Ovf == <<111, 118, 102>>

IsDigit(c) == c \in 48..57

-----------------------------------------------------------------------------
(***************************************************************************)
(* Print.  A call returns how many characters the sink took; "out" has a   *)
(* place for room characters.                                              *)
(***************************************************************************)
Sink(room) == [out |-> <<>>, room |-> room, n |-> 0]
write(o, t) ==
  LET free == o.room - Len(o.out)
      taken == IF Len(t) < free THEN t ELSE SubSeq(t, 1, free)
  IN [o EXCEPT !.out = @ \o taken, !.n = @ + Len(taken)]
println(o) == write(write(o, <<CR>>), <<LF>>)

DigitChar(d) == IF d < 10 THEN 48 + d ELSE 55 + d
printNumber(o, n, base) ==
  LET b == IF base < 2 THEN 10 ELSE base
      str[m \in 0..n] == IF m < b THEN <<DigitChar(m)>> ELSE Append(str[m \div b], DigitChar(m % b))
  IN write(o, str[n])

\* print(unsigned long, base) and print(long, base); the byte for base 0.
printUnsigned(o, n, base) ==
  IF base = 0 THEN write(o, <<n % 256>>) ELSE printNumber(o, n, base)
printLong(o, n, base) ==
  IF base = 0 THEN write(o, <<n % 256>>)
  ELSE IF base = 10 /\ n < 0 THEN printNumber(write(o, <<Minus>>), (0 - n) % 2^Bits, 10)
  ELSE printNumber(o, n % 2^Bits, base)

printFloat(o, number, digits) ==
  LET abs == IF number < 0 THEN 0 - number ELSE number
      twice == 2 * abs + 1000 \div 10^digits
      o1 == IF number < 0 THEN write(o, <<Minus>>) ELSE o
      o2 == printUnsigned(o1, twice \div 2000, 10)
      remainder[i \in 0..digits] ==
        IF i = 0 THEN twice % 2000 ELSE (10 * remainder[i - 1]) % 2000
      each[i \in 0..digits] ==
        IF i = 0 THEN write(o2, <<Dot>>)
        ELSE printLong(each[i - 1], (10 * remainder[i - 1]) \div 2000, 10)
  IN IF abs > Overflow THEN write(o, Ovf) ELSE IF digits = 0 THEN o2 ELSE each[digits]

-----------------------------------------------------------------------------
(***************************************************************************)
(* SdBaseFilePrint.                                                        *)
(***************************************************************************)
\* Mutant: without the leading 0.
print2uBare(o, v) == printUnsigned(o, v, 10)

print2u(o, v) == printUnsigned(IF v < 10 THEN write(o, <<48>>) ELSE o, v, 10)

FAT_DATE(d) == (d.year - 1980) * 512 + d.month * 32 + d.day
FAT_TIME(t) == t.hour * 2048 + t.minute * 32 + t.second \div 2

printFatDate(o, fatDate) ==
  LET year == write(printUnsigned(o, 1980 + fatDate \div 512, 10), <<Minus>>)
      month == write(print2u(year, (fatDate \div 32) % 16), <<Minus>>)
  IN print2u(month, fatDate % 32)
printFatTime(o, fatTime) ==
  LET hour == write(print2u(o, fatTime \div 2048), <<58>>)
      minute == write(print2u(hour, (fatTime \div 32) % 64), <<58>>)
  IN print2u(minute, 2 * (fatTime % 32))
printDateTime(o, d, t) == printFatTime(write(printFatDate(o, FAT_DATE(d)), <<Blank>>), FAT_TIME(t))

\* printField(): the number and its terminator, CR LF for LF.
printField(o, value, term) ==
  LET o1 == printNumber(IF value < 0 THEN write(o, <<Minus>>) ELSE o,
                        (IF value < 0 THEN 0 - value ELSE value) % 2^Bits, 10)
  IN write(o1, IF term = LF THEN <<CR, LF>> ELSE IF term = 0 THEN <<>> ELSE <<term>>)

\* ls(): a directory is a sequence of entries, a tree a sequence of
\* directories; a line has the numbers of the entries on the way to it, and
\* how far it is indented.
Skipped == {"deleted", "dot", "label"}
RECURSIVE ls(_, _, _, _, _)
ls(tree, dir, i, path, indent) ==
  LET e == tree[dir][i]
      line == [path |-> Append(path, i), indent |-> indent]
      next == ls(tree, dir, i + 1, path, indent)
  IN IF i > Len(tree[dir]) \/ e.kind = "free" THEN <<>>
     ELSE IF e.kind \in Skipped THEN next
     ELSE IF e.kind = "dir" THEN <<line>> \o ls(tree, e.sub, 1, line.path, indent + 2) \o next
     ELSE <<line>> \o next

-----------------------------------------------------------------------------
(***************************************************************************)
(* Stream: what is left of the input, and what a function returns.         *)
(***************************************************************************)
timedRead(in) == IF in = <<>> THEN [in |-> in, c |-> -1] ELSE [in |-> Tail(in), c |-> in[1]]
timedPeek(in) == IF in # <<>> /\ in[1] # Pause THEN [in |-> in, c |-> in[1]] ELSE timedRead(in)

RECURSIVE peekNextDigit(_)
peekNextDigit(in) ==
  LET p == timedPeek(in)
  IN IF p.c < 0 \/ p.c = Minus \/ IsDigit(p.c) THEN p ELSE peekNextDigit(Tail(p.in))

\* findUntil(): index and termIndex are the characters matched so far.
RECURSIVE Search(_, _, _, _, _)
Search(in, target, terminator, index, termIndex) ==
  LET r == timedRead(in)
      i == IF r.c # target[index + 1] THEN 0 ELSE index
      hit == r.c = target[i + 1]
      term == terminator # <<>> /\ r.c = terminator[termIndex + 1]
  IN IF r.c <= 0 THEN [in |-> r.in, ret |-> FALSE]
     ELSE IF hit /\ i + 1 >= Len(target) THEN [in |-> r.in, ret |-> TRUE]
     ELSE IF term /\ termIndex + 1 >= Len(terminator) THEN [in |-> r.in, ret |-> FALSE]
     ELSE Search(r.in, target, terminator,
                 IF hit THEN i + 1 ELSE i, IF term THEN termIndex + 1 ELSE 0)
findUntil(in, target, terminator) ==
  IF target = <<>> THEN [in |-> in, ret |-> TRUE] ELSE Search(in, target, terminator, 0, 0)

SignedLong(v) == LET m == v % 2^Bits IN IF m >= 2^(Bits - 1) THEN m - 2^Bits ELSE m

\* parseInt() and parseFloat(): p is the character looked at; a value is what
\* the digits make, and how many of them are behind the dot.
RECURSIVE ParseDigits(_, _, _, _)
ParseDigits(p, v, skipChar, dots) ==
  LET next == timedPeek(Tail(p.in))
      digit == p.c # skipChar /\ IsDigit(p.c)
      v1 == [neg |-> v.neg \/ (p.c # skipChar /\ p.c = Minus),
             fraction |-> v.fraction \/ (dots /\ p.c # skipChar /\ p.c = Dot),
             value |-> IF digit THEN SignedLong(v.value * 10 + p.c - 48) ELSE v.value,
             places |-> IF digit /\ v.fraction THEN v.places + 1 ELSE v.places]
  IN IF IsDigit(next.c) \/ next.c = skipChar \/ (dots /\ next.c = Dot)
     THEN ParseDigits(next, v1, skipChar, dots) ELSE [in |-> next.in, v |-> v1]

Result(in, v) ==
  [in |-> in, ret |-> <<IF v.neg THEN SignedLong(0 - v.value) ELSE v.value,
                       IF v.fraction THEN v.places ELSE 0>>]
ParsedFrom(p, skipChar, dots) ==
  LET none == [neg |-> FALSE, fraction |-> FALSE, value |-> 0, places |-> 0]
      r == ParseDigits(p, none, skipChar, dots)
  IN IF p.c < 0 THEN Result(p.in, none) ELSE Result(r.in, r.v)
Parsed(in, skipChar, dots) == ParsedFrom(peekNextDigit(in), skipChar, dots)
parseInt(in, skipChar) == Parsed(in, skipChar, FALSE)
parseFloat(in, skipChar) == Parsed(in, skipChar, TRUE)

\* readBytes(), readBytesUntil(), readString(), readStringUntil(): a number
\* of characters at most, up to a terminator (-1 if there is none).
RECURSIVE ReadInto(_, _, _, _)
ReadInto(in, str, length, terminator) ==
  LET r == timedRead(in)
  IN IF Len(str) >= length THEN [in |-> in, ret |-> str]
     ELSE IF r.c < 0 \/ r.c = terminator THEN [in |-> r.in, ret |-> str]
     ELSE ReadInto(r.in, Append(str, r.c), length, terminator)
readBytesUntil(in, terminator, length) == ReadInto(in, <<>>, length, terminator)
readStringUntil(in, terminator) == ReadInto(in, <<>>, Len(in) + 1, terminator)

-----------------------------------------------------------------------------
VARIABLES input, did, reads

psvars == <<input, did, reads>>

PsInit == input \in Inputs /\ did = [op |-> "none"] /\ reads = 0

Printed(op, arg, o) ==
  /\ reads = 0 /\ input = <<>>
  /\ did' = [op |-> op, arg |-> arg, ret |-> o]
  /\ reads' = MaxReads /\ UNCHANGED input

PrintNumbers ==
  \E room \in {2, 40}, n \in Longs :
    \/ \E base \in Bases : \/ Printed("long", <<n, base>>, println(printLong(Sink(room), n, base)))
                           \/ /\ n >= 0
                              /\ Printed("unsigned", <<n, base>>, println(printUnsigned(Sink(room), n, base)))
    \/ \E term \in {0, LF, Comma} : Printed("field", <<n, term>>, printField(Sink(room), n, term))

PrintReals ==
  \E room \in {2, 40}, x \in Reals, digits \in Precisions :
    Printed("float", <<x, digits>>, println(printFloat(Sink(room), x, digits)))

PrintDates ==
  \E d \in Dates, t \in Times : Printed("date", <<d, t>>, printDateTime(Sink(40), d, t))

List == \E tree \in Trees : Printed("ls", tree, ls(tree, 1, 1, <<>>, 0))

Called(op, arg, r) ==
  /\ reads < MaxReads
  /\ input' = r.in /\ reads' = reads + 1
  /\ did' = [op |-> op, arg |-> arg, ret |-> r.ret, was |-> input]

Find == \E t \in Targets, e \in Ends \cup {<<>>} : Called("find", <<t, e>>, findUntil(input, t, e))
Parse ==
  \E skipChar \in {NO_SKIP_CHAR, Comma} :
    \/ Called("parse", <<skipChar, FALSE>>, parseInt(input, skipChar))
    \/ Called("parse", <<skipChar, TRUE>>, parseFloat(input, skipChar))
ReadText ==
  \E terminator \in {-1, Comma} :
    \/ \E length \in 1..2 :
         Called("read", <<terminator, length>>, readBytesUntil(input, terminator, length))
    \/ Called("read", <<terminator, Len(input) + 1>>, readStringUntil(input, terminator))

PsNext == PrintNumbers \/ PrintReals \/ PrintDates \/ List \/ Find \/ Parse \/ ReadText

PsSpec == PsInit /\ [][PsNext]_psvars

-----------------------------------------------------------------------------
Least(I) == CHOOSE i \in I : \A j \in I : i <= j
Prefix(t, n) == SubSeq(t, 1, n)
Drop(t, n) == SubSeq(t, n + 1, Len(t))
EndsWith(t, e) == Len(e) <= Len(t) /\ Drop(t, Len(t) - Len(e)) = e
Filter(t, C) == SelectSeq(t, LAMBDA c : c \in C)
Figures == 48..57

\* The value of a decimal text.
Decimal(t) ==
  LET sum[i \in 0..Len(t)] == IF i = 0 THEN 0 ELSE 10 * sum[i - 1] + t[i] - 48
  IN sum[Len(t)]
Value(t) == IF t # <<>> /\ t[1] = Minus THEN 0 - Decimal(Drop(t, 1)) ELSE Decimal(t)

\* A search ends where its target has just been read, or its terminator, or
\* at a silence or a 0, whichever comes first.
FindExact(was, target, end, ret, took) ==
  LET t == Prefix(was, took)
      stops == {n \in 0..Len(was) :
                  \/ n > 0 /\ was[n] \in {Pause, 0}
                  \/ EndsWith(Prefix(was, n), target)
                  \/ end # <<>> /\ EndsWith(Prefix(was, n), end)
                  \/ n = Len(was)}
  IN took = Least(stops) /\ (ret <=> EndsWith(t, target))

\* A number begins at the first digit or minus before a silence.
NumberAt(text, ret) ==
  LET dot == Least({n \in 1..(Len(text) + 1) : n > Len(text) \/ text[n] = Dot})
      v == SignedLong(Decimal(Filter(text, Figures)))
  IN ret = <<IF text[1] = Minus THEN SignedLong(0 - v) ELSE v,
             Len(Filter(Drop(text, dot), Figures))>>
ParseFrom(was, first, inside, ret, took) ==
  LET last == Least({n \in first..Len(was) : n = Len(was) \/ was[n + 1] \notin inside})
  IN /\ took = last + IF last < Len(was) /\ was[last + 1] = Pause THEN 1 ELSE 0
     /\ NumberAt(SubSeq(was, first, last), ret)
ParseExact(was, skipChar, dots, ret, took) ==
  LET begin == Least({n \in 1..(Len(was) + 1) : n > Len(was) \/ was[n] \in Figures \cup {Minus, Pause}})
  IN IF begin > Len(was) THEN ret = <<0, 0>> /\ took = Len(was)
     ELSE IF was[begin] = Pause THEN ret = <<0, 0>> /\ took = begin
     ELSE ParseFrom(was, begin, Figures \cup {skipChar} \cup IF dots THEN {Dot} ELSE {}, ret, took)

\* Characters are read up to a silence, a terminator, or the length.
ReadsExact(was, terminator, length, ret, took) ==
  LET stop == Least({n \in 0..Len(was) : n = Len(was) \/ was[n + 1] \in {Pause, terminator}})
      n == IF stop < length THEN stop ELSE length
  IN ret = Prefix(was, n) /\ took = n + IF stop < length /\ stop < Len(was) THEN 1 ELSE 0

CallExact ==
  LET took == Len(did.was) - Len(input)
  IN /\ Drop(did.was, took) = input
     /\ CASE did.op = "find" -> FindExact(did.was, did.arg[1], did.arg[2], did.ret, took)
          [] did.op = "parse" -> ParseExact(did.was, did.arg[1], did.arg[2], did.ret, took)
          [] did.op = "read" -> ReadsExact(did.was, did.arg[1], did.arg[2], did.ret, took)

\* What is printed: as much of it as the sink took, counted, and what a
\* reader of the text understands by it.
AbsOf(v) == IF v < 0 THEN 0 - v ELSE v
DigitsMean(text, base, v) ==
  LET d(c) == IF c < 65 THEN c - 48 ELSE c - 55
      sum[i \in 0..Len(text)] == IF i = 0 THEN 0 ELSE base * sum[i - 1] + d(text[i])
  IN sum[Len(text)] = v /\ (text[1] = 48 => Len(text) = 1)
RealMeans(text, x, digits, r) ==
  LET unit == 10^(3 - digits)
  IN IF AbsOf(x) > Overflow THEN text = Ovf
     ELSE /\ 2 * (AbsOf(r[1]) * unit - AbsOf(x)) \in (1 - unit)..unit
          /\ r[2] = digits /\ (text[1] = Minus <=> x < 0)
Understood(text, v, n, op) ==
  CASE op = "float" -> RealMeans(text, v, n, parseFloat(text, NO_SKIP_CHAR).ret)
    [] op = "long" /\ n = 10 -> Value(text) = v /\ parseInt(text, NO_SKIP_CHAR).ret[1] = SignedLong(v)
    [] op # "float" /\ n # 10 /\ n > 0 -> DigitsMean(text, IF n = 1 THEN 10 ELSE n, v % 2^Bits)
    [] op = "unsigned" /\ n = 10 -> DigitsMean(text, 10, v)
    [] OTHER -> TRUE

DateExact(d, t, text) ==
  /\ Len(text) = 19
  /\ \A i \in {5, 8} : text[i] = Minus
  /\ text[11] = Blank /\ text[14] = 58 /\ text[17] = 58
  /\ Decimal(SubSeq(text, 1, 4)) = d.year /\ Decimal(SubSeq(text, 6, 7)) = d.month
  /\ Decimal(SubSeq(text, 9, 10)) = d.day /\ Decimal(SubSeq(text, 12, 13)) = t.hour
  /\ Decimal(SubSeq(text, 15, 16)) = t.minute
  /\ Decimal(SubSeq(text, 18, 19)) \in {t.second, t.second - 1}

\* Every entry that is a file or a directory is listed once, below its
\* directory, up to the first free entry of each.
Entry(tree, path) ==
  LET dir[k \in 1..Len(path)] == IF k = 1 THEN 1 ELSE tree[dir[k - 1]][path[k - 1]].sub
  IN tree[dir[Len(path)]]
ListedExact(tree, lines) ==
  LET shown == {lines[k].path : k \in DOMAIN lines}
      visible(entries) == {i \in DOMAIN entries :
                             /\ entries[i].kind \in {"file", "dir"}
                             /\ \A j \in 1..i : entries[j].kind # "free"}
  IN /\ Cardinality(shown) = Len(lines)
     /\ \A i \in visible(tree[1]) : <<i>> \in shown
     /\ \A k \in DOMAIN lines :
          LET p == lines[k].path
              e == Entry(tree, p)
          IN /\ p[Len(p)] \in visible(e) /\ lines[k].indent = 2 * (Len(p) - 1)
             /\ e[p[Len(p)]].kind = "dir" =>
                  \A i \in visible(tree[e[p[Len(p)]].sub]) : Append(p, i) \in shown
             /\ k > 1 => LET q == lines[k - 1].path
                         IN \/ p = Append(q, p[Len(p)])
                            \/ Len(p) <= Len(q) /\ Prefix(p, Len(p) - 1) = Prefix(q, Len(p) - 1)
                                /\ p[Len(p)] > q[Len(p)]

PrintExact ==
  LET o == did.ret
      a == did.arg
      text == IF EndsWith(o.out, <<CR, LF>>) THEN Prefix(o.out, Len(o.out) - 2) ELSE o.out
  IN CASE did.op = "ls" -> ListedExact(a, o)
       [] did.op = "date" -> DateExact(a[1], a[2], o.out)
       [] OTHER ->
            /\ o.n = Len(o.out) /\ o.n <= o.room
            /\ o.n < o.room =>
                 IF did.op = "field"
                 THEN Value(IF a[2] = 0 THEN o.out
                            ELSE Prefix(o.out, Len(o.out) - IF a[2] = LF THEN 2 ELSE 1)) = a[1]
                 ELSE EndsWith(o.out, <<CR, LF>>) /\ Understood(text, a[1], a[2], did.op)

\* What Print and SdFat print of a number, a date or a directory says what
\* it is, as many characters as are reported; and what the parsers of a
\* Stream return is what the characters say that have come, wherever a
\* silence cuts them, with nothing behind it taken
\* (Print.cpp, Stream.cpp, SdBaseFilePrint.cpp; comments of Stream.h).
PrintsAndParses ==
  CASE did.op = "none" -> TRUE
    [] did.op \in {"find", "parse", "read"} -> CallExact
    [] OTHER -> PrintExact

=============================================================================
