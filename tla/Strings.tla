------------------------------ MODULE Strings ------------------------------
(***************************************************************************)
(* Class String (cores/oseam/WString.cpp): objects with a buffer on the    *)
(* heap, a capacity and a length, the characters in memory with a 0 behind *)
(* them.  Every operation that changes a string is an action, with the     *)
(* calls of Heap it makes and a memory that may be exhausted; those that   *)
(* only read are operators.  Characters are numbers.  Numbers become text  *)
(* in the C library (itoa and its like): "cstr" stands for any text.       *)
(***************************************************************************)
EXTENDS Heap

CONSTANTS
  Names,          \* of the objects
  Texts,          \* the texts that are assigned and appended
  Sizes,          \* capacities that are reserved
  MaxLen          \* bound: length of a string

Blank == 32
Upper == {65}
Lower == {97}
tolower(c) == IF c \in Upper THEN c + 32 ELSE c
toupper(c) == IF c \in Lower THEN c - 32 ELSE c
Char == Upper \cup Lower \cup {Blank}

VARIABLES
  str,            \* buffer, capacity and len of each object
  val             \* history: valid, and the text the operations have made

svars == <<heap, str, val>>

Null == [buffer |-> 0, capacity |-> 0, len |-> 0]
Invalid == [valid |-> FALSE, text |-> <<>>]
Text(t) == [valid |-> TRUE, text |-> t]

SInit == /\ heap = Unused
         /\ str = [n \in Names |-> Null]
         /\ val = [n \in Names |-> Invalid]

-----------------------------------------------------------------------------
(***************************************************************************)
(* Memory: the text at an address, and the text written there, with its 0. *)
(***************************************************************************)
Ends(h, a) == {b \in a..(a + MaxLen) : b \notin Address \/ h.mem[b] \in {0, Garbage}}
At(h, a) == [i \in 1..(First(Ends(h, a)) - a) |-> h.mem[a + i - 1]]

\* memcpy(), and strcpy() with a 0 behind the text.
Copied(h, a, t) ==
  [h EXCEPT !.mem = [b \in Address |-> IF a <= b /\ b < a + Len(t) THEN t[b - a + 1] ELSE h.mem[b]]]
strcpy(h, a, t) == Copied(h, a, Append(t, 0))

\* A state of heap and objects, and the answer of the last function.
Now == [heap |-> heap, str |-> str, ret |-> TRUE]
Content(s, n) == IF s.str[n].len = 0 THEN <<>> ELSE At(s.heap, s.str[n].buffer)

Rebuffered(s, n, size, r) ==
  IF r.p = 0 THEN [s EXCEPT !.heap = r.h, !.ret = FALSE]
  ELSE [s EXCEPT !.heap = r.h, !.str[n].buffer = r.p, !.str[n].capacity = size, !.ret = TRUE]

\* Mutant: no place for the 0.
changeBufferShort(s, n, size, limit) ==
  Rebuffered(s, n, size, realloc(s.heap, s.str[n].buffer, size, limit))

changeBuffer(s, n, size, limit) ==
  Rebuffered(s, n, size, realloc(s.heap, s.str[n].buffer, size + 1, limit))

invalidate(s, n) ==
  [s EXCEPT !.heap = free(s.heap, s.str[n].buffer), !.str[n] = Null]

Emptied(s, n) ==
  IF s.ret /\ s.str[n].len = 0 THEN [s EXCEPT !.heap = strcpy(@, s.str[n].buffer, <<>>)] ELSE s

reserve(s, n, size, limit) ==
  IF s.str[n].buffer # 0 /\ s.str[n].capacity >= size THEN [s EXCEPT !.ret = TRUE]
  ELSE Emptied(changeBuffer(s, n, size, limit), n)

\* What copy() and concat() do once there is room, and if there is none.
CopiedInto(s, n, t) ==
  IF s.ret THEN [s EXCEPT !.str[n].len = Len(t), !.heap = strcpy(@, s.str[n].buffer, t)]
  ELSE invalidate(s, n)
copy(s, n, t, limit) == CopiedInto(reserve(s, n, Len(t), limit), n, t)

Appended(s, n, t) ==
  IF s.ret THEN [s EXCEPT !.str[n].len = @ + Len(t),
                          !.heap = strcpy(@, s.str[n].buffer + s.str[n].len, t)]
  ELSE s
concat(s, n, t, limit) ==
  IF t = <<>> THEN [s EXCEPT !.ret = TRUE]
  ELSE Appended(reserve(s, n, s.str[n].len + Len(t), limit), n, t)

-----------------------------------------------------------------------------
(***************************************************************************)
(* Search.  -1 is "not found"; positions begin with 0.                     *)
(***************************************************************************)
IsAt(t, f, i) == i + Len(f) <= Len(t) /\ SubSeq(t, i + 1, i + Len(f)) = f
Least(I) == IF I = {} THEN -1 ELSE CHOOSE i \in I : \A j \in I : i <= j
Greatest(I) == IF I = {} THEN -1 ELSE CHOOSE i \in I : \A j \in I : i >= j

\* strstr() from position i on.
strstr(t, f, i) == Least({j \in i..Len(t) : IsAt(t, f, j)})

indexOf(s, n, f, fromIndex) ==
  IF fromIndex >= s.str[n].len THEN -1 ELSE strstr(Content(s, n), f, fromIndex)

\* The places the loop finds, from p on.
Found(t, f, from) ==
  LET hit[p \in 0..(Len(t) + 1)] ==
        LET q == strstr(t, f, p)
        IN IF p > from \/ q = -1 THEN {} ELSE {q} \cup hit[q + 1]
  IN hit[0]

lastIndexOf(s, n, f, fromIndex) ==
  LET len == s.str[n].len
      from == IF fromIndex >= len THEN len - 1 ELSE fromIndex
  IN IF Len(f) = 0 \/ len = 0 \/ Len(f) > len THEN -1
     ELSE Greatest({i \in Found(Content(s, n), f, from) : i <= from})

lastIndexOfChar(s, n, ch, fromIndex) ==
  IF fromIndex >= s.str[n].len THEN -1
  ELSE Greatest({i \in 0..fromIndex : Content(s, n)[i + 1] = ch})

\* In the order of the characters: a number below, equal to or above 0.
strcmp(t, u) ==
  LET d == Least({i \in 1..(Len(t) + 1) : Append(t, 0)[i] # (u \o [j \in 1..Len(t) + 1 |-> 0])[i]})
      c == IF d > Len(u) THEN 0 ELSE u[d]
  IN IF d = -1 THEN (IF Len(u) > Len(t) THEN -1 ELSE 0) ELSE Append(t, 0)[d] - c

compareTo(s, n, m) ==
  IF s.str[n].buffer = 0 \/ s.str[m].buffer = 0
  THEN IF s.str[m].len > 0 THEN 0 - Content(s, m)[1]
       ELSE IF s.str[n].len > 0 THEN Content(s, n)[1] ELSE 0
  ELSE strcmp(Content(s, n), Content(s, m))

equals(s, n, m) == s.str[n].len = s.str[m].len /\ compareTo(s, n, m) = 0

equalsIgnoreCase(s, n, m) ==
  LET t == Content(s, n)
      u == Content(s, m)
  IN s.str[n].len = s.str[m].len /\ \A i \in DOMAIN t : tolower(t[i]) = tolower(u[i])

startsWith(s, n, m, offset) ==
  /\ s.str[n].len >= s.str[m].len
  /\ offset <= s.str[n].len - s.str[m].len
  /\ s.str[n].buffer # 0 /\ s.str[m].buffer # 0
  /\ IsAt(Content(s, n), Content(s, m), offset)

endsWith(s, n, m) ==
  /\ s.str[n].len >= s.str[m].len
  /\ s.str[n].buffer # 0 /\ s.str[m].buffer # 0
  /\ At(s.heap, s.str[n].buffer + s.str[n].len - s.str[m].len) = At(s.heap, s.str[m].buffer)

charAt(s, n, i) ==
  IF i >= s.str[n].len \/ s.str[n].buffer = 0 THEN 0 ELSE s.heap.mem[s.str[n].buffer + i]

\* getBytes() and toCharArray(): at most bufsize - 1 characters.
getBytes(s, n, bufsize, index) ==
  LET room == bufsize - 1
      rest == s.str[n].len - index
  IN IF index >= s.str[n].len THEN <<>>
     ELSE SubSeq(Content(s, n), index + 1, index + (IF room > rest THEN rest ELSE room))

\* substring(): the text that is assigned to the new string.
substring(s, n, from, to) ==
  LET left == IF from > to THEN to ELSE from
      right == IF from > to THEN from ELSE to
      len == s.str[n].len
  IN IF left > len THEN <<>>
     ELSE SubSeq(Content(s, n), left + 1, IF right > len THEN len ELSE right)

-----------------------------------------------------------------------------
(***************************************************************************)
(* Modification.                                                           *)
(***************************************************************************)
\* Every character is looked up in a table.
Mapped(s, n, table) ==
  IF s.str[n].buffer = 0 THEN s
  ELSE [s EXCEPT !.heap = Copied(@, s.str[n].buffer,
                                 [i \in DOMAIN Content(s, n) |-> table[Content(s, n)[i]]])]

\* replace() of texts of the same length or longer than what they replace by,
\* from the left: what was read is copied behind what was written.
FromLeft(t, f, r) ==
  LET go[i \in 0..Len(t)] ==
        LET q == strstr(t, f, i)
        IN IF q = -1 \/ f = <<>> THEN SubSeq(t, i + 1, Len(t))
           ELSE SubSeq(t, i + 1, q) \o r \o go[q + Len(f)]
  IN go[0]

\* How often the text is met from the left.
Count(t, f) ==
  LET go[i \in 0..Len(t)] ==
        LET q == strstr(t, f, i) IN IF q = -1 THEN 0 ELSE 1 + go[q + Len(f)]
  IN go[0]

\* One turn of the loop that replaces from the right, at position i.
Widen(s, n, f, r, i) ==
  LET o == s.str[n]
      t == Content(s, n)
      rest == SubSeq(t, i + Len(f) + 1, Len(t))
  IN [s EXCEPT !.str[n].len = o.len + Len(r) - Len(f),
               !.heap = strcpy(@, o.buffer + i, r \o rest)]

RECURSIVE WidenAll(_, _, _, _, _)
WidenAll(s, n, f, r, index) ==
  LET i == lastIndexOf(s, n, f, index)
  IN IF index < 0 \/ i < 0 THEN s ELSE WidenAll(Widen(s, n, f, r, i), n, f, r, i - 1)

WidenFrom(s, n, f, r) == IF s.ret THEN WidenAll(s, n, f, r, s.str[n].len - 1) ELSE s

replace(s, n, f, r, limit) ==
  LET t == Content(s, n)
      size == s.str[n].len + Count(t, f) * (Len(r) - Len(f))
      short == FromLeft(t, f, r)
  IN IF s.str[n].len = 0 \/ f = <<>> THEN s
     ELSE IF Len(r) <= Len(f)
     THEN [s EXCEPT !.str[n].len = Len(short), !.heap = strcpy(@, s.str[n].buffer, short)]
     ELSE IF size = s.str[n].len THEN s
     ELSE WidenFrom(IF size > s.str[n].capacity THEN changeBuffer(s, n, size, limit) ELSE s, n, f, r)

\* remove(index, count)
remove(s, n, index, count) ==
  LET o == s.str[n]
      c == IF index + count > o.len THEN o.len - index ELSE count
      rest == SubSeq(Content(s, n), index + c + 1, o.len)
  IN IF index >= o.len \/ count <= 0 THEN s
     ELSE [s EXCEPT !.str[n].len = o.len - c, !.heap = strcpy(@, o.buffer + index, rest)]

trim(s, n) ==
  LET t == Content(s, n)
      begin == Least({i \in 1..(Len(t) + 1) : i = Len(t) + 1 \/ t[i] # Blank})
      end == Greatest({i \in (begin - 1)..Len(t) : i < begin \/ t[i] # Blank})
  IN IF s.str[n].buffer = 0 \/ s.str[n].len = 0 THEN s
     ELSE [s EXCEPT !.str[n].len = end + 1 - begin,
                    !.heap = strcpy(@, s.str[n].buffer, SubSeq(t, begin, end))]

-----------------------------------------------------------------------------
(***************************************************************************)
(* Actions: the operation, and beside it the text its comment promises,    *)
(* which an operation that finds no memory leaves or makes invalid.        *)
(***************************************************************************)
Becomes(s, n, v) ==
  /\ Len(v.text) <= MaxLen
  /\ heap' = s.heap /\ str' = s.str
  /\ val' = [val EXCEPT ![n] = v]

Assigned(s, n, t) == Becomes(s, n, IF s.ret THEN Text(t) ELSE Invalid)
Extended(s, n, t) ==
  Becomes(s, n, IF s.ret /\ t # <<>> THEN Text(val[n].text \o t) ELSE val[n])
Reserved(s, n) == Becomes(s, n, IF s.ret THEN Text(val[n].text) ELSE val[n])
Replaced(s, n, f, r) ==
  Becomes(s, n, IF s.ret THEN [val[n] EXCEPT !.text = FromLeft(@, f, r)] ELSE val[n])

Copy(n, t, limit) == Assigned(copy(Now, n, t, limit), n, t)
Assign(n, m, limit) ==
  /\ n # m
  /\ IF str[m].buffer = 0 THEN Becomes(invalidate(Now, n), n, Invalid)
     ELSE Assigned(copy(Now, n, Content(Now, m), limit), n, val[m].text)

Concat(n, t, limit) == Extended(concat(Now, n, t, limit), n, t)
\* Not with itself: strcpy() would copy behind its own end.
ConcatString(n, m, limit) ==
  /\ n # m
  /\ IF str[m].buffer = 0 THEN UNCHANGED svars
     ELSE Extended(concat(Now, n, Content(Now, m), limit), n, val[m].text)
\* operator +: its left side is a string of its own, and invalid if there is
\* no memory for the sum.
Sum(s, n) == IF s.ret THEN s ELSE invalidate(s, n)
Plus(n, t, limit) ==
  Becomes(Sum(concat(Now, n, t, limit), n), n,
          IF concat(Now, n, t, limit).ret THEN Text(val[n].text \o t) ELSE Invalid)
Reserve(n, size, limit) == Reserved(reserve(Now, n, size, limit), n)
Destroy(n) == Becomes(invalidate(Now, n), n, Invalid)

\* What is replaced must be found in the same places from the left and from
\* the right, also after a replacement there: the longer text is written from
\* the right into a buffer that is measured from the left.
Overlaps(f, t) ==
  \E k \in 1..(Len(f) - 1) :
    LET rest == SubSeq(f, k + 1, Len(f))
        m == IF Len(rest) < Len(t) THEN Len(rest) ELSE Len(t)
    IN SubSeq(rest, 1, m) = SubSeq(t, 1, m)
Replace(n, f, r, limit) ==
  /\ Len(f) < Len(r) => ~Overlaps(f, f) /\ ~Overlaps(f, r)
  /\ Len(FromLeft(val[n].text, f, r)) <= MaxLen
  /\ Replaced(replace(Now, n, f, r, limit), n, f, r)

ReplaceChar(n, c, d) ==
  Becomes(Mapped(Now, n, [x \in Char |-> IF x = c THEN d ELSE x]), n,
          [val[n] EXCEPT !.text = FromLeft(@, <<c>>, <<d>>)])
Case(n) ==
  \/ Becomes(Mapped(Now, n, [x \in Char |-> tolower(x)]), n,
             [val[n] EXCEPT !.text = [i \in DOMAIN @ |-> tolower(@[i])]])
  \/ Becomes(Mapped(Now, n, [x \in Char |-> toupper(x)]), n,
             [val[n] EXCEPT !.text = [i \in DOMAIN @ |-> toupper(@[i])]])

SetCharAt(n, i, c) ==
  /\ i < str[n].len
  /\ Becomes([Now EXCEPT !.heap = Copied(@, str[n].buffer + i, <<c>>)], n,
             [val[n] EXCEPT !.text = [@ EXCEPT ![i + 1] = c]])

Remove(n, index, count) ==
  Becomes(remove(Now, n, index, count), n,
          [val[n] EXCEPT !.text = [i \in 1..Len(SelectSeq([j \in DOMAIN @ |-> j],
                                                LAMBDA j : j <= index \/ j > index + count)) |->
                                     @[IF i <= index THEN i ELSE i + count]]])

Solid(t) == {i \in DOMAIN t : t[i] # Blank}
Trim(n) ==
  Becomes(trim(Now, n), n,
          [val[n] EXCEPT !.text = IF Solid(@) = {} THEN <<>>
                                  ELSE SubSeq(@, Least(Solid(@)), Greatest(Solid(@)))])

SNext ==
  /\ UNCHANGED <<held, refused>>
  /\ \E n \in Names :
       \/ Case(n) \/ Trim(n) \/ Destroy(n)
       \/ \E limit \in Limits :
            \/ \E t \in Texts : Copy(n, t, limit) \/ Concat(n, t, limit) \/ Plus(n, t, limit)
            \/ \E m \in Names : Assign(n, m, limit) \/ ConcatString(n, m, limit)
            \/ \E size \in Sizes : Reserve(n, size, limit)
            \/ \E f \in Texts, r \in Texts : Replace(n, f, r, limit)
       \/ \E c \in Lower : ReplaceChar(n, c, Blank)
       \/ \E i \in 0..(MaxLen - 1) : SetCharAt(n, i, Blank)
       \/ \E i \in 0..MaxLen, c \in 1..MaxLen : Remove(n, i, c)

SSpec == SInit /\ [][SNext]_svars

-----------------------------------------------------------------------------
\* A text and its parts, as a reader of WString.h understands the questions.
AnswersOf(n, m) ==
  LET t == val[n].text
      u == val[m].text
      hits == {i \in 0..Len(t) : IsAt(t, u, i)}
      both == val[n].valid /\ val[m].valid
  IN /\ equals(Now, n, m) <=> t = u
     /\ (compareTo(Now, n, m) < 0) <=> (compareTo(Now, m, n) > 0)
     /\ equalsIgnoreCase(Now, n, m) <=>
          [i \in DOMAIN t |-> toupper(t[i])] = [i \in DOMAIN u |-> toupper(u[i])]
     /\ \A i \in 0..Len(t) : startsWith(Now, n, m, i) <=> both /\ i \in hits
     /\ endsWith(Now, n, m) <=> both /\ Len(t) - Len(u) \in hits
     /\ u # <<>> =>
          \A i \in 0..MaxLen :
            /\ i < Len(t) => indexOf(Now, n, u, i) = Least({j \in hits : j >= i})
            /\ lastIndexOf(Now, n, u, i) = Greatest({j \in hits : j <= i})
     /\ \A i \in 0..MaxLen :
          /\ charAt(Now, n, i) = IF i < Len(t) THEN t[i + 1] ELSE 0
          /\ \A c \in Lower : i < Len(t) =>
               lastIndexOfChar(Now, n, c, i) = Greatest({j \in 0..i : t[j + 1] = c})
          /\ \A k \in 1..MaxLen :
               /\ getBytes(Now, n, k, i) = [j \in 1..Len(getBytes(Now, n, k, i)) |-> t[i + j]]
               /\ Len(getBytes(Now, n, k, i)) = Greatest({0} \cup {x \in 1..(k - 1) : i + x <= Len(t)})
               /\ substring(Now, n, i, k) = substring(Now, n, k, i)
               /\ i <= k => substring(Now, n, i, k) =
                              [j \in 1..Cardinality((i + 1)..k \cap DOMAIN t) |-> t[i + j]]

\* Whatever was done to the strings, in whatever order, and whenever the
\* memory was too small: each holds the text its operations promise, with the
\* 0 behind it within its buffer, an invalid one holds no memory, none has
\* touched a byte that is not its own, no memory is lost, and the questions
\* have the answers of that text (WString.cpp on malloc.c and realloc.c;
\* comments in WString.h).
StringsAreExact ==
  /\ ChunksSound(heap)
  /\ Cardinality(DOMAIN heap.sz) =
       Len(heap.flp) + Cardinality({n \in Names : str[n].buffer # 0})
  /\ \A n \in Names :
       LET o == str[n]
       IN /\ val[n].valid <=> o.buffer # 0
          /\ o.buffer = 0 => o = Null
          /\ o.buffer # 0 =>
               /\ Hdr(o.buffer) \in DOMAIN heap.sz
               /\ \A i \in 1..Len(heap.flp) : heap.flp[i] # Hdr(o.buffer)
               /\ o.len <= o.capacity /\ o.capacity < heap.sz[Hdr(o.buffer)]
               /\ o.len = Len(val[n].text) /\ At(heap, o.buffer) = val[n].text
               /\ heap.mem[o.buffer + o.len] = 0
  /\ \A a \in Address : heap.mem[a] # Garbage =>
       \E n \in Names : str[n].buffer # 0 /\ a \in str[n].buffer..(str[n].buffer + str[n].capacity)
  /\ \A n, m \in Names : n # m => str[n].buffer # str[m].buffer \/ str[n].buffer = 0
  /\ \A n, m \in Names : n # m => AnswersOf(n, m)

=============================================================================
