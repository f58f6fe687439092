-------------------------------- MODULE Heap --------------------------------
(***************************************************************************)
(* The heap of the program (cores/oseam/avr-libc): malloc() and free() of  *)
(* malloc.c and realloc() of realloc.c, on memory that is counted in       *)
(* bytes.  A chunk is a header, its size sz of two bytes, and the bytes    *)
(* behind it, which hold the link nx while the chunk is free.  A pointer   *)
(* is the address behind the header, 0 is the null pointer.                *)
(*                                                                         *)
(* The heap is a record, and each function takes one and gives the one it  *)
(* leaves, so that other modules can build their operations from them.     *)
(* The list of free chunks is the sequence of their headers; memory that   *)
(* is not a caller's, headers and links included, reads as Garbage.        *)
(***************************************************************************)
EXTENDS Integers, Sequences, FiniteSets

CONSTANTS
  HeapStart,      \* __heap_start
  Limits,         \* where the stack may leave off, less __malloc_margin
  Word,           \* 2^16 in the code: what a size_t and an address are modulo
  Lens,           \* lengths that are asked for
  MaxBlocks       \* bound: blocks a caller has at a time

SizeT == 2        \* sizeof(size_t)
FreeEntry == 4    \* sizeof(struct __freelist)
Garbage == -1
Wrap(n) == n % Word

Address == HeapStart..(CHOOSE l \in Limits : \A k \in Limits : k <= l)
Unused == [brkval |-> 0, flp |-> <<>>, sz |-> [a \in {} |-> 0],
           mem |-> [a \in Address |-> Garbage]]

\* Header and end of the chunk at p.
Hdr(p) == p - SizeT
End(h, hdr) == hdr + SizeT + h.sz[hdr]

Sized(h, hdr, n) ==
  [h EXCEPT !.sz = [a \in DOMAIN h.sz \cup {hdr} |-> IF a = hdr THEN n ELSE h.sz[a]]]
Gone(h, hdr) == [h EXCEPT !.sz = [a \in DOMAIN h.sz \ {hdr} |-> h.sz[a]]]
Cleared(h, from, to) ==
  [h EXCEPT !.mem = [a \in Address |-> IF from <= a /\ a < to THEN Garbage ELSE h.mem[a]]]
Without(h, i) == [h EXCEPT !.flp = SubSeq(@, 1, i - 1) \o SubSeq(@, i + 1, Len(@))]

First(I) == CHOOSE i \in I : \A j \in I : i <= j

-----------------------------------------------------------------------------
\* A new chunk at the end of the heap.
Extend(h, len, limit) ==
  LET brk == IF h.brkval = 0 THEN HeapStart ELSE h.brkval
  IN IF limit > brk /\ limit - brk >= len /\ limit - brk >= Wrap(len + SizeT)
     THEN [h |-> [Sized(h, brk, len) EXCEPT !.brkval = brk + len + SizeT], p |-> brk + SizeT]
     ELSE [h |-> [h EXCEPT !.brkval = brk], p |-> 0]

malloc(h, n, limit) ==
  LET len == IF n < FreeEntry - SizeT THEN FreeEntry - SizeT ELSE n
      I == 1..Len(h.flp)
      size(i) == h.sz[h.flp[i]]
      exact == {i \in I : size(i) = len}
      larger == {i \in I : size(i) > len}
      best == First({i \in larger : \A j \in larger : size(i) <= size(j)})
      s == size(best)
      upper == h.flp[best] + s - len
  IN IF exact # {} THEN [h |-> Without(h, First(exact)), p |-> h.flp[First(exact)] + SizeT]
     ELSE IF larger = {} THEN Extend(h, len, limit)
     ELSE IF s - len < FreeEntry THEN [h |-> Without(h, best), p |-> h.flp[best] + SizeT]
     ELSE [h |-> Sized(Sized(h, upper, len), h.flp[best], s - len - SizeT), p |-> upper + SizeT]

\* If the last chunk of the list is the last of the heap, the heap ends there.
LowerBreak(h) ==
  LET last == h.flp[Len(h.flp)]
  IN IF End(h, last) = h.brkval
     THEN Gone([Without(h, Len(h.flp)) EXCEPT !.brkval = last], last) ELSE h

\* Mutant: the header of the upper chunk is forgotten.
AssimilateShort(h, hdr, next) == Gone(Sized(h, hdr, h.sz[hdr] + h.sz[next]), next)

\* The chunk takes over the one after it.
Assimilate(h, hdr, next) == Gone(Sized(h, hdr, h.sz[hdr] + h.sz[next] + SizeT), next)

\* Chunk i of the list and the next one become one if they are neighbours.
Join(h, i) ==
  IF i < Len(h.flp) /\ End(h, h.flp[i]) = h.flp[i + 1]
  THEN Assimilate(Without(h, i + 1), h.flp[i], h.flp[i + 1]) ELSE h

\* A chunk goes into the list as number i.
Insert(h, hdr, i) ==
  [h EXCEPT !.flp = SubSeq(@, 1, i - 1) \o <<hdr>> \o SubSeq(@, i, Len(@))]

Release(h, hdr) ==
  LET above == {i \in 1..Len(h.flp) : h.flp[i] >= hdr}
      i == IF above = {} THEN Len(h.flp) + 1 ELSE First(above)
  IN IF h.flp = <<>>
     THEN IF End(h, hdr) = h.brkval THEN Gone([h EXCEPT !.brkval = hdr], hdr)
          ELSE [h EXCEPT !.flp = <<hdr>>]
     ELSE IF i = 1 THEN Join(Insert(h, hdr, 1), 1)
     ELSE LowerBreak(Join(Join(Insert(h, hdr, i), i), i - 1))

free(h, p) == IF p = 0 THEN h ELSE Release(Cleared(h, p, End(h, Hdr(p))), Hdr(p))

-----------------------------------------------------------------------------
\* The chunk is cut at its new length, and the rest is released.
Shrink(h, p, len) ==
  LET s == h.sz[Hdr(p)]
  IN IF s <= FreeEntry \/ len > s - FreeEntry THEN h
     ELSE free(Sized(Sized(h, p + len, s - len - SizeT), Hdr(p), len), p + len + SizeT)

\* It grows into the free chunk after it, i of the list, all or part of it.
GrowUp(h, p, len, i) ==
  LET old == h.sz[Hdr(p)]
      next == h.flp[i]
      spare == h.sz[next] + SizeT - (len - old)
      cut == Sized(Sized(Gone(h, next), p + len, h.sz[next] - (len - old)), Hdr(p), len)
  IN IF spare > FreeEntry THEN [cut EXCEPT !.flp[i] = p + len]
     ELSE Assimilate(Without(h, i), Hdr(p), next)

\* memcpy()
Moved(h, from, to, n) ==
  [h EXCEPT !.mem = [a \in Address |-> IF to <= a /\ a < to + n THEN h.mem[a - to + from]
                                       ELSE h.mem[a]]]

\* The block is copied to the new one, if there is one, and released.
Relocate(h, p, new) ==
  IF new.p = 0 THEN new
  ELSE [h |-> free(Moved(new.h, p, new.p, h.sz[Hdr(p)]), p), p |-> new.p]

realloc(h, p, len, limit) ==
  LET hdr == Hdr(p)
      old == h.sz[hdr]
      after == {i \in 1..Len(h.flp) : h.flp[i] = p + old /\ h.sz[h.flp[i]] + SizeT >= len - old}
      top == h.brkval = p + old /\ \A i \in 1..Len(h.flp) : h.sz[h.flp[i]] < len
      grown == [Sized(h, hdr, len) EXCEPT !.brkval = Wrap(p + len)]
  IN IF p = 0 THEN malloc(h, len, limit)
     ELSE IF Wrap(p + len) < hdr THEN [h |-> h, p |-> 0]
     ELSE IF len <= old THEN [h |-> Shrink(h, p, len), p |-> p]
     ELSE IF after # {} THEN [h |-> GrowUp(h, p, len, First(after)), p |-> p]
     ELSE IF ~top THEN Relocate(h, p, malloc(h, len, limit))
     ELSE IF Wrap(p + len) < limit THEN [h |-> grown, p |-> p]
     ELSE [h |-> h, p |-> 0]

-----------------------------------------------------------------------------
(***************************************************************************)
(* A program that asks for blocks, fills them, and gives them back.        *)
(***************************************************************************)
VARIABLES
  heap,
  held,           \* the caller's blocks: length asked for, bytes filled, and with what
  refused         \* history: length and limit of the last request, if it was refused

vars == <<heap, held, refused>>

Init == /\ heap = Unused
        /\ held = [p \in {} |-> 0]
        /\ refused = {}

FreeTag == First((1..MaxBlocks) \ {held[p].tag : p \in DOMAIN held})
Fill(h, p, n, tag) ==
  [h EXCEPT !.mem = [a \in Address |-> IF p <= a /\ a < p + n THEN tag ELSE h.mem[a]]]
With(p, b) == [q \in DOMAIN held \cup {p} |-> IF q = p THEN b ELSE held[q]]
Less(p) == [q \in DOMAIN held \ {p} |-> held[q]]

Allocated(len, limit, r) ==
  IF r.p = 0 THEN heap' = r.h /\ held' = held /\ refused' = {<<len, limit>>}
  ELSE /\ heap' = Fill(r.h, r.p, len, FreeTag)
       /\ held' = With(r.p, [len |-> len, filled |-> len, tag |-> FreeTag])
       /\ refused' = {}

Malloc(len, limit) ==
  Cardinality(DOMAIN held) < MaxBlocks /\ Allocated(len, limit, malloc(heap, len, limit))

Free(p) ==
  /\ heap' = free(heap, p)
  /\ held' = Less(p)
  /\ refused' = {}

\* Two calls realloc() does not survive: a block it cuts to less than a
\* link's length, and a length that comes round to the header.
Sane(p, len) == len >= FreeEntry - SizeT /\ len < Word - SizeT

Reallocated(p, len, limit, r) ==
  LET b == held[p]
      kept == IF len < b.filled THEN len ELSE b.filled
  IN IF r.p = 0 THEN heap' = r.h /\ held' = held /\ refused' = {<<len, limit>>}
     ELSE /\ heap' = Cleared(r.h, r.p + kept, r.p + len)
          /\ held' = [q \in (DOMAIN held \ {p}) \cup {r.p} |->
                       IF q = r.p THEN [len |-> len, filled |-> kept, tag |-> b.tag] ELSE held[q]]
          /\ refused' = {}

Realloc(p, len, limit) ==
  Sane(p, len) /\ Reallocated(p, len, limit, realloc(heap, p, len, limit))

Next == \/ \E len \in Lens, limit \in Limits : Malloc(len, limit)
        \/ \E p \in DOMAIN held : Free(p)
        \/ \E p \in DOMAIN held, len \in Lens, limit \in Limits : Realloc(p, len, limit)

Spec == Init /\ [][Next]_vars

-----------------------------------------------------------------------------
\* The chunks of a heap follow each other without a gap up to its end; those
\* in the list of the free ones are in order, no two are neighbours, and the
\* last chunk of the heap is not free.
ChunksSound(h) ==
  LET hdrs == DOMAIN h.sz
      n == Len(h.flp)
  IN /\ \A a \in hdrs : h.sz[a] >= FreeEntry - SizeT
     /\ \A a \in hdrs : a = HeapStart \/ \E b \in hdrs : End(h, b) = a
     /\ \A a \in hdrs : End(h, a) = h.brkval \/ End(h, a) \in hdrs
     /\ h.brkval > HeapStart => HeapStart \in hdrs
     /\ \A i \in 1..n : h.flp[i] \in hdrs /\ End(h, h.flp[i]) # h.brkval
     /\ \A i \in 1..(n - 1) : End(h, h.flp[i]) < h.flp[i + 1]

\* Every block a caller holds is a chunk that is large enough and not in the
\* list, with the bytes he put there, also when realloc() has moved, cut or
\* refused it; no other chunk is in use; and a request is refused only if
\* neither a free chunk nor the rest of the memory would do (malloc.c,
\* realloc.c).
HeapSound ==
  /\ ChunksSound(heap)
  /\ \A p \in DOMAIN held :
       /\ Hdr(p) \in DOMAIN heap.sz /\ heap.sz[Hdr(p)] >= held[p].len
       /\ \A i \in 1..Len(heap.flp) : heap.flp[i] # Hdr(p)
       /\ \A a \in p..(p + held[p].filled - 1) : heap.mem[a] = held[p].tag
  /\ Cardinality(DOMAIN heap.sz) = Cardinality(DOMAIN held) + Len(heap.flp)
  /\ \A r \in refused :
       LET len == IF r[1] < FreeEntry - SizeT THEN FreeEntry - SizeT ELSE r[1]
       IN /\ \A i \in 1..Len(heap.flp) : heap.sz[heap.flp[i]] < len
          /\ r[2] < (IF heap.brkval = 0 THEN HeapStart ELSE heap.brkval) + len + SizeT

=============================================================================
