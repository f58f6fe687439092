------------------------------ MODULE FileTree ------------------------------
(***************************************************************************)
(* What the calls of class SdFat promise (libraries/SdFat/SdFat.cpp and    *)
(* the comments of SdBaseFile.cpp), on a tree without clusters, entries or *)
(* handles: a tree is a function of paths, the root being always there.    *)
(*                                                                         *)
(* Outcomes gives the trees a call may leave, with what it answers.        *)
(***************************************************************************)
EXTENDS Integers, Sequences, SequencesExt, Functions

Invalid == "invalid"      \* a name that cannot be one

Directory == [dir |-> TRUE, size |-> 0]
File(n) == [dir |-> FALSE, size |-> n]

IsDir(tree, p) == p = <<>> \/ (p \in DOMAIN tree /\ tree[p].dir)
IsFile(tree, p) == p \in DOMAIN tree /\ ~tree[p].dir
Below(tree, p) == {q \in DOMAIN tree : IsPrefix(p, q)}
Children(tree, p) == Below(tree, p) \ {p}
Free(tree, p) ==
  p # <<>> /\ p \notin DOMAIN tree /\ Last(p) # Invalid /\ IsDir(tree, Front(p))

With(tree, p, node) ==
  [q \in DOMAIN tree \cup {p} |-> IF q = p THEN node ELSE tree[q]]
Without(tree, ps) == Restrict(tree, DOMAIN tree \ ps)

\* The subtree at p becomes the subtree at q.
Moved(tree, p, q) ==
  LET kept == DOMAIN tree \ Below(tree, p)
      From(r) == p \o SubSeq(r, Len(q) + 1, Len(r))
      arrived == {q \o SubSeq(r, Len(p) + 1, Len(r)) : r \in Below(tree, p)}
  IN [r \in kept \cup arrived |-> IF r \in kept THEN tree[r] ELSE tree[From(r)]]

\* Directories made on the way to p, the first k names of it.
Way(p) == {SubSeq(p, 1, k) : k \in 1..Len(p)}
MadeUpTo(tree, p, k) ==
  LET new == {q \in Way(p) : Len(q) <= k} \ DOMAIN tree
  IN [q \in DOMAIN tree \cup new |-> IF q \in new THEN Directory ELSE tree[q]]

\* A directory that found no room may be left as an empty file.
Stray(tree, p) == {tree} \cup (IF Free(tree, p) THEN {With(tree, p, File(0))} ELSE {})

Done(tree) == {[tree |-> tree, ok |-> TRUE]}
Refused(trees) == {[tree |-> t, ok |-> FALSE] : t \in trees}
\* The call does its work where it can; it may fail for want of room.
Either(can, done, ample, left) ==
  (IF can THEN Done(done) ELSE {}) \cup (IF can /\ ample THEN {} ELSE Refused(left))

(***************************************************************************)
(* c.path and c.to are full paths; "ample" says that there is room for     *)
(* any call.                                                               *)
(***************************************************************************)
Outcomes(tree, c, ample) ==
  LET p == c.path
      old == IF IsFile(tree, p) THEN tree[p].size ELSE 0
      way == \A q \in Way(p) : Last(q) # Invalid /\ ~IsFile(tree, q)
  IN CASE c.op = "exists" ->
            {[tree |-> tree, ok |-> p \in DOMAIN tree]}
       [] c.op = "chdir" ->
            {[tree |-> tree, ok |-> IsDir(tree, p)]}
       [] c.op = "mkdir" /\ ~c.all ->
            Either(Free(tree, p), With(tree, p, Directory), ample, Stray(tree, p))
       [] c.op = "mkdir" /\ c.all ->
            Either(p \notin DOMAIN tree /\ way, MadeUpTo(tree, p, Len(p)), ample,
                   UNION {Stray(MadeUpTo(tree, p, k), SubSeq(p, 1, k + 1)) :
                            k \in {j \in 0..(Len(p) - 1) : \A i \in 1..j : p[i] # Invalid}})
       [] c.op = "remove" ->
            Either(IsFile(tree, p), Without(tree, {p}), TRUE, {tree})
       [] c.op = "rmdir" ->
            Either(p # <<>> /\ IsDir(tree, p) /\ Children(tree, p) = {},
                   Without(tree, {p}), TRUE, {tree})
       [] c.op = "rmRfStar" ->
            Either(IsDir(tree, p), Without(tree, Below(tree, p)), TRUE, {tree})
       [] c.op = "rename" ->
            Either(/\ p \in DOMAIN tree
                   /\ p = c.to \/ (Free(tree, c.to) /\ ~IsPrefix(p, c.to)),
                   Moved(tree, p, c.to), ample,
                   IF IsDir(tree, p) THEN Stray(tree, c.to) ELSE {tree})
       [] c.op = "append" ->
            Either(IsFile(tree, p) \/ Free(tree, p), With(tree, p, File(old + c.size)), ample,
                   Stray(tree, p))
       [] c.op = "rewrite" ->
            Either(IsFile(tree, p) \/ Free(tree, p), With(tree, p, File(c.size)), ample,
                   {tree} \cup IF IsFile(tree, p) \/ Free(tree, p)
                               THEN {With(tree, p, File(0))} ELSE {})
       [] c.op = "truncate" ->
            Either(IsFile(tree, p) /\ c.size <= old, With(tree, p, File(c.size)), TRUE, {tree})
       [] c.op = "createContiguous" ->
            \* The room must be in one piece, so it may be missing at any time.
            Either(Free(tree, p) /\ c.size > 0, With(tree, p, File(c.size)), FALSE, {tree})

\* What ls() with LS_R and LS_SIZE prints of directory d.
Listing(tree, d) ==
  {[path |-> SubSeq(p, Len(d) + 1, Len(p)), dir |-> tree[p].dir, size |-> tree[p].size] :
     p \in Children(tree, d)}

=============================================================================
