---------------------------- MODULE SerialQueue ----------------------------
(***************************************************************************)
(* What a buffered serial receiver of the logger promises to the sketch:   *)
(* a bounded first-in first-out queue of characters.  A character that     *)
(* arrives is queued unless the queue is full, in which case that          *)
(* character (and no other) is lost; the program takes the characters in   *)
(* the order they came; closing the port discards what was not taken.      *)
(*                                                                         *)
(* The queue is kept as two histories: accepted is everything that was     *)
(* queued (less what a close discarded) and delivered is what was taken.   *)
(***************************************************************************)
EXTENDS Naturals, Sequences

CONSTANTS Char,       \* the characters a port can carry
          Capacity,   \* how many characters can wait, at least 1
          MaxChars    \* bound: how many characters the port ever offers

VARIABLES accepted, delivered, lost

qvars == <<accepted, delivered, lost>>

Waiting == Len(accepted) - Len(delivered)

Init == /\ accepted = <<>>
        /\ delivered = <<>>
        /\ lost = 0

Put(c) == /\ Waiting < Capacity
          /\ Len(accepted) + lost < MaxChars
          /\ accepted' = Append(accepted, c)
          /\ UNCHANGED <<delivered, lost>>

Drop == /\ Waiting = Capacity
        /\ Len(accepted) + lost < MaxChars
        /\ lost' = lost + 1
        /\ UNCHANGED <<accepted, delivered>>

Take == /\ Waiting > 0
        /\ delivered' = Append(delivered, accepted[Len(delivered) + 1])
        /\ UNCHANGED <<accepted, lost>>

Discard == /\ accepted' = delivered
           /\ UNCHANGED <<delivered, lost>>

Next == (\E c \in Char : Put(c)) \/ Drop \/ Take \/ Discard

Spec == Init /\ [][Next]_qvars
=============================================================================
