------------------------------ MODULE CmdFifo -------------------------------
(***************************************************************************)
(* What queue.c offers to handle.c, without ring and indices: a bounded    *)
(* first-in first-out queue of commands between the parsers and get_cmd,   *)
(* until two parsers claim the same place (nothing in queue.c prevents     *)
(* them); from then on nothing is promised.  A push on a full queue and a  *)
(* pop on an empty one change nothing.                                     *)
(***************************************************************************)
EXTENDS Naturals, Sequences

CONSTANTS
  Cmds,      \* the commands
  Capacity   \* how many commands may wait

VARIABLES
  items,     \* the waiting commands, oldest first
  mixed      \* whether two parsers have claimed the same place

Init == items = <<>> /\ mixed = FALSE

Push(c) ==
  /\ Len(items) < Capacity
  /\ items' = Append(items, c)
  /\ UNCHANGED mixed

Pop ==
  /\ items # <<>>
  /\ items' = Tail(items)
  /\ UNCHANGED mixed

Mix == mixed' = TRUE

Next == Mix \/ Pop \/ \E c \in Cmds : Push(c)

Spec == Init /\ [][Next]_<<items, mixed>>

=============================================================================
