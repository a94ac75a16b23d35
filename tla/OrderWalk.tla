------------------------------ MODULE OrderWalk ------------------------------
(***************************************************************************)
(* What an orderlist promises to play: the converter's replay of one       *)
(* channel (_TempoWalk._sequence) as a state machine, one step per pattern *)
(* played. It reads the editor's form, a repeat before its pattern. The    *)
(* packed playroutine (Sequencer) is checked to implement it.              *)
(***************************************************************************)
EXTENDS Orderlist

CONSTANTS
  Orders      \* the orderlists a channel may have

VARIABLES
  order,      \* the channel's orderlist
  walk,       \* songptr, repeat, pattnum and loops of the walk
  stopped     \* "song stops instead of looping" was raised

vars == <<order, walk, stopped>>

Init ==
  /\ order \in Orders
  /\ walk = WalkStart
  /\ stopped = FALSE

\* The next pattern of the orderlist.
Step ==
  /\ ~ stopped
  /\ ~ WalkStops(order, walk)
  /\ walk' = Walk(order, walk)
  /\ UNCHANGED <<order, stopped>>

\* The loop's restart lies outside the list: counted, moved to, and raised.
Stop ==
  /\ ~ stopped
  /\ WalkStops(order, walk)
  /\ walk' = [walk EXCEPT !.songptr = order.restart, !.loops = CountLoop(@)]
  /\ stopped' = TRUE
  /\ UNCHANGED order

Next == Step \/ Stop

Spec == Init /\ [][Next]_vars

FairSpec == Spec /\ WF_vars(Next)

-----------------------------------------------------------------------------
TypeOK ==
  /\ order \in Orders
  /\ walk.songptr \in Byte
  /\ walk.repeat \in 0 .. 15
  /\ walk.pattnum \in 0 .. REPEAT - 1
  /\ walk.loops \in 0 .. LoopCap
  /\ stopped \in BOOLEAN

=============================================================================
