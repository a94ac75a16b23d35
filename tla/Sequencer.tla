------------------------------ MODULE Sequencer ------------------------------
(***************************************************************************)
(* The packed playroutine's orderlist, one channel on its own: each step   *)
(* is one call of mt_sequencer (goattracker.play, proc sequencer) on the   *)
(* orderlist as songimage packs it. The converter's walk of the same       *)
(* orderlist is the specification it implements.                           *)
(***************************************************************************)
EXTENDS Orderlist, FiniteSetsExt

CONSTANTS
  Orders      \* the orderlists a channel may have (editor's form)

VARIABLES
  order,      \* the channel's orderlist
  seq,        \* songptr, trans, repeat, pattnum, and the loop marks read
  plays       \* history: how often the pattern read last has been played

vars == <<order, seq, plays>>

packed == PackedOrder(order)

Init ==
  /\ order \in Orders
  /\ seq = SeqStart
  /\ plays = 0

\* A pattern has ended: the sequencer steps to the one to play next.
PatternEnds ==
  /\ seq' = Sequence(packed, seq)
  /\ plays' = IF Replays(packed, seq) THEN plays + 1 ELSE 1
  /\ UNCHANGED order

Next == PatternEnds

Spec == Init /\ [][Next]_vars

\* A song that is played for ever calls the sequencer for ever.
FairSpec == Spec /\ WF_vars(Next)

-----------------------------------------------------------------------------
(* The converter's walk of the same orderlist.                             *)

Editor == INSTANCE OrderWalk WITH walk <- AsWalk(packed, seq), stopped <- FALSE

ImplementsWalk == Editor!Spec

-----------------------------------------------------------------------------
TypeOK ==
  /\ order \in Orders
  /\ seq \in [songptr : 0 .. order.size, trans : Byte, repeat : 0 .. 14,
              pattnum : 0 .. REPEAT - 1, loops : 0 .. LoopCap]
  /\ plays \in 0 .. 16

\* The editor's position of the pattern that plays: a repeat that still counts
\* and one that is done both stand where the editor has the repeated pattern.
PlayedEntry == IF IsRepeat(packed[seq.songptr]) THEN seq.songptr ELSE seq.songptr - 1

\* The pattern that plays is the one the editor shows at that position, and
\* nothing but that position decides it.
PlaysEditorEntry == plays > 0 => seq.pattnum = order.entries[PlayedEntry]

ShiftAt(i) == (order.entries[i] - TRANSUP) % BYTES
ShiftsIn(first, last) == {i \in first .. last : IsTranspose(order.entries[i])}

\* The transpose in force is the editor list's nearest one before the pattern
\* in this pass over the list; a pass that has met none keeps the one the last
\* pass ended with, and the first pass starts from zero.
TransposeInForce ==
  plays > 0 =>
    LET near == ShiftsIn(IF seq.loops = 0 THEN 0 ELSE order.restart, PlayedEntry)
        all  == ShiftsIn(0, order.size - 1)
    IN  seq.trans = IF near # {} THEN ShiftAt(Max(near))
                    ELSE IF seq.loops > 0 /\ all # {} THEN ShiftAt(Max(all)) ELSE 0

\* Repeat(n) plays its pattern n+1 times in total, never more.
RepeatBound ==
  IsRepeat(packed[seq.songptr]) => plays <= packed[seq.songptr] - REPEAT + 1

\* ... and the position leaves the repeat only after n+1 plays, never fewer.
RepeatExact ==
  [][ IsRepeat(packed[seq.songptr]) /\ seq'.songptr # seq.songptr
        => plays' = packed[seq.songptr] - REPEAT + 1 ]_vars

\* Every orderlist comes round: its loop mark is read again and again.
ComesRound == []<>(seq.songptr = order.size)

=============================================================================
