------------------------------ MODULE Orderlist ------------------------------
(***************************************************************************)
(* The orderlist of one channel: its entry bytes, the editor's form of it  *)
(* (entries, end mark, restart), the packed form in which a repeat trails  *)
(* the pattern it repeats, and the two ways this code base walks one:      *)
(* Sequence is the packed playroutine's mt_sequencer on the packed form,   *)
(* Walk is the converter's replay of it on the editor's form.              *)
(*                                                                         *)
(* An orderlist is a record [entries |-> e, size |-> n, restart |-> r]     *)
(* where e is a function on 0 .. n-1: positions are the code's own.        *)
(***************************************************************************)
EXTENDS Integers

REPEAT    == 208   \* $D0 .. $DF : Repeat(n)
TRANSDOWN == 224   \* $E0 .. $FE : Transpose(b - $F0)
TRANSUP   == 240
LOOPSONG  == 255   \* the end mark; the restart position follows it
BYTES     == 256

Byte == 0 .. BYTES - 1

IsPattern(b)   == b \in 0 .. REPEAT - 1
IsRepeat(b)    == b \in REPEAT .. TRANSDOWN - 1
IsTranspose(b) == b \in TRANSDOWN .. LOOPSONG - 1

CONSTANTS
  LoopCap     \* the loop counters saturate here (the code compares them with 1 and 2)

ASSUME LoopCapAssumption == LoopCap \in Nat \ {0}

\* A loop mark that is read is counted.
CountLoop(n) == IF n < LoopCap THEN n + 1 ELSE n

-----------------------------------------------------------------------------
(* Forms of an orderlist.                                                  *)

IsOrderlist(o) ==
  /\ o.size \in 1 .. BYTES - 2               \* MAX_SONGLEN entries
  /\ o.entries \in [0 .. o.size - 1 -> 0 .. LOOPSONG - 1]
  /\ o.restart \in 0 .. o.size - 1

\* The editor's list as the converter reads it: entries, end mark, restart.
EditorOrder(o) ==
  [i \in 0 .. o.size + 1 |->
     IF i < o.size THEN o.entries[i]
     ELSE IF i = o.size THEN LOOPSONG ELSE o.restart]

\* A repeat and the pattern after it swap places when an orderlist is packed.
PairAt(o, i) ==
  /\ i \in 0 .. o.size - 2
  /\ IsRepeat(o.entries[i])
  /\ IsPattern(o.entries[i + 1])

\* (mutant) Repeats are packed where the editor has them.
PackedAsShown(o) == EditorOrder(o)

\* The packed list: every such pair swapped; restart is stored as it is.
PackedOrder(o) ==
  [i \in 0 .. o.size + 1 |->
     IF i >= o.size THEN EditorOrder(o)[i]
     ELSE IF PairAt(o, i) THEN o.entries[i + 1]
     ELSE IF PairAt(o, i - 1) THEN o.entries[i - 1]
     ELSE o.entries[i]]

\* The order of entries the player expects: Transpose? Repeat? PlayPattern,
\* with no Repeat(0) and a restart that does not divide a repeat from its pattern.
WellOrdered(o) ==
  /\ \A i \in 0 .. o.size - 1 :
       /\ IsRepeat(o.entries[i]) => i + 1 < o.size /\ IsPattern(o.entries[i + 1])
       /\ IsTranspose(o.entries[i]) =>
            i + 1 < o.size /\ ~ IsTranspose(o.entries[i + 1])

RepeatsCount(o) == \A i \in 0 .. o.size - 1 : o.entries[i] # REPEAT

RestartWhole(o) == ~ PairAt(o, o.restart - 1)

WellFormed(o) ==
  IsOrderlist(o) /\ WellOrdered(o) /\ RepeatsCount(o) /\ RestartWhole(o)

-----------------------------------------------------------------------------
(* mt_sequencer: loop, transpose and repeat, then the next pattern. A      *)
(* repeat still counting keeps the song position and plays the pattern     *)
(* again; both counters are bytes.                                         *)

SeqStart == [songptr |-> 0, trans |-> 0, repeat |-> 0, pattnum |-> 0, loops |-> 0]

AtLoop(ord, s) == ord[s.songptr] = LOOPSONG

\* The position after the loop: the entry that may be a transpose.
EntryPos(ord, s) == IF AtLoop(ord, s) THEN ord[s.songptr + 1] ELSE s.songptr

\* (mutant) Transposes down are not told from repeats.
ShiftsUp(ord, s) == ord[EntryPos(ord, s)] >= TRANSUP

Shifts(ord, s) == ord[EntryPos(ord, s)] >= TRANSDOWN

\* The position of the byte that names the pattern, or counts a repeat.
PlayPos(ord, s) == EntryPos(ord, s) + (IF Shifts(ord, s) THEN 1 ELSE 0)

Replays(ord, s) == ord[PlayPos(ord, s)] >= REPEAT

\* (mutant) A loop clears the transpose.
SequenceReadClears(ord, s) ==
  [s EXCEPT !.trans = IF Shifts(ord, s) THEN (ord[EntryPos(ord, s)] - TRANSUP) % BYTES
                      ELSE IF AtLoop(ord, s) THEN 0 ELSE @,
            !.loops = IF AtLoop(ord, s) THEN CountLoop(@) ELSE @]

\* The state once the loop and the transpose are read.
SequenceRead(ord, s) ==
  [s EXCEPT !.trans = IF Shifts(ord, s)
                        THEN (ord[EntryPos(ord, s)] - TRANSUP) % BYTES ELSE @,
            !.loops = IF AtLoop(ord, s) THEN CountLoop(@) ELSE @]

\* (mutant) The position is not moved past the pattern.
SequenceStays(ord, s) == PlayPos(ord, s)

SequenceNext(ord, s) == (PlayPos(ord, s) + 1) % BYTES

\* (mutant) The counter of a repeat that is done is kept.
SequenceKeepsCount(ord, s, read) ==
  LET count == (s.repeat + 1) % BYTES
  IN  IF ord[PlayPos(ord, s)] - REPEAT = count
        THEN [read EXCEPT !.repeat = count, !.songptr = SequenceNext(ord, s)]
        ELSE [read EXCEPT !.repeat = count]

\* (mutant) A repeat counts after it is compared.
SequenceCountsLate(ord, s, read) ==
  IF ord[PlayPos(ord, s)] - REPEAT = s.repeat
    THEN [read EXCEPT !.repeat = 0, !.songptr = SequenceNext(ord, s)]
    ELSE [read EXCEPT !.repeat = (s.repeat + 1) % BYTES]

\* A trailing repeat: the pattern plays again until the count is reached.
SequenceRepeat(ord, s, read) ==
  LET count == (s.repeat + 1) % BYTES
  IN  IF ord[PlayPos(ord, s)] - REPEAT = count
        THEN [read EXCEPT !.repeat = 0, !.songptr = SequenceNext(ord, s)]
        ELSE [read EXCEPT !.repeat = count]

Sequence(ord, s) ==
  LET read == SequenceRead(ord, s)
  IN  IF Replays(ord, s) THEN SequenceRepeat(ord, s, read)
      ELSE [read EXCEPT !.pattnum = ord[PlayPos(ord, s)], !.songptr = SequenceNext(ord, s)]

-----------------------------------------------------------------------------
(* _TempoWalk._sequence: the same walk on the editor's form, where a       *)
(* repeat is read once, before its pattern, and counts down.               *)

WalkStart == [songptr |-> 0, repeat |-> 0, pattnum |-> 0, loops |-> 0]

\* The restart the walk is about to take leaves the orderlist: it raises.
WalkStops(o, w) == w.songptr = o.size /\ o.restart >= o.size

\* The position after the loop and a transpose: a pattern, or its repeat.
WalkPos(ord, w) ==
  EntryPos(ord, w) + (IF IsTranspose(ord[EntryPos(ord, w)]) THEN 1 ELSE 0)

\* The entry the walk plays next, and the plays its repeat leaves owed.
WalkAt(ord, w) == WalkPos(ord, w) + (IF IsRepeat(ord[WalkPos(ord, w)]) THEN 1 ELSE 0)

WalkLeft(ord, w) ==
  LET pos == WalkPos(ord, w)
  IN  IF IsRepeat(ord[pos]) THEN ord[pos] - REPEAT ELSE w.repeat

\* A pattern still owed keeps the position, any other is left behind.
WalkNext(at, left) == IF left > 0 THEN at ELSE at + 1

\* (mutant) The walk does not count a repeat down.
WalkHolds(left) == left

WalkOwes(left) == IF left > 0 THEN left - 1 ELSE 0

Walk(o, w) ==
  LET ord  == EditorOrder(o)
      at   == WalkAt(ord, w)
      left == WalkLeft(ord, w)
  IN  [songptr |-> WalkNext(at, left),
       repeat  |-> WalkOwes(left),
       pattnum |-> ord[at],
       loops   |-> IF AtLoop(ord, w) THEN CountLoop(w.loops) ELSE w.loops]

(***************************************************************************)
(* The walk's state that a packed sequencer state stands for: positions    *)
(* are equal, and while the cursor rests on a trailing repeat the walk     *)
(* has the plays that repeat still owes, less the one it is making.        *)
(***************************************************************************)
AsWalk(ord, s) ==
  [songptr |-> s.songptr,
   repeat  |-> IF IsRepeat(ord[s.songptr])
                 THEN ord[s.songptr] - REPEAT - 1 - s.repeat ELSE 0,
   pattnum |-> s.pattnum,
   loops   |-> s.loops]

=============================================================================
