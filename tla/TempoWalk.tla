------------------------------ MODULE TempoWalk ------------------------------
(***************************************************************************)
(* The converter's replay of a song's timing (convert._TempoWalk): every   *)
(* frame each channel in turn counts its tick down, begins a row at zero   *)
(* and reloads the tick below it, until each channel has looped twice.     *)
(* It is also what the packed playroutine's clock (RowClock) implements.   *)
(***************************************************************************)
EXTENDS Song

CONSTANTS
  Songs,      \* the songs replayed
  StopLoops   \* the loops every channel makes before the replay ends (2)

VARIABLES
  song,       \* the song replayed
  turn,       \* the channel this frame's loop is at
  tick,       \* per channel, frames left to the next row
  tempo,      \* per channel, the tick's reload; 0 and 1 name the funk pair
  funk,       \* the funk pair, each one less than its tempo
  walk,       \* per channel, the orderlist walk
  row,        \* per channel, rows begun of the pattern
  dur,        \* per channel, the frames counted for the row so far
  failed      \* a ConversionError was raised

vars == <<song, turn, tick, tempo, funk, walk, row, dur, failed>>

FirstTick == 6
FirstPair == [i \in 0 .. 1 |-> IF i = 0 THEN 8 ELSE 5]

Init ==
  /\ song \in Songs
  /\ turn = 0
  /\ tick = [x \in Chan |-> FirstTick]
  /\ tempo = [x \in Chan |-> song.deftempo]
  /\ funk = FirstPair
  /\ walk = [x \in Chan |-> Walk(song.orders[x], WalkStart)]
  /\ row = [x \in Chan |-> 0]
  /\ dur = [x \in Chan |-> 0]
  /\ failed = FALSE

Finished == turn = 0 /\ \A x \in Chan : walk[x].loops >= StopLoops

Turn(x) ==
  /\ ~ failed /\ ~ Finished
  /\ turn = x
  /\ turn' = (x + 1) % Channels
  /\ UNCHANGED song

\* The row's command, where it sets a tempo: E the funk pair and every channel
\* (a row outside the speedtable leaves the pair), F every channel or its own.
RowCommand(x, r) ==
  LET value == Countdown(r.param % 128)
  IN  /\ tempo' = CASE r.fx = FUNKTEMPO -> [c \in Chan |-> 0]
                    [] r.fx = SETTEMPO /\ r.param >= 128 -> [tempo EXCEPT ![x] = value]
                    [] r.fx = SETTEMPO /\ r.param < 128 -> [c \in Chan |-> value]
                    [] OTHER -> tempo
      /\ funk' = IF r.fx = FUNKTEMPO /\ r.param \in DOMAIN song.speeds
                   THEN [i \in 0 .. 1 |-> (song.speeds[r.param][i + 1] - 1) % BYTES]
                   ELSE funk

Ended(x) == row[x] >= PatternRows(song, walk[x].pattnum)

\* The tick reaches zero: the next row begins, of the next pattern if one ended.
RowTick(x) ==
  LET w == IF Ended(x) THEN Walk(song.orders[x], walk[x]) ELSE walk[x]
      r == IF Ended(x) THEN 0 ELSE row[x]
  IN  /\ Turn(x)
      /\ tick[x] = 1
      /\ ~ (Ended(x) /\ WalkStops(song.orders[x], walk[x]))
      /\ tick' = [tick EXCEPT ![x] = 0]
      /\ walk' = [walk EXCEPT ![x] = w]
      /\ row' = [row EXCEPT ![x] = r + 1]
      /\ dur' = [dur EXCEPT ![x] = 1]
      /\ RowCommand(x, RowAt(song, w.pattnum, r))
      /\ UNCHANGED failed

\* The orderlist's restart lies outside it: nothing to convert.
SongStops(x) ==
  /\ Turn(x)
  /\ tick[x] = 1
  /\ Ended(x) /\ WalkStops(song.orders[x], walk[x])
  /\ failed' = TRUE
  /\ UNCHANGED <<tick, tempo, funk, walk, row, dur>>

Reloaded(x) == IF tempo[x] >= 2 THEN tempo[x] ELSE funk[tempo[x]]

CountFrame(x) == dur' = [dur EXCEPT ![x] = Lengthened(@)]

\* (mutant) A tempo of two frames is let through.
ReloadFast(x) ==
  /\ Turn(x)
  /\ tick[x] = 0
  /\ Reloaded(x) >= 1
  /\ tick' = [tick EXCEPT ![x] = Reloaded(x)]
  /\ tempo' = [tempo EXCEPT ![x] = IF @ >= 2 THEN @ ELSE 1 - @]
  /\ CountFrame(x)
  /\ UNCHANGED <<funk, walk, row, failed>>

\* The call after a row began reloads the tick, the funk pair by turns.
Reload(x) ==
  /\ Turn(x)
  /\ tick[x] = 0
  /\ Reloaded(x) >= 2
  /\ tick' = [tick EXCEPT ![x] = Reloaded(x)]
  /\ tempo' = [tempo EXCEPT ![x] = IF @ >= 2 THEN @ ELSE 1 - @]
  /\ CountFrame(x)
  /\ UNCHANGED <<funk, walk, row, failed>>

\* A tempo below three frames per row cannot convert.
TooFast(x) ==
  /\ Turn(x)
  /\ tick[x] = 0
  /\ Reloaded(x) < 2
  /\ failed' = TRUE
  /\ UNCHANGED <<tick, tempo, funk, walk, row, dur>>

Count(x) ==
  /\ Turn(x)
  /\ tick[x] > 1
  /\ tick' = [tick EXCEPT ![x] = @ - 1]
  /\ CountFrame(x)
  /\ UNCHANGED <<tempo, funk, walk, row, failed>>

Next == \E x \in Chan : RowTick(x) \/ SongStops(x) \/ Reload(x) \/ TooFast(x) \/ Count(x)

Spec == Init /\ [][Next]_vars

\* run() loops until it returns or raises.
FairSpec == Spec /\ WF_vars(Next)

-----------------------------------------------------------------------------
TypeOK ==
  /\ turn \in Chan
  /\ tick \in [Chan -> Byte]
  /\ tempo \in [Chan -> 0 .. 127]
  /\ funk \in [0 .. 1 -> Byte]
  /\ failed \in BOOLEAN
  /\ \A x \in Chan : row[x] \in 0 .. PatternRows(song, walk[x].pattnum)

\* Every row the replay hands on lasts three frames or more: a shorter one is
\* refused where durations are split for NinjaTracker (_chunk_duration).
RowsLastThree ==
  [][ \A x \in Chan : tick[x] = 1 /\ tick'[x] = 0 /\ dur[x] > 0 => dur[x] >= 3 ]_vars

\* Every replay ends: each channel has looped enough, or it was refused.
ReplayEnds == <>(failed \/ Finished)

=============================================================================
