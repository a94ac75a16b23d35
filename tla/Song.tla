-------------------------------- MODULE Song --------------------------------
(***************************************************************************)
(* The part of a song that decides when its rows play: per channel an      *)
(* orderlist, the patterns' rows, the instruments' gate timers and the     *)
(* speedtable rows a funktempo names.                                      *)
(*                                                                         *)
(* A song is a record [orders |-> one orderlist per channel,               *)
(*   patterns |-> p, where p[n] = [size |-> rows, rows |-> a function on   *)
(*     0 .. size-1],                                                       *)
(*   gates |-> a gate timer per instrument, direct |-> the instruments     *)
(*     whose note init goes on to the wavetable,                           *)
(*   speeds |-> <<left, right>> per speedtable row from 1,                 *)
(*   deftempo |-> the tempo every channel starts with].                    *)
(* A row is [note |-> whether it starts one, instr |-> its instrument (0:  *)
(* unchanged), fx, param |-> its command as the editor states it]: notes,  *)
(* key offs and commands that move no clock are not told apart.            *)
(***************************************************************************)
EXTENDS Orderlist

CONSTANTS
  Channels    \* the number of channels: 3, or 6 in a stereo song

ASSUME ChannelsAssumption == Channels \in Nat \ {0}

Chan == 0 .. Channels - 1

DONOTHING == 0
TONEPORTA == 3
FUNKTEMPO == 14
SETTEMPO  == 15

\* bound: the frames counted of one row (a reload is at most 255).
DurCap == 256

\* A row that has begun lasts one frame more.
Lengthened(dur) == IF dur \in 1 .. DurCap - 1 THEN dur + 1 ELSE dur

PatternRows(song, p) == song.patterns[p].size
RowAt(song, p, r)    == song.patterns[p].rows[r]

\* (mutant) The speedtable is read a row early.
SpeedEarly(song, n) == IF n - 1 \in DOMAIN song.speeds THEN song.speeds[n - 1] ELSE <<0, 0>>

\* The speedtable rows stand behind a zero row 0, zeros after the last.
Speed(song, n) == IF n \in DOMAIN song.speeds THEN song.speeds[n] ELSE <<0, 0>>

\* A packed tempo of 3 or more is the countdown: one less than the editor's.
Countdown(t) == IF t >= 3 THEN t - 1 ELSE t

StoredParam(row) ==
  IF row.fx # SETTEMPO THEN row.param
  ELSE row.param - (row.param % 128) + Countdown(row.param % 128)

=============================================================================
