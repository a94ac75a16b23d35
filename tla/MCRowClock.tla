----------------------------- MODULE MCRowClock -----------------------------
(* TLC instances of RowClock: songs of two channels that mix channel, global *)
(* and funk tempos, instruments of two gate timers, ties and direct waves.   *)
EXTENDS MCSongs, RowClock

\* The funk pair is recalled only where a funktempo has set it before.
PacedSongs ==
  MadeSongs(Slow) \cup {Made(o, <<Funk, Recall>>, <<c>>, Slow, 5) : o \in MCOrders, c \in MCRows}

\* A song that recalls the funk pair before any row has set it.
RecallSongs == {Made(o, <<Recall, Rest>>, <<Plain>>, Slow, 5) : o \in MCOrders}

\* A song that names funktempo 0 after a funktempo.
FunkZeroSongs ==
  {Made(o, <<Funk, Row(FALSE, 0, FUNKTEMPO, 0)>>, <<Plain>>, Slow, 5) : o \in MCOrders}

FunkSongs == RecallSongs \cup FunkZeroSongs

\* Both instruments have one gate timer, as the live gate timer needs.
OneGateSongs == {[s EXCEPT !.gates = <<2, 2>>] : s \in PacedSongs}

BuildSongs == PacedSongs \cup OneGateSongs

=============================================================================
