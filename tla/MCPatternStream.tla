--------------------------- MODULE MCPatternStream ---------------------------
(* TLC instance of PatternStream: every pattern of up to MaxRows rows over a  *)
(* few rows that touch each branch of the fetch, after and before patterns    *)
(* whose commands it must not rely on.                                        *)
EXTENDS PatternStream

Pitch == NOTE + 12

MixedRows == {
  EditorRow(REST, 0, 0, 0),              \* a bare rest, no command
  EditorRow(REST, 0, 4, 7),              \* a rest that holds or starts one
  EditorRow(Pitch, 0, 4, 7),
  EditorRow(Pitch, 1, 0, 9),             \* data that command 0 does not read
  EditorRow(KEYON, 2, 0, 0),
  EditorRow(Pitch, 3, CMD_TONEPORTA, 1)}

TempoRows == {EditorRow(REST, 0, CMD_SETTEMPO, d) : d \in {0, 2, 3, 131}}
             \cup {EditorRow(REST, 2, CMD_SETTEMPO, 6), EditorRow(KEYOFF, 0, 0, 0)}

WideRows == {EditorRow(Pitch, 1, 4, 7), EditorRow(Pitch, 2, 5, 15)}

Rests(n) == [k \in 1 .. n |-> EditorRow(REST, 0, 0, 0)]

\* The pattern every song has beside the one that varies: one that leaves a
\* command held, one whose rests fill a run and begin another.
Others == {<<EditorRow(Pitch, 2, 4, 7), EditorRow(REST, 0, 4, 7)>>, Rests(RestRun + 2)}

MCRanks == {<<1, 0, 2>>, <<2, 0, 0>>, <<2, 1, 1>>, <<1, 1, 0>>}

Made(rows, max, ranks) ==
  {[patterns |-> <<p, q>>, ranks |-> k] :
     p \in BoundedSeq(rows, max) \ {<<>>}, q \in Others, k \in ranks}

FittingSongs ==
  {s \in Made(MixedRows, 3, MCRanks) \cup Made(TempoRows, 2, {<<0, 0, 0>>}) : SongFits(s)}

\* Patterns the packed form of which is longer than the cursor's reach.
LongSongs == {s \in Made(WideRows, 3, {<<0, 0>>}) : ~ SongFits(s)}

=============================================================================
