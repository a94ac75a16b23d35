------------------------------- MODULE MCSongs -------------------------------
(***************************************************************************)
(* The songs of the bounded timing runs: two patterns, of two rows and of  *)
(* one, over a small set of rows, under a few orderlists.                  *)
(***************************************************************************)
EXTENDS Song, Sequences

CONSTANTS
  MCRows,     \* bound: the rows a pattern is made of
  MCOrders    \* bound: the orderlists of the channels, one tuple per song

Row(note, instr, fx, param) ==
  [note |-> note, instr |-> instr, fx |-> fx, param |-> param]

Shown(s, restart) ==
  [entries |-> [i \in 0 .. Len(s) - 1 |-> s[i + 1]], size |-> Len(s), restart |-> restart]

Pattern(s) == [size |-> Len(s), rows |-> [i \in 0 .. Len(s) - 1 |-> s[i + 1]]]

\* Instrument 2 starts its wavetable at note init; its gate timer is the longer.
Made(orders, p0, p1, speeds, deftempo) ==
  [orders   |-> [x \in Chan |-> orders[x + 1]],
   patterns |-> [n \in 0 .. 1 |-> IF n = 0 THEN Pattern(p0) ELSE Pattern(p1)],
   gates    |-> <<1, 2>>,
   direct   |-> {2},
   speeds   |-> speeds,
   deftempo |-> deftempo]

\* Pattern 0 is a, then b, pattern 1 is c: of any of the rows.
MadeSongs(speeds) ==
  {Made(o, <<a, b>>, <<c>>, speeds, 5) : o \in MCOrders, a, b, c \in MCRows}

-----------------------------------------------------------------------------
Plain   == Row(TRUE, 1, DONOTHING, 0)
Rest    == Row(FALSE, 0, DONOTHING, 0)
Direct  == Row(TRUE, 2, SETTEMPO, 4)
Own     == Row(FALSE, 2, SETTEMPO, 128 + 3)
Funk    == Row(FALSE, 0, FUNKTEMPO, 1)
Recall  == Row(TRUE, 0, SETTEMPO, 1)
Tie     == Row(TRUE, 1, TONEPORTA, 0)

ClockRows == {Plain, Rest, Direct, Own, Funk, Tie}

ClockOrders ==
  {<<Shown(<<0>>, 0), Shown(<<1, TRANSUP + 2, 0>>, 0)>>,
   <<Shown(<<REPEAT + 1, 1, 0>>, 2), Shown(<<0, REPEAT + 2, 1>>, 1)>>}

Slow == <<<<4, 3>>>>

=============================================================================
