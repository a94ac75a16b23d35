---------------------------- MODULE MCConversion ----------------------------
(* TLC instance of Conversion: songs of two patterns, of two rows and one,   *)
(* from a few rows that take each branch, under a few orderlists and timings.*)
EXTENDS Conversion

Row(n, i, f, d) == [note |-> n, instr |-> i, fx |-> f, data |-> d]

Instruments == <<
  [legato |-> FALSE, gate |-> 2, first |-> 9, ad |-> 1, sr |-> 2, vib |-> <<0, 0>>],
  [legato |-> TRUE,  gate |-> 2, first |-> 0, ad |-> 3, sr |-> 4, vib |-> <<2, 1>>],
  [legato |-> FALSE, gate |-> 4, first |-> 254, ad |-> 5, sr |-> 6, vib |-> <<0, 0>>]>>

Order(s, r) ==
  [entries |-> [i \in 0 .. Len(s) - 1 |-> s[i + 1]], size |-> Len(s), restart |-> r]

Song(p0, p1, o, f, h) ==
  [patterns |-> [n \in 0 .. 1 |-> IF n = 0 THEN p0 ELSE p1], order |-> o,
   instruments |-> Instruments, speeds |-> <<9000, Realtime, 64>>, first |-> f, hold |-> h]

Rest == Row(NoNote, 0, 0, 0)

\* Rows that change no instrument without a note of their own.
PlainRows == {
  Rest, Row(24, 1, 0, 0), Row(30, 2, 0, 0), Row(26, 0, 3, 1), Row(24, 1, 4, 3),
  Row(NoNote, 0, 4, 3), Row(25, 1, 8, 1), Row(KeyOff, 0, 0, 0)}

OddRows == {
  Rest, Row(24, 1, 0, 0), Row(24, 3, 0, 0), Row(5, 1, 0, 0), Row(NoNote, 2, 6, 7), Row(KeyOn, 0, 10, 1),
  Row(NoNote, 0, 4, 2), Row(24, 0, 1, 1), Row(24, 0, 13, 5), Row(24, 2, 15, 6), Row(NoNote, 0, 8, 2)}

Orders == {
  Order(<<0, 1>>, 0), Order(<<REPEAT + 1, 0, 1>>, 1), Order(<<TRANSUP + 2, 0, REPEAT + 2, 1>>, 2),
  Order(<<1, 0>>, 1), Order(<<0, 9>>, 0)}

Steady == {<<3, 3>>, <<5, 5>>}

MCSongs ==
  {Song(<<a, b>>, <<c>>, o, f, h) :
     a, b \in PlainRows, c \in {Rest, Row(30, 2, 0, 0)}, o \in Orders, f \in Steady, h \in {3, 67}}
  \cup {Song(<<a, b>>, <<c>>, o, f, 64) :
     a, b \in OddRows, c \in {Row(26, 1, 0, 0)}, o \in {Order(<<0, 1>>, 0), Order(<<0, REPEAT + 1, 1>>, 1)},
     f \in {<<3, 3>>, <<3, 4>>}}

\* Songs whose notes have a command of their own, and whose channel ends on
\* another instrument than it began with.
CommandSongs ==
  {Song(<<a, b>>, <<Row(26, 1, 0, 0)>>, Order(<<0, 1>>, 0), <<3, 3>>, 6) :
     a \in {Row(24, 1, 0, 0)}, b \in {Row(30, 2, 5, 8), Row(30, 2, 9, 1), Rest}}

LoopSongs ==
  {Song(<<a, b>>, <<c>>, o, <<3, 3>>, 6) :
     a, b, c \in {Row(24, 1, 0, 0), Row(30, 2, 0, 0), Rest}, o \in {Order(<<1, 0>>, 1), Order(<<0, 1>>, 1)}}

LossySongs == CommandSongs \cup LoopSongs

=============================================================================
