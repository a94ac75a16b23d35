---------------------------- MODULE MCPackedTune ----------------------------
(***************************************************************************)
(* PackedTune on small songs: instruments of each class, rows of each      *)
(* kind, orderlists with a repeat and at the cursor's reach, patterns of   *)
(* different lengths.                                                      *)
(***************************************************************************)
EXTENDS PackedTune

Ins(class, gate) ==
  [ad |-> 9, wave |-> 1, vib |-> 1, delay |-> 3, gate |-> gate, first |-> 9,
   hr |-> class = 0, legato |-> class = 2]
Row(n, i, c) == Codec!TypedRow(n, i, c, 1)
Step(wave, note) == Op("step", <<wave, note>>)
Delayed == Step(Op("delay", <<2>>), None)
Waves == {<<Step(Op("wave", <<65>>), Op("relative", <<0>>)), Step(Op("wave", <<1>>), None)>>,
          <<Step(Op("wave", <<17>>), Op("absolute", <<9>>)), Delayed>>}
Speed(n) == <<Op("fixed", <<n>>)>>
Long == <<Row(108, 1, <<4, 1>>), Row(189, Codec!Keep, Codec!Held), Row(110, Codec!Keep, <<15, 6>>)>>
Short == <<Row(190, 2, <<0, 0>>)>>

Song(instruments, wave, speed, order, pattern) ==
  [instruments |-> instruments, wave |-> wave, speed |-> speed, speed0 |-> Op("fixed", <<0>>),
   orders |-> <<order>>, patterns |-> <<pattern, Short>>]

Orders == {[entries |-> <<210, 0, 1>>, restart |-> 0], [entries |-> <<1, 0>>, restart |-> 1]}

\* The longest whose restart byte the cursor still reaches, and one with no end mark,
\* which wraps. (Of one entry between, the mark is reached without its restart byte,
\* which no grammar of the code reads.)
ReachOrders ==
  {[entries |-> <<210, 0, 1>> \o [k \in 1 .. Reach - 5 |-> k % 2], restart |-> 1],
   [entries |-> [k \in 1 .. Reach |-> k % 2], restart |-> 0]}

SameShaped ==
  {Song(<<Ins(0, 2), Ins(1, IF o.restart = 0 THEN 3 ELSE 2)>>, w, Speed(300), o, p) :
     w \in Waves, o \in Orders, p \in {Long, Short}}
  \cup {Song(<<Ins(0, 2), Ins(1, 3)>>, CHOOSE w \in Waves : TRUE, Speed(300), o, Long) : o \in ReachOrders}

\* Songs of another shape: other classes, an instrument or a row fewer or more.
OtherShaped ==
  {Song(<<Ins(0, 2)>>, CHOOSE w \in Waves : TRUE, Speed(300), o, Long) : o \in Orders}
  \cup {Song(<<Ins(1, 2), Ins(2, 2)>>, <<Step(Op("wave", <<65>>), None)>>, Speed(7), o, Short) :
          o \in Orders}
  \cup {[Song(<<Ins(0, 2), Ins(1, 3)>>, CHOOSE w \in Waves : TRUE, Speed(1) \o Speed(2), o, Long)
           EXCEPT !.patterns = <<Long>>] : o \in Orders}

MCSongs == SameShaped \cup OtherShaped

Shape(form, flags, binary, zeros) ==
  [form |-> form, vib |-> TRUE, gate |-> TRUE, flags |-> flags, binary |-> binary,
   zeros |-> zeros, inline |-> FALSE, unpacks |-> FALSE, fixed |-> <<2, 9>>]

MCShapes ==
  {Shape("new", FALSE, FALSE, 1), Shape("none", TRUE, TRUE, 0),
   [Shape("old", FALSE, FALSE, 1) EXCEPT !.vib = FALSE],
   [Shape("new", FALSE, FALSE, 0) EXCEPT !.gate = FALSE],
   [Shape("new", FALSE, FALSE, 1) EXCEPT !.unpacks = TRUE],
   [Shape("new", FALSE, FALSE, 0) EXCEPT !.inline = TRUE]}

=============================================================================
