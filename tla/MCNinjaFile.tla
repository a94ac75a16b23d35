---------------------------- MODULE MCNinjaFile -----------------------------
(* TLC instance of NinjaFile: songs at and past each limit, in small slots.  *)
EXTENDS NinjaFile

R(n, c, d) == [note |-> n, cmd |-> c, dur |-> d]
T(entries, r) == [entries |-> entries, restart |-> r]
P(n) == <<"play", n>>
Shift(n) == <<"transpose", n>>

MCRows == {R(NONE, 0, 0), R(NONE, 1, 66), R(KEYON, 129, 3), R(KEYOFF, 0, 3), R(95, 2, 67),
           R(95, 130, 0), R(FIRSTNOTE, 0, 66), R(96, 0, 0), R(24, 128, 5), R(24, 1, 2)}

Unit == T(<<P(1)>>, 0)
Short == <<Unit, Unit, Unit>>

MCTracks == {Unit, T(<<P(2), P(1)>>, 1), T(<<Shift(-64), P(3)>>, 0), T(<<Shift(63), P(1), Shift(0), P(2)>>, 2),
             T(<<P(1), P(2)>>, 2)}

Commands == <<<<191, 191, 1, 0, 2>>, <<9, 0, 0, 0, 0>>>>
MCTables == <<<<<<65>>, <<191>>>>, <<<<>>, <<>>>>, <<<<144, 255>>, <<0, 1>>>>>>

Song(patterns, subtunes, commands, tables) ==
  [tables |-> tables, patterns |-> patterns, subtunes |-> subtunes, commands |-> commands,
   hardrestart |-> 15, wave |-> 9]

MCSongs ==
  {Song(<<<<a, b>>>>, <<Short>>, Commands, MCTables) : a, b \in MCRows}
  \cup {Song(<<<<R(24, 1, 3)>>, <<>>, p>>, <<s, <<t, u, Unit>>>>, Commands, MCTables) :
          p \in {<<>>, <<R(24, 0, 0), R(26, 0, 0)>>}, s \in {<<>>, Short}, t, u \in MCTracks}
  \cup {Song(<<<<>>, <<>>, <<>>>>, <<Short, <<>>>>, c, t) :
          c \in {<<>>, Commands, <<<<9, 0, 3, 0, 0>>>>}, t \in {MCTables, <<MCTables[3], MCTables[3], MCTables[1]>>}}
  \cup {Song(<<>>, <<Short>>, <<>>, MCTables), Song(<<<<>>>>, <<<<Unit>>>>, <<>>, MCTables)}

=============================================================================
