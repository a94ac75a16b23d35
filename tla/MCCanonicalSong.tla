--------------------------- MODULE MCCanonicalSong ---------------------------
(***************************************************************************)
(* CanonicalSong on songs of two or three instruments and two patterns:    *)
(* programs that go round, share rows or are reached in the middle, wave   *)
(* commands, a filter that jumps to a cutoff, pointers onto jump rows and  *)
(* a program that runs off its table. A jump onto a jump row is refused.   *)
(***************************************************************************)
EXTENDS CanonicalSong

Ins(w, p, f, v, d) == [ad |-> 9, wave |-> w, pulse |-> p, filter |-> f, vibrato |-> v, delay |-> d]
Line(note, i, op, args) == [note |-> note, instrument |-> i, command |-> Op(op, args)]
Rest == Line(189, 0, "nothing", <<0>>)
Pattern(n) == Op("pattern", <<n>>)
List(entries) == [entries |-> entries, restart |-> 0]

\* Goes round its two rows, then a copy of their round begun at the other.
Round == <<<<65, 0>>, <<33, 12>>, <<255, 1>>, <<33, 12>>, <<65, 0>>, <<255, 4>>>>
\* A row, then a pulse pointer and a slide as commands, and a stop.
Commands == <<<<65, 0>>, <<249, 3>>, <<241, 2>>, <<255, 0>>, <<240, 7>>, <<255, 1>>>>

Pulse == <<<<136, 0>>, <<32, 16>>, <<255, 2>>, <<248, 0>>, <<255, 2>>>>
\* A set that jumps to a cutoff, which a set before it runs at once.
Filter == <<<<144, 241>>, <<255, 4>>, <<160, 241>>, <<0, 64>>, <<255, 0>>>>
Speed == <<<<0, 32>>, <<0, 64>>, <<0, 32>>>>

Song(wave, pulse, filter, instruments, first, second, lists) ==
  [wave |-> wave, pulse |-> pulse, filter |-> filter, speed |-> Speed,
   instruments |-> instruments, patterns |-> <<first, second>>, orders |-> lists]

One == <<Line(48, 1, "portamento up", <<3>>), Rest>>
Two == <<Line(36, 2, "vibrato", <<1>>), Line(189, 3, "nothing", <<7>>)>>
Twice == <<List(<<Pattern(1), Op("transpose", <<2>>), Pattern(0)>>), List(<<Pattern(0)>>)>>
Same == <<List(<<Pattern(0), Pattern(1)>>)>>

MCSongs ==
  {Song(Round, Pulse, Filter, <<Ins(1, 1, f, 1, d), Ins(5, 4, g, 3, 2), Ins(w, 1, 1, 2, 0)>>, One, Two, o) :
     f \in {0, 1}, g \in {3, 4}, d \in {0, 2}, w \in {2, 4}, o \in {Twice, Same}}
  \cup {Song(Commands, p, Filter, <<Ins(1, 0, 1, 0, 0), Ins(w, 3, 4, 2, 1), Ins(2, 1, 0, 0, 0)>>,
             One, <<Line(40, 3, "pulse pointer", <<2>>), Line(189, 2, "filter pointer", <<q>>),
                    Line(189, 0, "wave pointer", <<3>>)>>, Twice) :
          p \in {Pulse, SubSeq(Pulse, 1, 3)}, w \in {1, 5}, q \in {3, 5}}
  \cup {Song(SubSeq(Round, 1, 5), <<<<16, 4>>>>, <<>>, <<Ins(1, 1, 0, 0, 0), Ins(4, 0, 0, 0, 0), Ins(1, 1, 0, 1, 0)>>,
             Two, Two, Same)}
  \cup {Song(SubSeq(Round, 1, 3), <<>>, t, <<Ins(1, 0, 1, 0, 0)>>, One, Two, <<List(<<Pattern(0)>>)>>) :
          t \in {<<<<144, 241>>, <<255, 2>>>>, <<<<144, 241>>, <<255, 4>>, <<0, 64>>, <<255, 4>>>>}}

=============================================================================
