---------------------------- MODULE MCGoatTracker1 ----------------------------
(***************************************************************************)
(* PackedImage1 on songs of two instruments: every pattern of up to two    *)
(* rows, one of a long rest, wave programs that share rows; a 0.9x song    *)
(* either has $FF orderlists or a first instrument that ends in $00. Tunes *)
(* are packed behind the registered playroutines and behind five small     *)
(* ones: one with a stub that moves its song table, one whose code         *)
(* another's matches but for its operands, two that differ in their        *)
(* frequency table alone.                                                  *)
(***************************************************************************)
EXTENDS PackedImage1, Builds1

EndRow == <<255, 0, 0>>
Alphabet == {<<40, 8, 0>>, <<95, 0, 0>>, <<41, 20, 52>>, <<95, 7, 200>>, <<94, 15, 6>>, <<40, 0, 71>>, <<95, 5, 2>>}
RowSeqs == UNION {[1 .. n -> Alphabet] : n \in 1 .. 2} \cup [1 .. 3 -> {<<40, 8, 0>>, <<95, 0, 0>>, <<95, 8, 0>>}]
PatternOf(rows) == FlattenSeq(rows) \o EndRow
Short == PatternOf(<<<<95, 4, 4>>>>)
Patterns1 == FoldSet(LAMBDA r, ps : Append(ps, PatternOf(r)), <<>>, RowSeqs) \o <<Short>>
LongRest == PatternOf(<<<<40, 8, 3>>>> \o [k \in 1 .. 67 |-> <<95, 0, 3>>] \o <<<<95, 17, 2>>, <<95, 0, 0>>>>)

Lead == <<<<17, 12>>, <<33, 128>>, <<65, 3>>, <<255, 2>>>>
Held2 == <<<<33, 128>>, <<65, 3>>, <<255, 2>>>>
Hit == <<<<129, 200>>, <<0, 3>>, <<255, 0>>>>
Early == <<<<65, 0>>, <<0, 0>>>>

InstrumentsOf(v, w, f, g) ==
  <<[params |-> <<9, 240, 129, 33, 64, 192, f>>, wave |-> 1],
    [params |-> <<9, 0, 8, 2, 16, 240, g>>, wave |-> Len(v) + 1]>>

Filter1 == <<0, 0, 6, 0, 1, 16, 20, 2, 2, 0, 250, 3, 0, 144, 1, 1>>
Filter2 == <<0, 0, 0, 9, 8, 128, 1, 0, 1, 1, 1, 2, 9, 9, 9, 0>>

SongOf(l, orders, v, w, f, g, patterns, filter) ==
  [layout |-> l, orders |-> orders, instruments |-> InstrumentsOf(v, w, f, g), wave |-> v \o w,
   patterns |-> patterns, filter |-> filter]

Same(o) == <<<<o, o, o>>>>
Turned == Same(<<241, 0, 209, 1, 255, 1>>)
Marked == <<<<<<0, 254>>, <<1, 0, 255, 1>>, <<0, 255, 0>>>>, <<<<1, 255, 0>>, <<1, 254>>, <<0, 254>>>>>>

Programs == {Lead, Held2, Hit}
MCSongs ==
  {SongOf("1.25", Same(<<Len(Patterns1) - 1, 255, 0>>), Lead, Held2, 0, 1, Patterns1, <<>>),
   SongOf("1.53", Same(<<Len(Patterns1) - 1, 254>>), Lead, Hit, 1, 2, Patterns1, Filter1)}
  \cup {SongOf("1.25", Marked, v, w, 0, 1, <<LongRest, Short>>, <<>>) : v \in Programs, w \in Programs}
  \cup {SongOf("1.53", Turned, v, w, f, g, <<LongRest, Short>>, t) :
          v \in Programs, w \in Programs, f \in {0, 1}, g \in {3}, t \in {Filter1, Filter2}}
  \cup {SongOf("1.53", Marked, Lead, Held2, 1, 3, <<LongRest, Short>>, Filter1)}
  \cup {SongOf("0.9x", Same(<<0, 1, 254>>), Early, w, 0, 0, <<LongRest, Short>>, <<>>) : w \in {Early, Hit}}
  \cup {SongOf("0.9x", Same(<<1, 0, 255>>), v, w, 0, 0, <<LongRest, Short>>, <<>>) :
          v \in {Early, Hit}, w \in {Early, Hit}}

-----------------------------------------------------------------------------
At0(tag) == [tag |-> tag, low |-> 0, smc |-> FALSE]

\* A playroutine of one operand after the other, a parameter, a temporary and its notes.
Assembled(name, family, op, operands, temporary, free, freq, bias) ==
  LET n == Len(operands)
  IN [name |-> name, family |-> family, bias |-> bias, endsong |-> FALSE, zero |-> 240, end |-> (3 * n) + 3,
      code |-> FlattenSeq([k \in 1 .. n |-> <<op + k, operands[k].low % 256, 64>>])
               \o <<169, 0, temporary>> \o freq,
      relocs |-> {[pos |-> (3 * k) - 2, tag |-> operands[k].tag, low |-> operands[k].low,
                   smc |-> operands[k].smc] : k \in 1 .. n},
      params |-> <<3 * n>>,
      free |-> {(3 * k) - 2 : k \in {j \in 1 .. n : operands[j].smc}} \cup free,
      freq |-> {(3 * n) + 3, (3 * n) + 4}]

Shared11 == <<[tag |-> "code", low |-> 4102, smc |-> FALSE], [tag |-> "code", low |-> 4100, smc |-> TRUE]>>
Tables11(field) ==
  Shared11 \o <<[tag |-> "instad", low |-> 0, smc |-> FALSE], [tag |-> "instad", low |-> field, smc |-> FALSE],
                At0("wavetbl"), At0("notetbl"), At0("songtbllo"), At0("songtblhi"),
                At0("patttbllo"), At0("patttblhi")>>
Tables15 == Tables11(5) \o <<At0("filttbl"), [tag |-> "filttbl", low |-> 3, smc |-> FALSE]>>

MCPlayers ==
  References \o <<Assembled("small a", "11", 160, Tables11(4), 249, {32}, <<1, 2>>, 0),
    Assembled("small b", "11", 160, Tables11(3), 249, {}, <<1, 2>>, 0),
    Assembled("small c", "11", 140, Tables11(3), 251, {}, <<1, 2>>, 3),
    Assembled("small d", "1.5", 160, Tables15, 250, {}, <<3, 4>>, 0),
    Assembled("small e", "1.5", 160, Tables15, 250, {}, <<4, 5>>, 0)>>

MCAddresses == {4300}
MCParams == <<4, 2, 15, 0>>

=============================================================================
