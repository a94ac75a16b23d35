----------------------------- MODULE MCVoiceTick -----------------------------
(***************************************************************************)
(* VoiceTick on small songs: one for the programs, one for pitch, each     *)
(* played by a plain build and by one that skips work on a row's call.     *)
(***************************************************************************)
EXTENDS VoiceTick, TLC

\* Frequencies an octave and a half apart; halves of the steps differ in both bytes.
MCFreq == [n \in 0 .. 127 |-> 274 * n + n * n]

Step(wave, note) == Op("step", <<wave, note>>)
Form(w) == Op("wave", <<w>>)
Wait(n) == Op("delay", <<n>>)
Rel(n) == Op("relative", <<n>>)
Cmd(op, a) == Op(op, <<a>>)
Line(n, c) == [note |-> n, command |-> c]

Plain(s) == [realtime |-> FALSE, pulseopt |-> FALSE, twice |-> FALSE] @@ s
Optimised(s) == [realtime |-> TRUE, pulseopt |-> TRUE, twice |-> TRUE] @@ s

\* Delays, silent and noted waveforms, command rows and a loop; pulse and filter
\* set and swept both ways across a byte.
Programs ==
  [depth |-> 0,
   wave |-> <<Step(Form(65), Rel(0)), Step(Wait(2), Rel(12)), Op("command", <<Cmd("cutoff", 9)>>),
              Op("command", <<Cmd("portamento up", 1)>>), Step(Form(9), None), Jump(2),
              Step(Form(33), Op("absolute", <<7>>)), Step(None, Rel(-3)),
              Op("command", <<Cmd("pulse pointer", 5)>>), Jump(0)>>,
   pulse |-> <<Op("set", <<2296>>), Op("mod", <<3, 16>>), Op("mod", <<2, -40>>), Jump(1),
               Op("set", <<16>>), Op("mod", <<2, -20>>), Jump(0)>>,
   filter |-> <<Op("set", <<16, 15, 1>>), Op("cutoff", <<250>>), Op("mod", <<2, 5>>),
                Op("mod", <<1, -9>>), Jump(1), Op("cutoff", <<40>>), Jump(0)>>,
   speed |-> <<Op("fixed", <<2048>>)>>,
   instrument |-> [first |-> 9, wave |-> 1, pulse |-> 1, filter |-> 1, vibrato |-> 0, delay |-> 0],
   lines |-> {Line(20, Op("nothing", <<0>>)), Line(NoNote, Cmd("wave pointer", 7)),
              Line(NoNote, Op("filter control", <<0, 0>>)), Line(NoNote, Cmd("filter pointer", 6)),
              Line(NoNote, Cmd("wave", 129))}]

\* Slides up, down and to the note by stored and calculated speeds; the
\* instrument's delayed vibrato and a command's, as deep as depth.
Pitches(depth, delay) ==
  [depth |-> depth,
   wave |-> <<Step(Form(17), Rel(0)), Jump(0)>>, pulse |-> <<>>, filter |-> <<>>,
   speed |-> <<Op("fixed", <<4096>>), Op("calculated", <<depth, 1>>), Op("fixed", <<1000>>),
               Op("fixed", <<depth * 256 + 1>>)>>,
   instrument |->
     [first |-> 17, wave |-> 1, pulse |-> 0, filter |-> 0, vibrato |-> 2, delay |-> delay],
   lines |-> {Line(20, Op("nothing", <<0>>)), Line(33, Cmd("tone portamento", 3)),
              Line(12, Cmd("tone portamento", 2)), Line(NoNote, Cmd("portamento down", 1)),
              Line(NoNote, Cmd("tone portamento", 0)), Line(40, Cmd("vibrato", 4))}]

MCSongs == {Plain(Programs), Optimised(Programs), Plain(Pitches(3, 2)), Optimised(Pitches(4, 0)),
            Plain(Pitches(125, 1))}

=============================================================================
