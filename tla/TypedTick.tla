------------------------------ MODULE TypedTick ------------------------------
(***************************************************************************)
(* What a voice of a typed song does on each call: its wave, pulse and     *)
(* filter programs read as rows (typed.py), its pitch effects as whole     *)
(* numbers. A delay waits its calls, a modulation adds its speed on as     *)
(* many calls as it has, a slide goes by its speed and stops at its note,  *)
(* a vibrato of depth d turns every d + 2 calls.                           *)
(***************************************************************************)
EXTENDS TableRows

CONSTANTS Songs,    \* [wave, pulse, filter, speed: rows; instrument; lines: pattern rows]
          Freq,     \* the frequency of each note
          RowBound  \* pattern rows played at most (bounds the run)

VARIABLES
  song,    \* [wave, pulse, filter, speed, instrument, lines, realtime, pulseopt, twice]
  played,  \* pattern rows played
  voice    \* [wave, pulse, filter, pitch]

vars == <<song, played, voice>>

NoNote == -1
RowAt(table, n) == IF n \in DOMAIN table THEN table[n] ELSE Op("end", <<>>)
Follow(table, n) ==
  IF RowAt(table, n + 1).op = "jump" THEN table[n + 1].args[1] ELSE n + 1
Delay(row) ==
  IF row.op = "step" /\ row.args[1].op = "delay" THEN row.args[1].args[1] ELSE 0

WaveAt(w, n) == [w EXCEPT !.row = n, !.left = Delay(RowAt(song.wave, n))]
At(x, n) == [x EXCEPT !.row = n, !.left = 0]

-----------------------------------------------------------------------------
(* Pitch. A speedtable row is a speed, or a halving of the distance to the *)
(* note above; a vibrato reads it as its depth and its speed.              *)

Halved(n, last) == (Freq[last + 1] - Freq[last]) \div 2 ^ n
SpeedOf(n, last) ==
  LET r == RowAt(song.speed, n)
  IN CASE r.op = "fixed" -> r.args[1]
       [] r.op = "calculated" -> Halved(r.args[2], last)
       [] OTHER -> 0
DepthOf(n) ==
  LET r == RowAt(song.speed, n)
  IN CASE r.op = "fixed" -> r.args[1] \div 256 [] r.op = "calculated" -> r.args[1] [] OTHER -> 0
SwingOf(n, last) ==
  IF RowAt(song.speed, n).op = "fixed" THEN SpeedOf(n, last) % 256 ELSE SpeedOf(n, last)

Sounded(p, n) == [p EXCEPT !.freq = Freq[n], !.last = n, !.swing = 0]
Slid(p, by) == [p EXCEPT !.freq = (p.freq + by) % 65536]

Swung(p, n) ==
  LET d == DepthOf(n)
      down == p.swing - d \div 2 \in 1 .. d + 2
      by == SwingOf(n, p.last)
  IN [Slid(p, IF down THEN -by ELSE by) EXCEPT !.swing = (p.swing + 1) % (2 * d + 4)]

\* A note over half the range away is taken at once, as one within a step is.
Toward(p, n) ==
  LET by == SpeedOf(n, p.last)
      far == Freq[p.note] - p.freq
  IN CASE n > 0 /\ far - by \in 1 .. 32768 -> Slid(p, by)
       [] n > 0 /\ -far - by \in 0 .. 32767 -> Slid(p, -by)
       [] OTHER -> Sounded(p, p.note)

Effect(p, op, n) ==
  CASE op = "portamento up" -> Slid(p, SpeedOf(n, p.last))
    [] op = "portamento down" -> Slid(p, -SpeedOf(n, p.last))
    [] op = "tone portamento" -> Toward(p, n)
    [] op = "vibrato" -> Swung(p, n)
    [] op = "nothing" /\ SwingOf(n, p.last) > 0 ->
         IF p.delay > 1 THEN [p EXCEPT !.delay = p.delay - 1] ELSE Swung(p, n)
    [] OTHER -> p

-----------------------------------------------------------------------------
(* A command on its row, or in the wavetable.                              *)

Slides == {"portamento up", "portamento down"}
Effects == Slides \cup {"tone portamento", "vibrato"}

CommandPitch(p, c, vib) ==
  CASE c.op \in Slides -> [p EXCEPT !.fx = c.op, !.param = c.args[1], !.swing = 0]
    [] c.op \in Effects -> [p EXCEPT !.fx = c.op, !.param = c.args[1]]
    [] c.op = "nothing" -> [p EXCEPT !.fx = c.op, !.param = vib]
    [] OTHER -> p
CommandWave(w, c) ==
  CASE c.op = "wave" -> [w EXCEPT !.form = c.args[1]]
    [] c.op = "wave pointer" -> WaveAt(w, c.args[1])
    [] OTHER -> w
CommandFilter(f, c) ==
  CASE c.op = "filter pointer" -> At(f, c.args[1])
    [] c.op = "filter control" ->
         [f EXCEPT !.control = CommandBytes(c)[2], !.row = IF CommandBytes(c)[2] = 0 THEN 0 ELSE @]
    [] c.op = "cutoff" -> [f EXCEPT !.cutoff = c.args[1]]
    [] OTHER -> f

Commanded(v, c) ==
  [v EXCEPT !.wave = CommandWave(v.wave, c), !.filter = CommandFilter(v.filter, c),
            !.pulse = IF c.op = "pulse pointer" THEN At(v.pulse, c.args[1]) ELSE v.pulse]

-----------------------------------------------------------------------------
(* One call of each program.                                               *)

WaveCalled(w) ==
  LET r == RowAt(song.wave, w.row)
      on == WaveAt(w, Follow(song.wave, w.row))
  IN CASE w.row = 0 -> w
       [] w.left > 0 -> [w EXCEPT !.left = w.left - 1]
       [] r.op = "step" /\ r.args[1].op = "wave" -> [on EXCEPT !.form = r.args[1].args[1]]
       [] OTHER -> on

PulseCalled(x) ==
  LET r == RowAt(song.pulse, x.row)
      on == At(x, Follow(song.pulse, x.row))
      time == IF x.left = 0 THEN r.args[1] ELSE x.left
      width == (x.width + (IF song.twice THEN 2 ELSE 1) * r.args[2]) % 4096
  IN CASE x.row = 0 -> x
       [] r.op = "set" -> [on EXCEPT !.width = r.args[1] % 4096]
       [] time = 1 -> [on EXCEPT !.width = width]
       [] OTHER -> [x EXCEPT !.left = time - 1, !.width = width]

\* A cutoff straight after a filter setting is taken with it.
FilterCalled(f) ==
  LET n == f.row
      r == RowAt(song.filter, n)
      merges == RowAt(song.filter, n + 1).op = "cutoff"
      on(m) == At(f, Follow(song.filter, m))
      time == IF f.left = 0 THEN r.args[1] ELSE f.left
      cutoff == (f.cutoff + r.args[2]) % 256
      set == [on(IF merges THEN n + 1 ELSE n) EXCEPT
                !.band = r.args[1], !.control = 16 * r.args[2] + r.args[3]]
  IN CASE n = 0 -> f
       [] r.op = "cutoff" -> [on(n) EXCEPT !.cutoff = r.args[1]]
       [] r.op = "set" /\ merges -> [set EXCEPT !.cutoff = song.filter[n + 1].args[1]]
       [] r.op = "set" -> set
       [] time = 1 -> [on(n) EXCEPT !.cutoff = cutoff]
       [] OTHER -> [f EXCEPT !.left = time - 1, !.cutoff = cutoff]

\* The pitch goes by the wavetable's note, else its command, else the effect in force.
Ran(v, effect, pulses) ==
  LET r == RowAt(song.wave, v.wave.row)
      p == v.pitch
      runs == v.wave.row > 0 /\ v.wave.left = 0
      c == IF runs /\ r.op = "command" THEN r.args[1] ELSE None
      n == IF runs /\ r.op = "step" THEN r.args[2] ELSE None
      on == Commanded([v EXCEPT !.wave = WaveCalled(v.wave)], c)
  IN [on EXCEPT
        !.pulse = IF pulses THEN PulseCalled(on.pulse) ELSE on.pulse,
        !.pitch = CASE n.op = "relative" -> Sounded(p, (p.note + n.args[1]) % 128)
                    [] n.op = "absolute" -> Sounded(p, n.args[1])
                    [] c.op \in Effects \cup {"nothing"} -> Effect(p, c.op, c.args[1])
                    [] c # None -> p
                    [] effect -> Effect(p, p.fx, p.param)
                    [] OTHER -> p]

-----------------------------------------------------------------------------
(* Calls. The filter's program runs first on each.                         *)

Ins == song.instrument
Filtered == [voice EXCEPT !.filter = FilterCalled(voice.filter)]

\* An instrument vibrates from the call its delay names, with no delay never.
Vibrato == IF Ins.delay = 0 THEN 0 ELSE Ins.vibrato

\* A note leaves the effect in force to its row's command.
Noted(v, note) ==
  [v EXCEPT !.pitch.note = note, !.pitch.fx = "nothing", !.pitch.param = Vibrato,
            !.pitch.delay = IF Ins.delay = 0 THEN 1 ELSE Ins.delay]

\* A note starts the instrument's programs, and its call runs none of them.
Started(v) ==
  [v EXCEPT !.wave = WaveAt([v.wave EXCEPT !.form = Ins.first], Ins.wave),
            !.pulse = IF Ins.pulse > 0 THEN At(v.pulse, Ins.pulse) ELSE v.pulse,
            !.filter = IF Ins.filter > 0 THEN At(v.filter, Ins.filter) ELSE v.filter]

OnLine(v, c) ==
  [Commanded(v, c) EXCEPT !.pitch = CommandPitch(v.pitch, c, Vibrato)]

PlayLine(line) ==
  /\ played < RowBound
  /\ played' = played + 1
  /\ UNCHANGED song

NoteCall(line) ==
  /\ line.note # NoNote /\ line.command.op # "tone portamento"
  /\ PlayLine(line)
  /\ voice' = OnLine(Started(Noted(Filtered, line.note)), line.command)

\* A row that starts no instrument may end its pattern, where the pulse pauses.
LineCall(line) ==
  /\ line.note = NoNote \/ line.command.op = "tone portamento"
  /\ PlayLine(line)
  /\ \E pulses \in {TRUE, ~song.pulseopt} :
       voice' = Ran(OnLine(IF line.note = NoNote THEN Filtered ELSE Noted(Filtered, line.note),
                           line.command),
                    ~song.realtime, pulses)

\* Between rows, the call that fetches the next one pauses the pulse too.
Call ==
  /\ \E pulses \in {TRUE, ~song.pulseopt} : voice' = Ran(Filtered, TRUE, pulses)
  /\ UNCHANGED <<song, played>>

Init ==
  /\ song \in Songs
  /\ played = 0
  /\ voice = [wave |-> [row |-> 0, left |-> 0, form |-> 0],
              pulse |-> [row |-> 0, left |-> 0, width |-> 0],
              filter |-> [row |-> 0, left |-> 0, cutoff |-> 0, control |-> 0, band |-> 0],
              pitch |-> [note |-> 0, last |-> 0, freq |-> 0, fx |-> "nothing", param |-> 0,
                         delay |-> 1, swing |-> 0]]

Next ==
  \/ \E line \in song.lines : NoteCall(line) \/ LineCall(line)
  \/ Call

Spec == Init /\ [][Next]_vars

=============================================================================
