------------------------------ MODULE VoiceTick ------------------------------
(***************************************************************************)
(* One voice of the packed player (goattracker.play) on the bytes of the   *)
(* image song_image builds: the filter step, the note's start, tick-0      *)
(* commands, and the wave, pulse and pitch executors, in eight bits. Gate  *)
(* and envelope registers are left out; rows arrive as pattern lines.      *)
(***************************************************************************)
EXTENDS TableRows

CONSTANTS Songs, Freq, RowBound

VARIABLES
  song,
  image,     \* its packed tables
  played,    \* pattern lines so far (bounds the runs)
  v          \* the voice, and the filter it drives

vars == <<song, image, played, v>>

NoNote == -1
LOOP == 255
Lo(n) == n % 256
Hi(n) == (n \div 256) % 256

-----------------------------------------------------------------------------
(* The tables, a zero row before and after them (_data's fixed slots).     *)

PackedTables(s) ==
  [wave   |-> [n \in DOMAIN s.wave |->
                 LET b == WaveBytes(s.wave[n]) IN WavePacked(b[1], b[2], "new")],
   pulse  |-> [n \in DOMAIN s.pulse |-> PulseBytes(s.pulse[n])],
   filter |-> [n \in DOMAIN s.filter |-> FilterPacked(s.filter[n])],
   speed  |-> [n \in DOMAIN s.speed |-> SpeedBytes(s.speed[n])]]

Cell(table, n, side) == IF n \in DOMAIN table THEN table[n][side] ELSE 0
Left(table, n) == Cell(image[table], n, 1)
Right(table, n) == Cell(image[table], n, 2)

\* The row after n, or where the jump there goes.
After(table, n) == IF Left(table, n + 1) = LOOP THEN Right(table, n + 1) ELSE (n + 1) % 256

\* The instrument's columns: without a delay it has no vibrato.
VibParam == IF song.instrument.delay = 0 THEN 0 ELSE song.instrument.vibrato
VibDelay == IF song.instrument.delay = 0 THEN 0 ELSE song.instrument.delay - 1

-----------------------------------------------------------------------------
(* Sixteen bits in two bytes, c the carry in.                              *)

Carry(a, b, c) == IF a + b + c > 255 THEN 1 ELSE 0
NoBorrow(a, b, c) == IF a + c > b THEN 1 ELSE 0

FreqAdd(w, s, c) ==
  [w EXCEPT !.freqlo = (w.freqlo + s[1] + c) % 256,
            !.freqhi = (w.freqhi + s[2] + Carry(w.freqlo, s[1], c)) % 256]

\* (mutant) A step down borrows as if the carry were clear.
FreqSubBorrows(w, s, c) ==
  [w EXCEPT !.freqlo = (w.freqlo - s[1] - 1) % 256,
            !.freqhi = (w.freqhi - s[2] - (1 - NoBorrow(w.freqlo, s[1], 0))) % 256]

FreqSub(w, s, c) ==
  [w EXCEPT !.freqlo = (w.freqlo - s[1] - (1 - c)) % 256,
            !.freqhi = (w.freqhi - s[2] - (1 - NoBorrow(w.freqlo, s[1], c))) % 256]

NoteFreq(w, n) ==
  [w EXCEPT !.lastnote = n, !.vibtime = 0, !.freqlo = Lo(Freq[n]), !.freqhi = Hi(Freq[n])]

\* The speed at y, <<low, high>>: as stored, or the interval above the last note halved.
SpeedParam(y, last) ==
  IF Left("speed", y) < 128 THEN <<Right("speed", y), Left("speed", y)>>
  ELSE LET by == (Freq[last + 1] - Freq[last]) \div 2 ^ Right("speed", y) IN <<Lo(by), Hi(by)>>

DoVibrato(w, s, y) ==
  LET l == Left("speed", y)
      a == IF w.vibtime < 128 /\ w.vibtime > l % 128 THEN 255 - w.vibtime ELSE w.vibtime
      t == (a + 2) % 256
      by == IF l < 128 THEN <<s[1], 0>> ELSE s
      to == [w EXCEPT !.vibtime = t]
  IN IF t % 2 = 0 THEN FreqAdd(to, by, 0) ELSE FreqSub(to, by, 1)

\* (mutant) A slide steps past its note.
TonePortaPast(w, s, y) ==
  CASE y = 0 -> NoteFreq(w, w.note)
    [] 256 * w.freqhi + w.freqlo >= Freq[w.note] -> FreqSub(w, s, 1)
    [] OTHER -> FreqAdd(w, s, 0)

\* Toward the note: the distance in two bytes, snapping where a step would
\* change its sign.
TonePorta(w, s, y) ==
  LET flo == Lo(Freq[w.note])
      fhi == Hi(Freq[w.note])
      lo == (w.freqlo - flo) % 256
      c == NoBorrow(w.freqlo, flo, 1)
      hi == (w.freqhi - fhi - (1 - c)) % 256
      above == NoBorrow(w.freqhi, fhi, c) = 1
      b == NoBorrow(lo, s[1], 1)
      down == (hi - s[2] - (1 - b)) % 256
      k == Carry(lo, s[1], 0)
      up == (hi + s[2] + k) % 256
  IN CASE y = 0 -> NoteFreq(w, w.note)
       [] above /\ down < 128 -> FreqSub(w, s, NoBorrow(hi, s[2], b))
       [] ~above /\ up >= 128 -> FreqAdd(w, s, Carry(hi, s[2], k))
       [] OTHER -> NoteFreq(w, w.note)

\* mt_effect_<e> with speed entry y.
DoEffect(w, e, y) ==
  LET s == SpeedParam(y, w.lastnote)
      still == IF Left("speed", y) < 128 THEN s[1] = 0 ELSE y = 0
  IN CASE e = 1 -> FreqAdd(w, s, 0)
       [] e = 2 -> FreqSub(w, s, 1)
       [] e = 3 -> TonePorta(w, s, y)
       [] e = 4 -> DoVibrato(w, s, y)
       [] e = 0 /\ still -> w
       [] e = 0 /\ w.vibdelay > 0 -> [w EXCEPT !.vibdelay = w.vibdelay - 1]
       [] OTHER -> DoVibrato(w, s, y)

-----------------------------------------------------------------------------
(* Tick-0 commands; those from the wavetable leave the effect in force.    *)

FiltPtr(w, a) == [w EXCEPT !.filtstep = a, !.filttime = 0]

Tick0Cmd(w, n, a) ==
  CASE n = 0 -> [w EXCEPT !.param = VibParam, !.fx = 0]
    [] n \in 1 .. 2 -> [w EXCEPT !.vibtime = 0, !.param = a, !.fx = n]
    [] n \in 3 .. 4 -> [w EXCEPT !.param = a, !.fx = n]
    [] n = 7 -> [w EXCEPT !.wave = a]
    [] n = 8 -> [w EXCEPT !.waveptr = a, !.wavetime = 0]
    [] n = 9 -> [w EXCEPT !.pulseptr = a, !.pulsetime = 0]
    [] n = 10 -> FiltPtr(w, a)
    [] n = 11 -> [w EXCEPT !.filtctrl = a, !.filtstep = IF a = 0 THEN 0 ELSE @]
    [] n = 12 -> [w EXCEPT !.filtcutoff = a]
    [] OTHER -> w

WaveDone(w) == DoEffect(w, w.fx, w.param)

WaveCmd(w, n, a) == IF n < 5 THEN DoEffect(w, n, a) ELSE Tick0Cmd(w, n, a)

\* A delay counts its calls; any other row sets a waveform, or none above $E0.
WaveExec(w, effect) ==
  LET y == w.waveptr
      a == Left("wave", y)
      waits == a < 16 /\ a # w.wavetime
      on == [w EXCEPT !.wave = IF a \in 16 .. 239 THEN a - 16 ELSE w.wave,
                      !.waveptr = After("wave", y), !.wavetime = 0]
      n == Right("wave", y)
      done(x) == IF effect THEN WaveDone(x) ELSE x
  IN CASE y = 0 -> done(w)
       [] waits /\ w.wavetime < 255 -> done([w EXCEPT !.wavetime = w.wavetime + 1])
       [] a >= 224 -> WaveCmd(on, a % 16, n)
       [] n = 0 -> done(on)
       [] OTHER -> NoteFreq(on, IF n >= 128 THEN (n + w.note) % 128 ELSE n)

PulseExec(w) ==
  LET y == w.pulseptr
      a == Left("pulse", y)
      s == Right("pulse", y)
      time == IF w.pulsetime = 0 THEN a ELSE w.pulsetime
      by == IF song.twice THEN (2 * s) % 256 ELSE s
      hi == w.pulsehi - (IF s >= 128 THEN 1 ELSE 0) + Carry(w.pulselo, by, 0)
      mod == [w EXCEPT !.pulselo = (w.pulselo + by) % 256, !.pulsehi = hi % 256,
                       !.pulsetime = (time - 1) % 256]
  IN CASE y = 0 -> w
       [] w.pulsetime = 0 /\ a >= 128 ->
            [w EXCEPT !.pulsehi = a, !.pulselo = s, !.pulseptr = After("pulse", y)]
       [] mod.pulsetime = 0 -> [mod EXCEPT !.pulseptr = After("pulse", y)]
       [] OTHER -> mod

FilterExec(w) ==
  LET y == w.filtstep
      b == Left("filter", y)
      time == IF w.filttime = 0 THEN b ELSE w.filttime
      cut == Left("filter", y + 1) = 0
      n == IF cut THEN y + 1 ELSE y
      mod == [w EXCEPT !.filtcutoff = (Right("filter", y) + @) % 256, !.filttime = time - 1]
  IN CASE y = 0 -> w
       [] w.filttime = 0 /\ b = 0 ->
            [w EXCEPT !.filtcutoff = Right("filter", y), !.filtstep = After("filter", y)]
       [] w.filttime = 0 /\ b >= 128 ->
            [w EXCEPT !.filttype = (2 * b) % 256, !.filtctrl = Right("filter", y),
                      !.filtcutoff = IF cut THEN Right("filter", n) ELSE @,
                      !.filtstep = After("filter", n)]
       [] mod.filttime = 0 -> [mod EXCEPT !.filtstep = After("filter", y)]
       [] OTHER -> mod

-----------------------------------------------------------------------------
(* Calls.                                                                  *)

NewNote(w, note) ==
  [w EXCEPT !.note = note, !.fx = 0, !.vibdelay = VibDelay, !.param = VibParam]

NoNewPatt(w) ==
  LET i == song.instrument
      p == [w EXCEPT !.wave = i.first, !.waveptr = i.wave,
                     !.pulseptr = IF i.pulse > 0 THEN i.pulse ELSE @,
                     !.pulsetime = IF i.pulse > 0 THEN 0 ELSE @]
  IN IF i.filter > 0 THEN FiltPtr(p, i.filter) ELSE p

\* The wavetable, the effect, then the pulse.
RunVoice(w, effect, pulses) ==
  LET x == WaveExec(w, effect) IN IF pulses THEN PulseExec(x) ELSE x

RowCmd(w, line) ==
  LET c == CommandBytes(line.command) IN Tick0Cmd(w, c[1], c[2])

PlayLine(line) ==
  /\ played < RowBound
  /\ played' = played + 1
  /\ UNCHANGED <<song, image>>

\* A new note's call ends at its registers.
NoteCall(line) ==
  /\ line.note # NoNote /\ line.command.op # "tone portamento"
  /\ PlayLine(line)
  /\ v' = RowCmd(NoNewPatt(NewNote(FilterExec(v), line.note)), line)

LineCall(line) ==
  LET w == IF line.note = NoNote THEN FilterExec(v) ELSE NewNote(FilterExec(v), line.note)
  IN /\ line.note = NoNote \/ line.command.op = "tone portamento"
     /\ PlayLine(line)
     /\ \E pulses \in {TRUE, ~song.pulseopt} : v' = RunVoice(RowCmd(w, line), ~song.realtime, pulses)

Call ==
  /\ \E pulses \in {TRUE, ~song.pulseopt} : v' = RunVoice(FilterExec(v), TRUE, pulses)
  /\ UNCHANGED <<song, image, played>>

Init ==
  /\ song \in Songs
  /\ image = PackedTables(song)
  /\ played = 0
  /\ v = [waveptr |-> 0, wavetime |-> 0, wave |-> 0, pulseptr |-> 0, pulsetime |-> 0,
          pulselo |-> 0, pulsehi |-> 0, filtstep |-> 0, filttime |-> 0, filtcutoff |-> 0,
          filtctrl |-> 0, filttype |-> 0, note |-> 0, lastnote |-> 0, freqlo |-> 0,
          freqhi |-> 0, fx |-> 0, param |-> 0, vibtime |-> 0, vibdelay |-> 0]

Next ==
  \/ \E line \in song.lines : NoteCall(line) \/ LineCall(line)
  \/ Call

\* The player is called every frame.
Spec == Init /\ [][Next]_vars /\ WF_vars(Call)

-----------------------------------------------------------------------------
(* Properties.                                                             *)

\* Where in its swing a vibrato of depth d is; a song's vibratos share one depth.
SwingAt(t, d) ==
  IF t % 2 = 1 THEN 2 * (d \div 2) + 3 + (Signed(t) - 1) \div 2
  ELSE (Signed(t) \div 2) % (2 * d + 4)

WaveLeft ==
  LET a == Left("wave", v.waveptr) IN IF v.waveptr > 0 /\ a \in 1 .. 15 THEN a - v.wavetime ELSE 0

Typed == INSTANCE TypedTick WITH
  voice <- [wave |-> [row |-> v.waveptr, left |-> WaveLeft, form |-> v.wave],
            pulse |-> [row |-> v.pulseptr, left |-> v.pulsetime,
                       width |-> (256 * v.pulsehi + v.pulselo) % 4096],
            filter |-> [row |-> v.filtstep, left |-> v.filttime, cutoff |-> v.filtcutoff,
                        control |-> v.filtctrl, band |-> v.filttype],
            pitch |-> [note |-> v.note, last |-> v.lastnote, freq |-> 256 * v.freqhi + v.freqlo,
                       fx |-> CommandNames[v.fx + 1], param |-> v.param,
                       delay |-> v.vibdelay + 1,
                       swing |-> SwingAt(v.vibtime, song.depth)]]

\* Every call does to the registers what the song's rows say: goattracker.play's
\* eight-bit tables, counters and carries play the typed programs of typed.py.
ImplementsTyped == Typed!Spec

\* A slide that stays in force reaches its note and never runs past it for good.
PortaArrives ==
  v.fx = 3 ~> \/ v.fx # 3
              \/ <<v.freqlo, v.freqhi>> = <<Lo(Freq[v.note]), Hi(Freq[v.note])>>

=============================================================================
