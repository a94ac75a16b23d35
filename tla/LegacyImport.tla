---------------------------- MODULE LegacyImport ----------------------------
(***************************************************************************)
(* The import of old songs (legacy.py): GoatTracker 1 instruments become   *)
(* programs of the shared tables, direct parameters become speed table     *)
(* rows, arpeggios wave programs of instruments cloned for them. One       *)
(* instrument or one row is converted a step.                              *)
(*                                                                         *)
(* An old song is [format, orders, patterns, ...]: for "GTS!" with         *)
(* instruments [ad, sr, pulse, add, low, high, filter, wave] and a filter  *)
(* table of <<a, b, c, d>> steps from step 0 on, rows <<note, command      *)
(* byte, data>>; for "GTS2" with instruments [params, vibrato] and tables, *)
(* rows <<note, instrument, command, data>>. Names are left out.           *)
(***************************************************************************)
EXTENDS SongFile

CONSTANTS
  OldSongs,     \* what is imported
  InstrMax,     \* instrument numbers: 64 in the code
  FilterSteps   \* steps of an old filter table: 64 in the code

ASSUME InstrMaxAssumption == InstrMax \in 2 .. 64
ASSUME FilterStepsAssumption == FilterSteps \in 2 .. 64

VARIABLES
  old,      \* the song imported
  stage,    \* "instruments", "patterns", "filter", "fix", "end", "imported"
  instruments, wave, pulse, filter, speed, patterns,   \* the song made of it
  filtermap,   \* filter table position of each old step
  clones,   \* the arpeggio programs: <<instrument, parameter>> to what plays it
  free,     \* the next instrument number to clone to
  at,       \* the instrument, or <<pattern, row, instrument>>, converted next
  asked     \* history: the speed table entries asked for, <<left, right>>, and given

importVars == <<old, stage, instruments, wave, pulse, filter, speed, patterns, filtermap,
                clones, free, at, asked>>

REST == 189
KEYOFF == 190
TABLEJUMP == 255
LASTNOTE == 188
OLDKEYOFF == 94
OLDREST == 95
Larger(a, b) == IF a > b THEN a ELSE b
Signed(b) == IF b >= 128 THEN b - 256 ELSE b

Blank == [ad |-> 0, sr |-> 0, wave |-> 0, pulse |-> 0, filter |-> 0, vib |-> 0, delay |-> 0,
          gate |-> 2, first |-> 9]

\* As many rows as the table has room for.
Room(table) == TableMax - Len(table)
Extended(table, rows) == table \o SubSeq(rows, 1, Min({Room(table), Len(rows)}))

-----------------------------------------------------------------------------
(* Speed table entries of direct parameters.                               *)

Split(data, mode) ==
  CASE mode = "vibrato" -> <<data \div 16, (data % 16) * 16>>
    [] mode = "fine vibrato" -> <<(data \div 16) % 8, (data % 16) * 16 + (data \div 128) * 8>>
    [] mode = "funktempo" -> <<data \div 16, data % 16>>
    [] mode = "portamento" -> <<(4 * data) \div 256, (4 * data) % 256>>

\* (mutant) A row with the same left side will do.
FoundByLeft(table, row) == {k \in DOMAIN table : table[k][1] = row[1]}

Found(table, row) == {k \in DOMAIN table : table[k] = row}

\* make_speed_entry: [ptr, table]. Pointer 0 for no parameter or no room; else an
\* identical row, else a zero row overwritten, else a new one.
SpeedEntry(table, data, mode) ==
  LET row == Split(data, mode)
      same == Found(table, row)
      zero == Found(table, <<0, 0>>)
  IN CASE data = 0 -> [ptr |-> 0, table |-> table]
       [] data # 0 /\ same # {} -> [ptr |-> Min(same), table |-> table]
       [] data # 0 /\ same = {} /\ zero # {} ->
            [ptr |-> Min(zero), table |-> [table EXCEPT ![Min(zero)] = row]]
       [] OTHER -> IF Room(table) = 0 THEN [ptr |-> 0, table |-> table]
                   ELSE [ptr |-> Len(table) + 1, table |-> Append(table, row)]

\* A speed table entry is asked for, and the asking remembered.
Asked(data, mode, got) ==
  /\ speed' = got.table
  /\ asked' = IF data = 0 THEN asked
              ELSE asked \cup {[row |-> Split(data, mode), ptr |-> got.ptr]}

-----------------------------------------------------------------------------
(* GoatTracker 1 instruments.                                              *)

WaveRow(r, start) ==
  <<IF r[1] \in 8 .. 15 THEN 224 + r[1] ELSE r[1],
    IF r[1] = TABLEJUMP /\ r[2] # 0 THEN (r[2] + start - 1) % 256 ELSE r[2]>>

\* (mutant) The pointer is where a program would have begun.
StartAnyway(start, table) == start

\* None where the table was full already.
StartIn(start, table) == IF start > Len(table) THEN 0 ELSE start

\* The wave table with an instrument's rows, and its pointer; a lone zero row and its
\* end are no program.
WaveOf(rows) ==
  LET start == Len(wave) + 1
      table == Extended(wave, [k \in DOMAIN rows |-> WaveRow(rows[k], start)])
      nothing == Len(rows) = 2 /\ Len(table) > start /\ table[start] = <<0, 0>>
  IN IF rows = <<>> \/ nothing THEN [ptr |-> 0, table |-> wave]
     ELSE [ptr |-> StartIn(start, table), table |-> table]

\* Rows modulating for a time by a speed, no row longer than 127 frames.
PulseRun(time, by) ==
  [k \in 1 .. (time + 126) \div 127 |->
     <<IF k * 127 <= time THEN 127 ELSE time % 127, by % 256>>]

\* (mutant) The loop goes back to the first rise.
LoopAtRise(at1, rise, home) == at1 + 1

\* The row the program loops to: where the rise begins, or where the fall does.
LoopRow(at1, rise, home) == IF home THEN at1 + 1 ELSE at1 + 1 + Len(rise)

\* A pulse program for the old limits and speed: up to the high one, down to the low
\* one, and back to where it began or to the high one.
PulseProgram(p, at1) ==
  LET start == 16 * (p.pulse - (p.pulse % 2))
      width == start \div 16
      set == <<128 + width \div 16, (width * 16) % 256>>
      Times(dist) == IF dist > 0 THEN dist \div p.add ELSE 0
      rise == Times(16 * p.high - start)
      top == start + rise * p.add
      fall == Times(top - 16 * p.low)
      bottom == top - fall * p.add
      home == start < 16 * p.high /\ start > bottom
      back == Times((IF home THEN start ELSE 16 * p.high) - bottom)
      up == p.add \div 2
  IN IF p.add = 0 THEN <<set, <<TABLEJUMP, 0>>>>
     ELSE <<set>> \o PulseRun(rise, up) \o PulseRun(fall, -up) \o PulseRun(back, up)
          \o <<<<TABLEJUMP, LoopRow(at1, PulseRun(rise, up), home)>>>>

SamePulse(a, b) ==
  /\ a.pulse \div 2 = b.pulse \div 2
  /\ a.add = b.add /\ a.low = b.low /\ a.high = b.high

\* The pulse table with instrument n's program, shared with an earlier one of the same
\* parameters, and its pointer.
PulseOf(n) ==
  LET p == old.instruments[n]
      same == {k \in 1 .. n - 1 : SamePulse(old.instruments[k], p)}
  IN CASE p.pulse < 2 -> [ptr |-> 0, table |-> pulse]
       [] p.pulse >= 2 /\ same # {} -> [ptr |-> instruments[Min(same)].pulse, table |-> pulse]
       [] OTHER -> IF Room(pulse) = 0 THEN [ptr |-> 0, table |-> pulse]
                   ELSE [ptr |-> Len(pulse) + 1,
                         table |-> Extended(pulse, PulseProgram(p, Len(pulse) + 1))]

ReadOldInstrument ==
  /\ stage = "instruments" /\ old.format = "GTS!"
  /\ LET p == old.instruments[at]
         w == WaveOf(p.wave)
         u == PulseOf(at)
     IN /\ instruments' =
             [instruments EXCEPT ![at] = [Blank EXCEPT !.ad = p.ad, !.sr = p.sr, !.wave = w.ptr,
                                            !.pulse = u.ptr, !.filter = p.filter,
                                            !.gate = @ + IF p.pulse % 2 = 1 THEN 128 ELSE 0]]
        /\ wave' = w.table /\ pulse' = u.table
  /\ IF at < Len(old.instruments) THEN at' = at + 1 /\ UNCHANGED stage
     ELSE at' = 1 /\ stage' = "patterns"
  /\ UNCHANGED <<old, filter, speed, patterns, filtermap, clones, free, asked>>

-----------------------------------------------------------------------------
(* Patterns and the filter table.                                          *)

NoteOf(note) ==
  CASE note = OLDKEYOFF -> KEYOFF
    [] note = OLDREST -> REST
    [] note = ENDPATT -> ENDPATT
    [] OTHER -> IF note + FIRSTNOTE > LASTNOTE THEN REST ELSE note + FIRSTNOTE

\* <<note, instrument, command, data>>: the command byte holds both.
RowOf(r) ==
  LET fx == r[2] % 8
  IN <<NoteOf(r[1]), r[2] \div 8>>
     \o CASE fx = 5 -> <<10, r[3]>>
          [] fx = 7 -> IF r[3] < 240 THEN <<15, r[3]>> ELSE <<13, r[3] % 16>>
          [] OTHER -> <<fx, r[3]>>

ReadOldPatterns ==
  /\ stage = "patterns"
  /\ patterns' = [k \in DOMAIN old.patterns |->
                    [r \in DOMAIN old.patterns[k] |-> RowOf(old.patterns[k][r])]]
  /\ stage' = "filter"
  /\ UNCHANGED <<old, instruments, wave, pulse, filter, speed, filtermap, clones, free, at, asked>>

FilterStep(n) == old.filter[n + 1]

\* The highest step an instrument, a command or a jump names.
HighestStep ==
  LET named == {p.filter : p \in Range(old.instruments)}
               \cup {FilterStep(n)[4] : n \in 0 .. FilterSteps - 1}
               \cup {r[4] : r \in {row \in UNION {Range(p) : p \in Range(patterns)} : row[3] = 10}}
  IN Min({Max(named \cup {0}), FilterSteps - 1})

\* The rows of step n, the jump among them still to an old step.
FilterRows(n) ==
  LET s == FilterStep(n)
      moves == CASE s[1] # 0 -> <<<<128 + (s[2] \div 16 % 8) * 16, s[1]>>>>
                                \o IF s[3] # 0 THEN <<<<0, s[3]>>>> ELSE <<>>
                 [] OTHER -> PulseRun(s[2], s[3])
      jump == IF s[4] # n + 1 THEN <<<<TABLEJUMP, s[4]>>>> ELSE <<>>
  IN IF s = <<0, 0, 0, 0>> THEN <<>> ELSE moves \o jump

\* The rows of the steps from 1 to n.
RowsUpTo(n) == FlattenSeq([k \in 1 .. n |-> FilterRows(k)])

\* A step begins behind the rows of the steps before it, one without rows too.
StepsFrom(steps) ==
  [n \in 0 .. FilterSteps - 1 |-> IF n \in 1 .. steps THEN Len(RowsUpTo(n - 1)) + 1 ELSE 0]

\* A jump goes where its step begins; a step that is none stops.
Mapped(map, n) == IF n < FilterSteps THEN map[n] ELSE 0

ConvertFilter ==
  LET map == StepsFrom(HighestStep)
      rows == RowsUpTo(HighestStep)
  IN /\ stage = "filter"
     /\ filtermap' = map
     /\ filter' = [k \in DOMAIN rows |->
                     IF rows[k][1] = TABLEJUMP THEN <<TABLEJUMP, Mapped(map, rows[k][2])>>
                     ELSE rows[k]]
     /\ instruments' = [n \in DOMAIN instruments |->
                          [instruments[n] EXCEPT !.filter = Mapped(map, @)]]
     /\ stage' = "fix" /\ at' = <<1, 1, 0>>
     /\ UNCHANGED <<old, wave, pulse, speed, patterns, clones, free, asked>>

-----------------------------------------------------------------------------
(* Rows, one after the other.                                              *)

BeforeEnd(p) ==
  LET ends == {k \in DOMAIN p : p[k][1] = ENDPATT}
  IN IF ends = {} THEN p ELSE SubSeq(p, 1, Min(ends) - 1)

HighestUsed == Max({0} \cup {r[2] : r \in UNION {Range(BeforeEnd(p)) : p \in Range(patterns)}})
NextFree == IF free = 0 THEN HighestUsed + 1 ELSE free

\* The waveforms of the program at a pointer, up to its jump; one that runs off the
\* table's end finds its own copies there, until the table is full.
Waveforms(ptr) ==
  LET rows == SubSeq(wave, ptr, Len(wave))
      jumps == {k \in DOMAIN rows : rows[k][1] = TABLEJUMP}
      n == IF jumps # {} THEN Min(jumps) - 1 ELSE Room(wave)
  IN IF ptr = 0 THEN <<>> ELSE [k \in 1 .. n |-> <<rows[1 + ((k - 1) % Len(rows))][1], 0>>]

\* (mutant) An arpeggio is known by its parameter alone.
KeyOfParameter(ins, data) == <<0, data>>

ArpeggioKey(ins, data) == <<ins, data>>

\* The clones after row r of instrument ins, its arpeggio made if it is new and there
\* is room for it: [wave, instruments, clones, free].
WithArpeggio(r, ins) ==
  LET key == ArpeggioKey(ins, r[4])
      start == Len(wave) + 1
      copied == Extended(wave, Waveforms(instruments[ins].wave))
      hold == r[4] \div 128
      loop == <<<<hold, (r[4] \div 16) % 8>>, <<hold, r[4] % 16>>, <<hold, 0>>,
                <<TABLEJUMP, Len(copied) + 1>>>>
      fits == Len(copied) < TableMax - 3
      new == NextFree < InstrMax
      made == [wave |-> IF fits THEN copied \o loop ELSE copied,
               instruments |-> IF fits /\ new
                               THEN [instruments EXCEPT ![NextFree] =
                                       [instruments[ins] EXCEPT !.wave = start]]
                               ELSE instruments,
               clones |-> IF ~fits THEN clones
                          ELSE [k \in DOMAIN clones \cup {key} |->
                                  IF k # key THEN clones[k]
                                  ELSE IF new THEN [by |-> "instrument", is |-> NextFree]
                                  ELSE [by |-> "pointer", is |-> start]],
               free |-> NextFree + IF fits /\ new THEN 1 ELSE 0]
  IN IF key \in DOMAIN clones
     THEN [wave |-> wave, instruments |-> instruments, clones |-> clones, free |-> NextFree]
     ELSE made

Arpeggiated(r, key, known) ==
  IF key \notin DOMAIN known THEN [r EXCEPT ![4] = 0]
  ELSE IF known[key].by = "instrument" THEN [r EXCEPT ![2] = known[key].is, ![4] = 0]
  ELSE [r EXCEPT ![3] = 8, ![4] = known[key].is]

Here == patterns[at[1]][at[2]]
Playing == IF Here[2] # 0 THEN Here[2] ELSE at[3]

\* The row goes in; the next is converted, in the next pattern with no instrument yet.
PutRow(r) ==
  /\ patterns' = [patterns EXCEPT ![at[1]][at[2]] = r]
  /\ at' = IF at[2] < Len(patterns[at[1]]) THEN <<at[1], at[2] + 1, Playing>>
           ELSE <<at[1] + 1, 1, 0>>

Fixing == stage = "fix" /\ at[1] \in DOMAIN patterns /\ at[2] \in DOMAIN patterns[at[1]]

SkipEmpty ==
  /\ stage = "fix" /\ at[1] \in DOMAIN patterns /\ at[2] \notin DOMAIN patterns[at[1]]
  /\ at' = <<at[1] + 1, 1, 0>>
  /\ UNCHANGED <<old, stage, instruments, wave, pulse, filter, speed, patterns, filtermap,
                 clones, free, asked>>

\* What the parameter of command fx becomes in the speed table, if it does.
VibratoMode == IF old.format = "GTS2" /\ old.fine THEN "fine vibrato" ELSE "vibrato"
ModeOf(fx) ==
  CASE fx \in {1, 2, 3} -> "portamento" [] fx = 4 -> VibratoMode
    [] fx = 14 /\ old.format = "GTS2" -> "funktempo" [] OTHER -> "none"

FixParameter ==
  /\ Fixing /\ ModeOf(Here[3]) # "none"
  /\ LET got == SpeedEntry(speed, Here[4], ModeOf(Here[3]))
     IN Asked(Here[4], ModeOf(Here[3]), got) /\ PutRow([Here EXCEPT ![4] = got.ptr])
  /\ free' = NextFree
  /\ UNCHANGED <<old, stage, instruments, wave, pulse, filter, filtermap, clones>>

\* Tempo 0 is the funktempo kept in filter step 0.
Funk == ((FilterStep(0)[3] * 16) % 256) + (FilterStep(0)[4] % 16)

FixFunktempo ==
  /\ Fixing /\ old.format = "GTS!" /\ Here[3] = 15 /\ Here[4] = 0
  /\ LET got == SpeedEntry(speed, Funk, "funktempo")
     IN Asked(Funk, "funktempo", got) /\ PutRow([Here EXCEPT ![3] = 14, ![4] = got.ptr])
  /\ free' = NextFree
  /\ UNCHANGED <<old, stage, instruments, wave, pulse, filter, filtermap, clones>>

FixArpeggio ==
  /\ Fixing /\ old.format = "GTS!" /\ Here[3] = 0 /\ Here[4] # 0
  /\ Here[1] \in FIRSTNOTE .. LASTNOTE /\ Playing # 0
  /\ LET got == WithArpeggio(Here, Playing)
     IN /\ wave' = got.wave /\ instruments' = got.instruments
        /\ clones' = got.clones /\ free' = got.free
        /\ PutRow(Arpeggiated(Here, ArpeggioKey(Playing, Here[4]), got.clones))
  /\ UNCHANGED <<old, stage, pulse, filter, speed, filtermap, asked>>

FixOther ==
  /\ Fixing /\ ModeOf(Here[3]) = "none"
  /\ ~(old.format = "GTS!" /\ Here[3] = 15 /\ Here[4] = 0)
  /\ ~(old.format = "GTS!" /\ Here[3] = 0 /\ Here[4] # 0
       /\ Here[1] \in FIRSTNOTE .. LASTNOTE /\ Playing # 0)
  /\ PutRow(IF old.format = "GTS2" THEN Here
            ELSE IF Here[3] = 10 THEN [Here EXCEPT ![4] = Mapped(filtermap, @)]
            ELSE IF Here[3] = 0 THEN [Here EXCEPT ![4] = 0] ELSE Here)
  /\ free' = NextFree
  /\ UNCHANGED <<old, stage, instruments, wave, pulse, filter, speed, filtermap, clones, asked>>

-----------------------------------------------------------------------------
(* Early GoatTracker 2.                                                    *)

BetaNote(note) ==
  IF note = 176 THEN REST ELSE IF note \in 80 .. 175 THEN Min({note + 16, REST}) ELSE note

\* The instruments' vibratos come first.
ReadVibrato ==
  /\ stage = "instruments" /\ old.format = "GTS2"
  /\ LET p == old.instruments[at]
         got == SpeedEntry(speed, p.vibrato, VibratoMode)
     IN /\ Asked(p.vibrato, VibratoMode, got)
        /\ instruments' = [instruments EXCEPT ![at] =
                             [Blank EXCEPT !.wave = p.wave, !.pulse = p.pulse, !.filter = p.filter,
                                !.vib = got.ptr, !.gate = p.gate, !.first = p.first]]
  /\ wave' = old.wave /\ pulse' = old.pulse /\ filter' = old.filter
  /\ patterns' = [k \in DOMAIN old.patterns |->
                    [r \in DOMAIN old.patterns[k] |->
                       IF old.beta THEN [old.patterns[k][r] EXCEPT ![1] = BetaNote(@)]
                       ELSE old.patterns[k][r]]]
  /\ IF at < Len(old.instruments) THEN at' = at + 1 /\ UNCHANGED stage
     ELSE at' = <<1, 1, 0>> /\ stage' = "fix"
  /\ UNCHANGED <<old, filtermap, clones, free>>

-----------------------------------------------------------------------------
(* The fixes every old song gets.                                          *)

\* Pulse speeds gained a bit.
Doubled(r) ==
  IF r[1] >= 128 \/ r[2] = 0 THEN r
  ELSE <<r[1], Min({Larger(2 * Signed(r[2]), -128), 127}) % 256>>

\* A first wave of $80 on was no hard restart, one of 0 is no gate off.
Regated(ins) ==
  LET hard == IF ins.first >= 128 /\ ins.gate < 128 THEN 128 ELSE 0
      first == ins.first % 128
      gated == ins.gate + hard
  IN [ins EXCEPT !.first = first,
                 !.gate = gated + IF first = 0 /\ (gated \div 64) % 2 = 0 THEN 64 ELSE 0]

\* Instruments left as they were made are dropped from the end, down to the last used.
Trimmed ==
  LET n == Max({HighestUsed} \cup {k \in DOMAIN instruments : instruments[k] # Blank})
  IN [k \in 1 .. n |-> instruments[k]]

End ==
  /\ stage = "fix" /\ at[1] \notin DOMAIN patterns
  /\ LET used == IF old.format = "GTS2" THEN [k \in DOMAIN old.instruments |-> instruments[k]]
                 ELSE Trimmed
     IN instruments' = [k \in DOMAIN used |-> Regated(used[k])]
  /\ pulse' = [k \in DOMAIN pulse |-> Doubled(pulse[k])]
  /\ patterns' = IF old.format = "GTS2" THEN patterns
                 ELSE [k \in DOMAIN patterns |-> BeforeEnd(patterns[k])]
  /\ stage' = "imported"
  /\ UNCHANGED <<old, wave, filter, speed, filtermap, clones, free, at, asked>>

ImportInit ==
  /\ old \in OldSongs /\ stage = "instruments" /\ at = 1
  /\ instruments = [k \in 1 .. InstrMax - 1 |-> Blank]
  /\ wave = <<>> /\ pulse = <<>> /\ filter = <<>> /\ speed = <<>> /\ patterns = <<>>
  /\ filtermap = [n \in 0 .. FilterSteps - 1 |-> 0]
  /\ clones = <<>> /\ free = 0 /\ asked = {}

Import ==
  \/ ReadOldInstrument \/ ReadOldPatterns \/ ConvertFilter \/ ReadVibrato
  \/ SkipEmpty \/ FixParameter \/ FixFunktempo \/ FixArpeggio \/ FixOther \/ End

-----------------------------------------------------------------------------
(* Properties.                                                             *)

\* A speed table pointer still names the row it was asked for when the import is done,
\* and 0 was given only when the table was full (make_speed_entry).
SpeedsKept ==
  \A a \in asked : IF a.ptr = 0 THEN Room(speed) = 0
                   ELSE a.ptr \in DOMAIN speed /\ speed[a.ptr] = a.row

\* The rows the program at a pointer plays, n of them, jumps followed; <<>> once stopped.
Played(table, ptr, n) ==
  LET at1[k \in 1 .. n] ==
        LET p == IF k = 1 THEN ptr ELSE IF at1[k - 1] = 0 THEN 0 ELSE at1[k - 1] + 1
        IN IF p \in DOMAIN table /\ table[p][1] = TABLEJUMP THEN table[p][2]
           ELSE IF p \in DOMAIN table THEN p ELSE 0
  IN [k \in 1 .. n |-> IF at1[k] = 0 THEN <<>> ELSE table[at1[k]]]

\* What a jump of an old instrument's rows plays after them.
OldPlayed(rows, n) == Played([k \in DOMAIN rows |-> WaveRow(rows[k], 1)], 1, n)

\* The row instrument i plays from tick k on with arpeggio a on it: the waveforms, then
\* the three notes over and over.
Arpeggio(i, a, n) ==
  LET rows == old.instruments[i].wave
      jumps == {k \in DOMAIN rows : rows[k][1] = TABLEJUMP}
      waves == IF instruments[i].wave = 0 THEN 0 ELSE Min(jumps \cup {Len(rows) + 1}) - 1
      notes == <<(a \div 16) % 8, a % 16, 0>>
  IN [k \in 1 .. n |-> IF k <= waves THEN <<WaveRow(rows[k], 1)[1], 0>>
                       ELSE <<a \div 128, notes[1 + ((k - waves - 1) % 3)]>>]

\* The instrument an old row plays with.
OldPlaying(p, r) ==
  LET set == {k \in 1 .. r : old.patterns[p][k][2] >= 8}
  IN IF set = {} THEN 0 ELSE old.patterns[p][Max(set)][2] \div 8

\* The instruments up to the highest an old row names: clones take the numbers after.
OldUsed ==
  {i \in DOMAIN old.instruments :
     \E p \in DOMAIN patterns : \E r \in DOMAIN patterns[p] : old.patterns[p][r][2] \div 8 >= i}

IsArpeggio(r) ==
  r[2] % 8 = 0 /\ r[3] # 0 /\ FIRSTNOTE + r[1] <= LASTNOTE

Ticks == 8

\* While the wave table has room every instrument in use plays the program it had, and a row
\* with an arpeggio the waveforms of the instrument playing and then its three notes
\* (_convert_wavetable, _convert_arpeggio).
WavesKept ==
  stage = "imported" /\ old.format = "GTS!" /\ Room(wave) > 3 =>
    /\ \A i \in OldUsed :
         instruments[i].wave # 0 =>
           Played(wave, instruments[i].wave, Ticks) = OldPlayed(old.instruments[i].wave, Ticks)
    /\ \A p \in DOMAIN patterns : \A r \in DOMAIN patterns[p] :
         IsArpeggio(old.patterns[p][r]) /\ OldPlaying(p, r) # 0 =>
           LET new == patterns[p][r]
           IN Played(wave, IF new[3] = 8 THEN new[4] ELSE instruments[new[2]].wave, Ticks)
                = Arpeggio(OldPlaying(p, r), old.patterns[p][r][3], Ticks)

\* Where the width a loop starts from is within the limits, a round of its pulse loop
\* ends at the width it began with (_convert_pulse).
PulseReturns ==
  stage = "imported" /\ old.format = "GTS!" /\ Room(pulse) > 0 =>
    \A i \in OldUsed :
      LET p == old.instruments[i]
          ends == {k \in DOMAIN pulse : k >= instruments[i].pulse /\ pulse[k][1] = TABLEJUMP}
          loop == pulse[Min(ends)][2] .. Min(ends) - 1
      IN instruments[i].pulse # 0 /\ p.add \in 1 .. 127 /\ p.pulse <= p.high =>
           FoldSet(LAMBDA k, sum : sum + pulse[k][1] * Signed(pulse[k][2]), 0, loop) = 0

=============================================================================
