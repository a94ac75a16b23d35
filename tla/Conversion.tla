----------------------------- MODULE Conversion -----------------------------
(***************************************************************************)
(* The converter to NinjaTracker on one channel: the pattern instances the *)
(* timing replay played, with the frames each row lasted, become patterns  *)
(* of rows with explicit durations, and rows' instruments and effects      *)
(* become numbered commands. A step is a row, a pattern or an orderlist    *)
(* entry. Commands are their memo keys; the table programs they point to   *)
(* are TablePrograms.                                                      *)
(*                                                                         *)
(* A source row is [note, instr, fx, data]. A row made is [note, cmd, dur],*)
(* where cmd is <<>> for none, else <<legato, number>>, and duration 0 is  *)
(* the one of the row before.                                              *)
(***************************************************************************)
EXTENDS Orderlist, SequencesExt

CONSTANTS
  Songs,         \* what is converted (see MCConversion)
  MaxCommands,   \* 127 in the code
  MaxPatterns,   \* 127 in the code
  EmptyRows      \* the rows of a pattern the song does not have: 64 in the code

VARIABLES
  song, strict,
  played,              \* the replay's pattern instances: [pattern, durations]
  at, owed, made,      \* entry being converted, plays of it owed, instances done
  rows,                \* the rows made of the current instance
  index,               \* its next source row
  voice,               \* instrument, attack/decay, sustain/release, last command
  entries, restart,    \* the track
  patterns, commands,  \* stored patterns, and command keys by number
  firstwave, dropped,
  outcome              \* "converting", "done" or "failed"

cursor == <<at, owed, made, rows, index>>
stores == <<entries, restart, patterns>>
vars == <<song, strict, played, cursor, voice, stores, commands, firstwave, dropped, outcome>>

NoNote == -1
KeyOff == -2
KeyOn  == -3
LowNote == 12       \* C-1
NT2_MIN_DURATION == 3
NT2_MAX_DURATION == 66
FastSlide == 7935   \* $1EFF

None == <<>>
Own == -1           \* a command with its instrument's own wave pointer
Realtime == -1      \* a speed of bit 7: note-independent

-----------------------------------------------------------------------------
(* Durations.                                                              *)

\* Durations of 3 to 66 frames: a cut leaves what the last one needs.
ChunkDuration(total) ==
  LET take(t) == IF t - NT2_MAX_DURATION < NT2_MIN_DURATION
                 THEN t - NT2_MIN_DURATION ELSE NT2_MAX_DURATION
      f[t \in 0 .. total] == IF t <= NT2_MAX_DURATION THEN <<t>> ELSE <<take(t)>> \o f[t - take(t)]
  IN f[total]

NinjaRow(note, cmd, dur) == [note |-> note, cmd |-> cmd, dur |-> dur]

Continued(chunks) == [k \in 1 .. Len(chunks) - 1 |-> NinjaRow(NoNote, None, chunks[k + 1])]

\* (mutant) A rest's row is made anew where its frames do not fit the last.
RestStartsOver(rs, frames) == ChunkDuration(frames)

\* The frames of the last row with a rest of this many after it.
RestMerged(rs, frames) == ChunkDuration(Last(rs).dur + frames)

\* (mutant) Durations are compared with the first row's.
InheritedFromFirst(rs) ==
  [k \in DOMAIN rs |-> IF k > 1 /\ rs[k].dur = rs[1].dur THEN [rs[k] EXCEPT !.dur = 0] ELSE rs[k]]

\* Repeated durations are blanked; the first row keeps its own.
Inherited(rs) ==
  [k \in DOMAIN rs |-> IF k > 1 /\ rs[k].dur = rs[k - 1].dur THEN [rs[k] EXCEPT !.dur = 0] ELSE rs[k]]

-----------------------------------------------------------------------------
(* Commands.                                                               *)

InstrumentKey(num, wave, vib) == <<"instrument", num, wave, vib>>

Instrument(num) == song.instruments[num]

Legato(num) == Instrument(num).legato

SpeedValue(i) ==
  IF i \notin DOMAIN song.speeds THEN [speed |-> 0, lost |-> {}]
  ELSE IF song.speeds[i] = Realtime THEN [speed |-> 0, lost |-> {"note-independent speed"}]
       ELSE [speed |-> song.speeds[i], lost |-> {}]

\* What a row asks for: a command key in legato mode or not, held back where
\* the channel has it (running), or none; and what is lost by it.
Ask(key, legato, running, lost) ==
  [key |-> key, legato |-> legato, running |-> running, lost |-> lost]

LostEffect(row) ==
  CASE row.fx \in {1, 2} -> {"portamento"}
    [] row.fx \in {7, 11, 12} -> {"command"}
    [] row.fx = 13 /\ row.data < 16 -> {"master volume"}
    [] OTHER -> {}

\* (mutant) A note with a vibrato keeps the instrument's own.
VibratoOfInstrument(row, v) == Instrument(v.instr).vib

\* A note's vibrato command replaces its instrument's.
VibratoOverride(row, v) == <<0, row.data>>

RowCommand(row, v, hasNote) ==
  LET own == InstrumentKey(v.instr, Own, Instrument(v.instr).vib)
      slide == SpeedValue(row.data)
  IN CASE row.fx = 3 /\ hasNote ->
            Ask(<<"slide", IF slide.speed = 0 THEN FastSlide
                           ELSE IF slide.speed < FastSlide THEN slide.speed ELSE FastSlide>>,
                TRUE, FALSE, slide.lost)
       [] row.fx = 4 /\ row.data # 0 /\ hasNote ->
            Ask(InstrumentKey(v.instr, Own, VibratoOverride(row, v)), Legato(v.instr), FALSE, {})
       [] row.fx = 4 /\ row.data # 0 ->
            Ask(<<"vibrato", row.data>>, TRUE, TRUE, SpeedValue(row.data).lost)
       [] row.fx \in {5, 6} -> Ask(<<"adsr", v.ad, v.sr>>, FALSE, TRUE, {})
       [] row.fx = 8 /\ hasNote ->
            Ask(InstrumentKey(v.instr, row.data, Instrument(v.instr).vib), Legato(v.instr), FALSE, {})
       [] row.fx \in {8, 9, 10} -> Ask(<<"pointer", row.fx, row.data>>, TRUE, FALSE, {})
       [] OTHER -> Ask(IF hasNote THEN own ELSE None, Legato(v.instr), TRUE, LostEffect(row))

\* A command's number: the one its key has, or the next.
Number(key) == IF key \in Range(commands) THEN CHOOSE n \in DOMAIN commands : commands[n] = key
               ELSE Len(commands) + 1

\* What making an instrument's command loses: a gate timer beyond two frames, a
\* first waveform that is not the song's.
BuildLost(key) ==
  IF key[1] # "instrument" THEN {}
  ELSE LET i == Instrument(key[2]) IN
       (IF i.gate > 2 THEN {"gateoff timer"} ELSE {})
       \cup (IF i.first >= 254 THEN {"gate-only first wave"}
             ELSE IF firstwave # 0 /\ i.first \notin {0, firstwave} THEN {"first frame wave"}
             ELSE {})

FirstWave(key) ==
  IF key[1] = "instrument" /\ firstwave = 0 /\ Instrument(key[2]).first < 254
  THEN Instrument(key[2]).first ELSE firstwave

\* The channel's state with what the row states.
Stated(row) ==
  LET i == IF row.instr = 0 THEN voice
           ELSE [voice EXCEPT !.instr = row.instr, !.ad = Instrument(row.instr).ad,
                              !.sr = Instrument(row.instr).sr]
  IN CASE row.fx = 5 -> [i EXCEPT !.ad = row.data]
       [] row.fx = 6 -> [i EXCEPT !.sr = row.data]
       [] OTHER -> i

IsPitch(n) == n >= 0
Raised(n) == IF IsPitch(n) /\ n < LowNote THEN LowNote ELSE n

-----------------------------------------------------------------------------
(* The replay's instances of the song: two passes of the orderlist.        *)

Rows(p) == IF p \in DOMAIN song.patterns THEN song.patterns[p] ELSE <<>>
RowCount(p) == IF p \in DOMAIN song.patterns THEN Len(song.patterns[p]) ELSE EmptyRows

\* The walk's states, from the first pattern to the one after the second loop.
Passes(o) ==
  LET n == 4 * o.size * 4
      f[k \in 1 .. n] == IF k = 1 THEN Walk(o, WalkStart) ELSE Walk(o, f[k - 1])
      past == CHOOSE k \in 1 .. n : f[k].loops = 2 /\ \A j \in 1 .. k - 1 : f[j].loops < 2
  IN [k \in 1 .. past |-> f[k]]

\* The replay stops with the first frame of the third pass.
Replayed(s) ==
  LET w == Passes(s.order)
      rowsOf(p) == IF p \in DOMAIN s.patterns THEN Len(s.patterns[p]) ELSE EmptyRows
  IN [k \in DOMAIN w |->
        [pattern |-> w[k].pattnum,
         durations |-> IF w[k].loops = 2 THEN <<1>>
                       ELSE [i \in 1 .. rowsOf(w[k].pattnum) |->
                               IF i = 1 THEN s.first[w[k].loops + 1] ELSE s.hold]]]

-----------------------------------------------------------------------------
(* Converting the channel.                                                 *)

Entry == song.order.entries[at]
AtEntry == outcome = "converting" /\ at < song.order.size /\ owed = 0

\* The play that begins the second pass, and how many one pass has.
CheckPlays ==
  LET o == song.order
      f[i \in 0 .. o.size] ==
        IF i = 0 THEN [n |-> 0, pending |-> 1, restart |-> 0]
        ELSE LET s == f[i - 1]
                 b == o.entries[i - 1]
             IN CASE IsRepeat(b) -> [s EXCEPT !.pending = b - REPEAT + 1,
                                              !.restart = IF i - 1 = o.restart THEN s.n ELSE @]
                  [] IsPattern(b) -> [n |-> s.n + s.pending, pending |-> 1,
                                      restart |-> IF i - 1 = o.restart
                                                  THEN s.n + s.pending - 1 ELSE s.restart]
                  [] OTHER -> [s EXCEPT !.restart = IF i - 1 = o.restart THEN s.n ELSE @]
  IN f[o.size]

\* The second pass lasts otherwise than the first.
Unstable ==
  LET c == CheckPlays IN
  \E k \in 1 .. c.n - c.restart :
    c.n + k <= Len(played) /\ played[c.restart + k] # played[c.n + k]

Diverged == CheckPlays.n > Len(played)

Start ==
  /\ outcome = "starting"
  /\ IF Diverged \/ (strict /\ Unstable) THEN outcome' = "failed" /\ UNCHANGED dropped
     ELSE /\ outcome' = "converting"
          /\ dropped' = dropped \cup (IF Unstable THEN {"tempo differs"} ELSE {})
  /\ UNCHANGED <<song, strict, played, cursor, voice, stores, commands, firstwave>>

RestartHere(n) == IF at = song.order.restart THEN n ELSE restart

TransposeEntry ==
  /\ AtEntry /\ IsTranspose(Entry)
  /\ restart' = RestartHere(Len(entries))
  /\ entries' = Append(entries, <<"transpose", Entry - TRANSUP>>)
  /\ at' = at + 1
  /\ UNCHANGED <<song, strict, played, owed, made, rows, index, voice, patterns, commands,
                 firstwave, dropped, outcome>>

\* (mutant) A restart at a repeated pattern goes to its first copy.
RestartAtFirst(plays) == Len(entries)

\* The playroutine does not arm a repeat again: the loop is to the last copy.
RestartAtLast(plays) == Len(entries) + plays - 1

\* A pattern, with the repeat before it: its plays are converted one by one.
PlayEntry ==
  /\ AtEntry /\ ~ IsTranspose(Entry)
  /\ LET repeated == IsRepeat(Entry)
         pos   == IF repeated THEN at + 1 ELSE at
         plays == IF repeated THEN Entry - REPEAT + 1 ELSE 1
     IN /\ at' = pos
        /\ owed' = plays
        /\ restart' = CASE at = song.order.restart -> RestartHere(Len(entries))
                        [] pos = song.order.restart -> RestartAtLast(plays)
                        [] OTHER -> restart
  /\ rows' = <<>> /\ index' = 1
  /\ UNCHANGED <<song, strict, played, made, voice, entries, patterns, commands, firstwave,
                 dropped, outcome>>

Instance == played[made + 1]

\* The rows with one more: a rest with no command lasts on in the row before.
RowsWith(note, cmd, frames) ==
  IF note = NoNote /\ cmd = None /\ rows # <<>>
  THEN LET chunks == RestMerged(rows, frames)
       IN [rows EXCEPT ![Len(rows)].dur = chunks[1]] \o Continued(chunks)
  ELSE LET chunks == ChunkDuration(frames)
       IN Append(rows, NinjaRow(note, cmd, chunks[1])) \o Continued(chunks)

EmptyRow ==
  /\ rows' = RowsWith(NoNote, None, Instance.durations[index])
  /\ UNCHANGED <<voice, commands, firstwave, dropped, outcome>>

PatternRow ==
  LET row  == Rows(Instance.pattern)[index]
      v    == Stated(row)
      ask  == RowCommand(row, v, IsPitch(row.note))
      new  == ask.key # None /\ ask.key \notin Range(commands)
      cmd  == <<ask.legato, Number(ask.key)>>
      sent == IF ask.key = None \/ (ask.running /\ cmd = v.last) THEN None ELSE cmd
      lost == ask.lost \cup (IF new THEN BuildLost(ask.key) ELSE {})
                \cup (IF IsPitch(row.note) /\ row.note < LowNote THEN {"note below C-1"} ELSE {})
  IN IF (strict /\ lost # {}) \/ (new /\ Len(commands) >= MaxCommands)
     THEN outcome' = "failed" /\ UNCHANGED <<rows, voice, commands, firstwave, dropped>>
     ELSE /\ commands' = IF new THEN Append(commands, ask.key) ELSE commands
          /\ firstwave' = IF new THEN FirstWave(ask.key) ELSE firstwave
          /\ dropped' = dropped \cup lost
          /\ voice' = IF sent = None THEN v ELSE [v EXCEPT !.last = sent]
          /\ rows' = RowsWith(Raised(row.note), sent, Instance.durations[index])
          /\ UNCHANGED outcome

ConvertRow ==
  /\ outcome = "converting" /\ owed > 0 /\ index <= Len(Instance.durations)
  /\ IF index <= Len(Rows(Instance.pattern)) THEN PatternRow ELSE EmptyRow
  /\ index' = index + 1
  /\ UNCHANGED <<song, strict, played, at, owed, made, stores>>

\* The instance is converted: its pattern is stored, or found, and played.
StorePattern ==
  /\ outcome = "converting" /\ owed > 0 /\ index > Len(Instance.durations)
  /\ LET done == Inherited(rows)
         new  == done \notin Range(patterns)
         n    == IF new THEN Len(patterns) + 1 ELSE CHOOSE k \in DOMAIN patterns : patterns[k] = done
     IN IF new /\ Len(patterns) >= MaxPatterns
        THEN outcome' = "failed" /\ UNCHANGED <<cursor, entries, patterns>>
        ELSE /\ patterns' = IF new THEN Append(patterns, done) ELSE patterns
             /\ entries' = Append(entries, <<"play", n>>)
             /\ made' = made + 1 /\ owed' = owed - 1
             /\ at' = IF owed = 1 THEN at + 1 ELSE at
             /\ rows' = <<>> /\ index' = 1
             /\ UNCHANGED outcome
  /\ UNCHANGED <<song, strict, played, voice, restart, commands, firstwave, dropped>>

\* (mutant) The channel is done when it has used every instance of the replay.
UsedAll == made = Len(played)

Converted == at = song.order.size

Finish ==
  /\ outcome = "converting" /\ Converted
  /\ outcome' = "done"
  /\ UNCHANGED <<song, strict, played, cursor, voice, stores, commands, firstwave, dropped>>

Init ==
  /\ song \in Songs /\ strict \in BOOLEAN
  /\ played = Replayed(song)
  /\ at = 0 /\ owed = 0 /\ made = 0 /\ rows = <<>> /\ index = 1
  /\ voice = [instr |-> 1, ad |-> 0, sr |-> 0, last |-> None]
  /\ entries = <<>> /\ restart = 0 /\ patterns = <<>> /\ commands = <<>>
  /\ firstwave = 0 /\ dropped = {} /\ outcome = "starting"

Next == Start \/ TransposeEntry \/ PlayEntry \/ ConvertRow \/ StorePattern \/ Finish

Spec == Init /\ [][Next]_vars

\* The conversion is a loop over finite lists with no other exit.
FairSpec == Spec /\ WF_vars(Next)

-----------------------------------------------------------------------------
(* What NinjaTracker plays: a row's duration and command are those of the  *)
(* row before where it states none.                                        *)

\* Rows heard: <<frame, note, command>> of every row with a note, from a frame
\* on with a command in force, and the frame and the command after them.
Play(rs, command) ==
  FoldLeft(LAMBDA s, r :
             LET dur == IF r.dur = 0 THEN s.dur ELSE r.dur
                 cmd == IF r.cmd = None THEN s.cmd ELSE r.cmd
             IN [dur |-> dur, cmd |-> cmd, frame |-> s.frame + dur,
                 heard |-> IF r.note = NoNote THEN s.heard
                           ELSE Append(s.heard, <<s.frame, r.note, cmd>>)],
           [dur |-> 0, cmd |-> command, frame |-> 0, heard |-> <<>>], rs)

\* The same of the source: an instance's notes at their frames.
Source(inst) ==
  LET rs == Rows(inst.pattern) IN
  FoldLeft(LAMBDA s, k :
             [frame |-> s.frame + inst.durations[k],
              heard |-> IF k > Len(rs) \/ rs[k].note = NoNote THEN s.heard
                        ELSE Append(s.heard, <<s.frame, Raised(rs[k].note)>>)],
           [frame |-> 0, heard |-> <<>>], [k \in DOMAIN inst.durations |-> k])

Timed(heard) == [k \in DOMAIN heard |-> <<heard[k][1], heard[k][2]>>]

SamePlay(rs, inst) ==
  Play(rs, None).frame = Source(inst).frame /\ Timed(Play(rs, None).heard) = Source(inst).heard

\* The patterns a track plays from entry i on, in order.
PlayedFrom(i) ==
  LET tail == SelectSeq(SubSeq(entries, i, Len(entries)), LAMBDA e : e[1] = "play")
  IN [k \in DOMAIN tail |-> patterns[tail[k][2]]]

\* The instrument of each note of a sequence of instances, with its effect.
NoteRows(insts) ==
  FlattenSeq([k \in DOMAIN insts |->
    [i \in DOMAIN Rows(insts[k].pattern) |->
       Rows(insts[k].pattern)[i]]])

\* The notes played, each with the instrument in force at it.
Sounding(insts) ==
  FoldLeft(LAMBDA s, r :
             LET i == IF r.instr = 0 THEN s.instr ELSE r.instr
             IN [instr |-> i, notes |-> IF r.note = NoNote THEN s.notes
                                        ELSE Append(s.notes, [r EXCEPT !.instr = i])],
           [instr |-> 1, notes |-> <<>>], NoteRows(insts)).notes

\* The commands in force at the notes of patterns played one after the other.
CommandsHeard(pats, command) ==
  FoldLeft(LAMBDA s, rs :
             LET p == Play(rs, s.cmd)
             IN [cmd |-> p.cmd, heard |-> s.heard \o [k \in DOMAIN p.heard |-> p.heard[k][3]]],
           [cmd |-> command, heard |-> <<>>], pats)

\* A note's command is its instrument's, unless the row slides to the note.
FitsNote(cmd, r) ==
  cmd # None /\ LET key == commands[cmd[2]] IN
    IF r.fx = 3 THEN key[1] = "slide"
    ELSE key[1] = "instrument" /\ key[2] = r.instr
         /\ (r.fx = 4 /\ r.data # 0 => key[4] = <<0, r.data>>)

-----------------------------------------------------------------------------
(* Properties.                                                             *)

TypeOK ==
  /\ Len(commands) <= MaxCommands /\ Len(patterns) <= MaxPatterns
  /\ \A p \in DOMAIN patterns, k \in 1 .. 4 : k \in DOMAIN patterns[p] =>
       patterns[p][k].dur \in {0} \cup NT2_MIN_DURATION .. NT2_MAX_DURATION
  /\ \A k \in DOMAIN rows : rows[k].dur \in NT2_MIN_DURATION .. NT2_MAX_DURATION
  /\ restart \in 0 .. song.order.size * 16
  /\ outcome \in {"starting", "converting", "done", "failed"}

\* Every pattern stored lasts as many frames as the instance it was made of,
\* with its notes at the same frames: merged rests, rows split into chunks and
\* blanked durations move nothing.
NotesOnTime ==
  LET pats == PlayedFrom(1) IN
  \A k \in DOMAIN pats : SamePlay(pats[k], played[k])

\* The track's loop plays what the song's second pass played: the restart entry,
\* with a repeat laid out in copies, names the same place.
LoopsAlike ==
  outcome = "done" /\ (strict \/ ~ Unstable) =>
    LET pats == PlayedFrom(restart + 1)
        n    == made
    IN /\ n + Len(pats) + 1 = Len(played)
       /\ \A k \in DOMAIN pats : SamePlay(pats[k], played[n + k])

\* Where 5, 6, 9 or A stands on a note, its command takes the note's place.
Displaces(r) == r.fx \in {5, 6, 9, 10}

\* On the first pass every note sounds with its own instrument's command, or its
\* slide's, although a command is sent only where it changes.
OwnCommand ==
  outcome = "done" =>
    LET notes == Sounding(SubSeq(played, 1, made))
        heard == CommandsHeard(PlayedFrom(1), None).heard
    IN (\A k \in DOMAIN notes : ~ Displaces(notes[k]) /\ IsPitch(notes[k].note)) =>
         /\ Len(heard) = Len(notes)
         /\ \A k \in DOMAIN notes : FitsNote(heard[k], notes[k])

\* As convert.py:29 has it, strict mode expresses every feature or raises: a note
\* that is converted sounds with its instrument also under 5, 6, 9 and A.
NoNoteDisplaced ==
  outcome = "done" /\ strict =>
    LET notes == Sounding(SubSeq(played, 1, made))
        heard == CommandsHeard(PlayedFrom(1), None).heard
    IN \A k \in DOMAIN notes :
         IsPitch(notes[k].note) /\ notes[k].fx # 3 =>
           heard[k] # None /\ LET key == commands[heard[k][2]] IN
             key[1] = "instrument" /\ key[2] = notes[k].instr

\* And the second pass, baked into the same patterns, gives every note its
\* instrument too.
LoopOwnCommand ==
  outcome = "done" /\ strict =>
    LET all    == Sounding(SubSeq(played, 1, Len(played) - 1))
        first  == Len(Sounding(SubSeq(played, 1, made)))
        after  == CommandsHeard(PlayedFrom(1), None).cmd
        heard  == CommandsHeard(PlayedFrom(restart + 1), after).heard
    IN \A k \in DOMAIN heard : FitsNote(heard[k], all[first + k])

\* A song is converted or refused.
Converts == <>(outcome \in {"done", "failed"})

=============================================================================
