# pygoattracker, specified and checked

pygoattracker reads, writes, plays, converts and decompiles GoatTracker songs.
Most of what it does it states more than once, in different forms: the packed
playroutine (`src/src/pygoattracker/specs/goattracker.play`, the program
`Player` runs) and the converter's replay of it (`convert.py`); rows as bytes
and rows as typed operations (`typed.py`); a song and its file, its packed tune,
its canonical text. What can go wrong is a difference between two such forms.
So each is a module here, and what is checked is that one implements, decodes
back to, or plays as the other; for orderlists, row timing, the replay's rows and
the converted table programs it is also proved, for every song.

Paths below are relative to the repository (`src/` here).

## Inventory

| part | state | operations | interacts with | hard behaviour | what makes it right |
| --- | --- | --- | --- | --- | --- |
| orderlist walk, packed (`goattracker.play` `sequencer`, `packed.orderlist_bytes`) | per channel `songptr`, `trans`, `repeat`, `pattnum` | loop, transpose, repeat, next pattern | called from tick 0 when `pattptr` is 0 | a repeat trails its pattern and counts up in a byte; transposes outlive the loop | plays the editor's entries, each repeat its count, each transpose where it applies |
| converter's replay (`convert._TempoWalk`) | per channel `songptr`, `repeat`, `pattnum`, `row`, `tick`, `tempo`, `loops`; one `funktable` | `_sequence`, `_row_commands`, `run` | its durations become NinjaTracker rows | channels set each other's tempo inside a frame; funk phase; two ways to refuse | every replay ends; no row below three frames is handed on |
| row timing, packed (`goattracker.play` `step`, `tick0`, `nonewpatt`, `tick0cmd`, `done`) | per channel `counter`, `gatetimer`, `instr`, `newfx`, `newparam`, `newnote`, `pattptr`, `tempos`; one `funk` pair | song start, tick 0, reload, count, fetch | sequencer; table executors after it in the call | rows are fetched before they sound; note init skips the fetch; held commands run again | each row fetched once and in time, in song order, with the replay's timing |
| pattern stream (`getnewnote`, `rest`, `packed.pattern_bytes`, `typed.packed_rows`, `typed.raw_rows`) | `pattptr`, `packedrest`, `newfx`, `newparam`, `newnote` | one packed row a fetch | row timing | commands stated only where they change; rests run together; positions are bytes; instruments sorted into classes | each fetch is the editor's next row; decodes to the editor's rows |
| table executors and pitch (`waveexec`, `wavedone`, `pulseexec`, machine `filter`, `vibrato`, `porta`, `freqadd`, `freqsub`) | pointers, delay and modulation counters, `freqlo`, `freqhi`, `vibtime`, `lastnote` | one table row a call | instruments, pattern commands | jumps, delays, command rows; sixteen bits in two bytes, carry by hand | each call does what the typed rows say; portamento reaches its note |
| `Player`, `iter_frames` (`player.py`, `reglog.py`, `audio.py`) | loop marks read, muted voices, routes | play call, mute, frames until loop | runs the spec on the image | loop marks are read a row early | ends when every channel has looped |
| song image (`songimage.py`) | none (pure) | layout, tempo default, classes, initial variables | feeds `Player` | units of stored values | what is stored is read in the same unit |
| song model and files (`model.py`, `reader.py`, `writer.py`) | reading cursor | read, validate, write | all | three or six channels told from the bytes; a file cut short | round trip, or an error; limits enforced |
| typed songs and text (`typed.py`, `text.py`) | none | to and from bytes and text | packing, canonical form | values that fit in one context only | lossless |
| packed decoder (`packed.py`, `sid.py`, `rebuild.py`) | the tune's bytes | locate, decode, pack, write a song into a tune | song image | written piece by piece; reach of a cursor | `decode` inverts `pack`; a song is written whole or not at all |
| canonical form (`canonical.py`) | nodes reached, classes, numbers | reach, merge, number, lay out | typed songs | three tables that point into each other; layouts that join programs | one text for what plays the same, and the text plays it |
| converter (`convert.py`, `ninja.py`) | memo tables, carried channel state | durations, programs, commands, file | replay | durations inherit; chunks of 3 to 66; commands left out | frames and commands are kept, or an error |
| legacy import (`legacy.py`) | the tables being filled | parameter to table row, arpeggio to instrument, pulse to program | song model | tables that fill up | what was given out never changes; the result can be written |
| GoatTracker 1 songs (`gt1sng.py`) | none | detect layout, parse, port, write, relocate | GoatTracker 1 players | three editors, one file identifier; shared wave rows | a file reads as its own editor's; relocated songs play the same |
| GoatTracker 1 players (`gt1.py`, `gt1typed.py`, `_gt1_builds.py`, `specs/gt1_*.play`) | the tune in memory, which the playroutine changes | pack, find the playroutine, decompile | relocator | playroutines that differ in operands alone; self-modified code | the playroutine packed behind is the one found, the song the one packed |
| playroutine matching, binding (`gt2match.py`, `gt2sources.py`, `gt2spec.py`, `variant.py`) | none | match, bind | `Player`, decoder | | static analysis of machine code |
| probing (`probe.py`, `observe.py`) | an emulated machine | run, observe | decoder | | runs 6502 code outside the repository |
| command line (`cli.py`, `formats.py`) | none | dispatch | all | | |

Nothing runs in parallel and nothing is persisted between runs. The concurrency
is that of a play call: the channels run one after the other on tempos and a
funk pair they share, so what channel 0 sets reaches channel 1 in the same call
and channel 0's own reload only in the next; and the row that is fetched is not
the row that sounds. Failure is that of files: cut short, or of a kind that must
be guessed.

## Modules

Abstract specifications, each implemented by the one beside it:

| abstract | what it promises | implemented by |
| --- | --- | --- |
| `OrderWalk` | the patterns an orderlist plays: `_TempoWalk._sequence` on the editor's form | `Sequencer`: `sequencer` on `orderlist_bytes` |
| `TempoWalk` | when rows play: `_TempoWalk.run`, `_row_commands` | `RowClock`: `step`, `initchn`, `tick0`, `nonewpatt`, `tick0cmd`, `settempo`, `done` |
| `EditorRows` | which row a fetch is: the editor's rows, one a fetch | `PatternStream`: `getnewnote`, `rest` on the image's bytes |
| `TypedTick` | what a call does to a voice: typed rows, whole-number pitch | `VoiceTick`: the executors, eight bits at a time, on `songimage._data`'s bytes |

The other modules:

| module | models | code |
| --- | --- | --- |
| `Orderlist` | entry bytes, editor's and packed form, `Sequence` and `Walk` as operators | `model.entry_from_byte`, `packed.orderlist_bytes`, `_TempoWalk._sequence` |
| `Song` | rows, tempos and speeds both clocks read, in the units each stores them | `pattern_bytes`, `_tempo`, `songimage._data` |
| `PatternCodec` | editor, typed and packed rows and the way between them | `typed.rows_of`, `packed_rows`, `raw_rows`, `packed.pattern_bytes`, `pattern_rows` |
| `TableRows` | pattern commands and table rows as operations, and their bytes | `typed.py`, `packed._wave_packed`, `_wave_editor`, `_filter_packed` |
| `TablePrograms` | converted wave, pulse and filter programs | `convert._Converter._walk_table`, `_store_program`, `_wave_program`, `_pulse_program`, `_filter_program` |
| `Conversion` | a converted channel: rows, durations, commands, orderlist, loop | `convert._Converter.convert_subtune`, `_convert_instance`, `_row_command` |
| `NinjaFile` | validation, song memory, run-length file, and reading it back | `ninja.py` |
| `PackedTune` | packing, decoding and rewriting a tune's song data at its layout | `packed.py`, `rebuild.song_into_sid` |
| `SongFile` | a .SNG file: limits, writer, reader by sections; the file may be damaged between | `writer.py`, `reader.py` |
| `LegacyImport` | both old formats, an instrument or a row a step | `legacy.py` |
| `SongFiles` | import, write, read composed | `reader.read_sng` |
| `EditorSong1` | GoatTracker 1 songs of three editors: write, detect, read, port | `gt1sng.parse_gts1`, `_detect_layout`, `_parse_v093`, `v093_to_v125`, `write_gts1` |
| `Relocator1` | relocation, and the playroutines' reading of it | `gt1sng.relocate`, `specs/gt1_11.play`, `specs/gt1_15.play` |
| `PackedImage1` | the packed tune, the playroutine found, the song decompiled, typed and stored; with the two above, a song's life | `gt1.py`, `gt1typed.py`, `gt1streams.py` |
| `Builds1` | the facts of the twenty registered playroutines | `_gt1_builds.py` |
| `CanonicalSong` | the canonical song, songs packed otherwise, and what a song plays | `canonical.py` |
| `OrderlistProofs` | lemmas on both walks of an orderlist: where they stand, what they read, that they play the same | |
| `SequencerProofs`, `TempoWalkProofs`, `RowClockProofs` | theorems about the module each is named after | |
| `TableProgramsProofs` | theorems about `TablePrograms`: programs apart; programs heard | |
| `SongFilesProofs` | theorems about `SongFiles`: speeds kept; the imported song writable; what is written is read | |
| `PatternStreamProofs` | theorems about `PatternStream`: the packed bytes are the editor's rows | |
| `RecursionProofs` | lemmas they share: least elements, functions built step by step, sequences laid end to end | |

The `MC` modules are TLC instances, with the bounded sets their runs are made of;
`MCSongs` has the songs of both clocks. Operators marked "(mutant)" stand before the
definition they would replace and state a plausible error of the code; each
property has one that breaks it.

### How state and actions correspond to the code

`Sequencer!PatternEnds` is one call of `sequencer`, every branch of it. An
orderlist is a function on `0 .. size-1`, so that positions are the code's.
`loops` counts the loop marks read, as `Player.loops` does.

`RowClock` has one action per way a channel's step begins: `Tick0` (the counter
reaches zero), `Reload` (it falls below zero, bit 7) and `Count`; `StartCall` is
the play call that runs `initchn` on every channel. An action is the whole of a
channel's part of the call: `Tick0` runs the sequencer if the last row ended its
pattern, latches the gate timer, takes the waiting note, runs the command and,
unless the note's init was the last stage (`InitEnds`), goes on to `done` and its
fetch. `tempos` and `funk` are read and written in the order the schedule gives.
`mode` is the build's gate timer: latched at tick 0, read live from the
instrument (V2.35), or fixed (FIXEDPARAMS). `TempoWalk` has one action per branch
of the loop body of `run`, and the two refusals `SongStops` and `TooFast`.

`PatternStream` keeps the cursor, the rest count and the channel's command and
instrument as the playroutine has them; a step is one fetch. `EditorRows` takes
the same step on the editor's rows.

`VoiceTick!NoteCall`, `LineCall` and `Call` are a play call on which a note
starts, on which a row's command runs, and between rows; each runs the filter step, the note's
start or the row's command, and the executors in the playroutine's order, with
the early returns between them, on bytes with their carries. `TypedTick` has the
same three actions on operations and whole numbers. The row and its command
arrive as pattern lines: when they arrive is `RowClock`.

`TablePrograms` and `Conversion` step a row at a time through `_walk_table` and
the converter's loops; a refusal in strict mode is a state, a feature left out is
noted in `dropped`. `NinjaFile` writes a code a step.

`PackedTune` begins a `song_into_sid` (`Begin`), checks and writes it a piece at a
time (`Write`) and gives the new tune or the error (`Return`); songs are written
over each other in any order.

`LegacyImport` converts an instrument or a pattern row a step, on tables that
fill up. `SongFile`'s reader takes a section a step from the bytes left; a
section that does not fit ends in the reader's error. Between writing and
reading a file may lose its end or gain bytes.

A `PackedImage1` tune is code, tables and the bytes a playroutine changes while
it runs: `PlayTune` changes any of them, `CutTune` ends the file in the last
pattern. `FindTune` tries every registered playroutine in order.

`CanonicalSong` goes through `canonical_song` in the stages the code has: nodes
reached (`Reach`, or `Refuse`), rows merged (`Merge`), patterns and instruments
kept and numbered (`Keep`), classes put in order (`Order`), and the text
(`PrintText`) — which is a song again, so it can be loaded (`LoadText`).
`Rearrange` is not code: it makes a song another packer could have made from the
same music (a row nothing runs, a table's copy that one instrument runs, other
numbers). `HeardSong` is what a song plays, read from its bytes; it is written
apart from the module's reading of tables, for `TextPlays` compares with it.

### Refinements

`Sequencer` implements `OrderWalk` under `AsWalk`: positions are equal, because
swapping a pair moves no other entry and a sequencer that still repeats rests on
the position where the editor's list has the repeated pattern; the walk's
counter, counting down, is what the trailing repeat still owes.

`RowClock` implements `TempoWalk` under the mapping at the end of `RowClock`. A
row of the replay is a row that *sounds*: the mapping reads `heard`, not the
sequencer's own state, which is a row ahead. The first row differs by the start
(a start call, an empty tick 0 and a reload against six counted frames): the
replay stands still until these are over and then begins its first row when the
player does. From there counters are equal call for call.

`PatternStream` implements `EditorRows`: the cursor maps to a row number, the
instrument through the image's sort back to the song's number.

`VoiceTick` implements `TypedTick`: pointers are equal, two-byte values map to
whole numbers, a delay counter that counts up and a modulation that counts down
map to what is left of them, the vibrato's byte (parity the direction) to its
phase.

## Runs

| run | shows | bounds |
| --- | --- | --- |
| `sequencer` | the packed sequencer implements the walk, plays the editor's entries, counts repeats exactly, keeps the right transpose, comes round | every well-formed list of up to four entries over two patterns, Repeat(1), Repeat(3), one transpose up and one down, each restart |
| `row_clock` | every row fetched once and in time; rows, patterns and reloads as in the replay; all channels loop | two channels, the three gate-timer builds; songs of three rows from six, two orderlist tuples with repeats, a transpose and restarts |
| `tempo_walk` | a replay always ends; no row below three frames | two channels, two loops, funk pairs of 4, 3 and 4, 2; orderlists that restart past their end |
| `pattern_stream` | a fetch is the editor's next row with its command, instrument and hard restart; the bytes decode back; every pattern ends | every pattern of few rows that takes each branch, after and before another; a cursor of ten bytes, rest runs of two |
| `table_programs` | converted programs play their walk of the table, loops and shared rows included; programs do not run into each other; every walk ends | tables of up to three rows from a few of each kind with jumps anywhere, one or two programs, seven rows of target table |
| `conversion` | every note at its frame, with its own command on the first pass; the loop lasts as the second pass did; every conversion ends | two patterns of two rows and one, five orderlists, rows of 3, 4, 5 and, held, 64 and 67 frames, strict and not; three commands and patterns at most |
| `ninja_file` | a song is refused, or reads back from its file byte by byte | slots a few bytes wide, songs at and past each limit, runs at the code's limit of four |
| `voice_tick` | each call is the typed rows' call; a tone portamento reaches its note | a song for the programs and songs for pitch, plain builds and builds that skip work on a row's call; four pitches over the sixteen bits; rows of two calls and more |
| `packed_tune` | a tune decodes and packs to its own bytes; a song of its shape is the one read after it is written, or nothing is written | layouts with and without each column, instruments of each class, a cursor of twelve bytes with orderlists up to its end and past it |
| `song_files` | files read back or are refused; speeds, waveforms and pulse programs survive the import; an imported song can be written | tables of 24 rows and six instruments that fill up; names of two letters; three and six channels |
| `gt1` | files of three editors read back as written; relocated patterns and wave programs play; the playroutine found among all registered and five small ones is the one packed behind, the song the one packed | patterns of up to two rows and a long rest, two instruments, wave programs that share rows |
| `canonical` | a song, its text, and the song of the text play the same; one text however the song was packed | two or three instruments, two patterns, tables of up to twelve rows, one rearrangement before or after loading |

Why these bounds are enough. Four orderlist entries hold two pairs, or a pair
with a transpose before and an entry after, so every adjacency of two decisions
occurs, on the first pass and on a restarted one. Two channels give each order
of set-then-reload and reload-then-set within a call, and channels of different
cycle lengths run against each other through all their phases; the reload of the
shortest rows equals the longest gate timer, the boundary at which a fetch is
still made. Reach, slot and table sizes are constants scaled down so that each
is met, with one song at it and one past it; the code's values are named where
the constant is declared. Table programs need a row before a jump, the jump and
what it leads to, twice, for two programs to share rows or be entered in the
middle. In `canonical`, `TableSize` scales the 256 rows an executor's pointer
tells apart; a copy of a table beside the table is the largest rearrangement
and must fit.

A run whose system stops (a conversion, a file, a canonical text after its
rearrangements) has deadlock checking off. Each module's `TypeOK` holds in its
run too; it is listed only where a theorem states it.

What the next section tells, TLC finds too, with `-continue`: `MCSequencerDocumented`
is a `.cfg` of `MCSequencer`; the others are a module's own `.cfg` with another set
of inputs in it, which the `MC` module defines (as `Songs <- LongSongs` of
`MCPatternStream`, with `Reach = 10`).

### What disagrees

Documented statements that do not hold of the code:

1. `Repeat(0)` plays its pattern 257 times in the packed player, not once
   (`src/pygoattracker/model.py:33`; `MCSequencerDocumented`).
2. A restart at the pattern of a `Repeat` names, once packed, the repeat
   (`docs/grammar.md:175`; `MCSequencerDocumented`).
3. `FunkTempo(0)` loads a zero pair and stops the channels rather than keeping
   the pair (`docs/grammar.md:157`; `MCRowClock` with `FunkSongs` and the build
   `"timer"` alone, `FunkZeroKeeps` under `Spec`).
4. Tempo 0 or 1 before any funktempo plays rows of 8 and 5 frames; the converter
   replays 9 and 6 (`src/pygoattracker/convert.py:76`; the same,
   `FirstPairAsReplayed`).
5. A pattern whose packed form exceeds 256 bytes loses its last rows, unreported
   (`README.md:23`; `MCPatternStream` with `LongSongs`, `DecodesBack`).
6. A filter table that loops to a cutoff row after a second passband converts to
   the first band (`docs/format.md:258`; `MCTablePrograms` with `BandSources`,
   `ProgramsPlaySame`).
7. Commands 5, 6, 9 and A on a note's row displace the instrument's own command
   in the converted song (`src/pygoattracker/convert.py:25`; `MCConversion` with
   `LossySongs`, `NoNoteDisplaced`).
8. Notes at the restart sound with the command the song ended on
   (`src/pygoattracker/convert.py:25`; the same, `LoopOwnCommand`).
9. `song_into_sid` accepts songs of another shape than the tune's and writes
   something else (`src/pygoattracker/rebuild.py:17`; `AcceptedWritten` of
   `PackedTune`, where `Shaped` is what the run asks for).
10. A GoatTracker 1 tempo command of 0 makes `relocate` end in a `ValueError`
    (`docs/gt1.md:162`).
11. `relocate` packs a restart byte behind players 0.96, 1.01 and 1.1, which read
    none (`docs/gt1.md:162`); `PackTune` packs for these without it, as the tunes
    found in the wild have it.
12. The layout of a `GTS!` file is not decided by its first wavetable alone
    (`docs/gt1.md:156`).
13. A wave pointer onto a jump row keeps the tune's own row number in the
    canonical text (`docs/grammar.md:212`).
14. An old instrument that names a filter step without rows, with none behind it,
    imports with a pointer past the filter table's end, which the writer refuses
    (`src/pygoattracker/legacy.py:18`; `ImportedWritable`, see `WithinLimits`).
15. A song of three channels whose instruments look like orderlists is read as one
    of six, and its file refused (`src/pygoattracker/writer.py:4`; `ReadsBack`).
16. A filter row that opens all bands with mask 15 converts to a left byte of
    `$FF`, which NinjaTracker reads as a jump (`src/pygoattracker/convert.py:25`;
    `MCTablePrograms` with `OpenSources`, `ProgramsApart`). The proofs
    about table programs assume no such row.
17. A filter setting with no cutoff row behind it converts to one that sets cutoff
    0, where the playroutine leaves the cutoff alone (`docs/format.md:258`;
    `MCTablePrograms` with `PartSources`, `StrictPlaysSame`).
18. A filter program that begins with a cutoff row converts to one that sets the
    low pass on all voices, where the playroutine leaves the band alone
    (`docs/format.md:258`; the same, with `CutoffSources`).

The passing runs leave these cases out: `WellFormed` has no Repeat(0) and no
restart inside a pair, `FittingSongs` no pattern past the reach, and so on; each
`MC` module and `ASSUME` says which. Filter programs of finding 17 are
converted in `table_programs` too; `SetsWhole` leaves them out of what is compared.

Also met, where nothing is promised: two instruments of different gate timers
in a live build fetch a row early; vibratos of depths 126 and 127 never turn;
a tone portamento across half the frequency range or more snaps to its note
at once; speeds from 128 double to clamped ones; the pulse loop of an old
instrument whose first width is above its upper limit drifts; an old pattern of
an end row only imports as an empty pattern, which the writer refuses; waveforms
`$D0`-`$DF` (`docs/grammar.md:111`) pack to bytes that builds with wave commands
read as commands.

## Fairness

`Sequencer` and `RowClock` assume weak fairness of their next step: a player is
called again for as long as its caller wants sound, `Player.playing` is always
true, and each call runs every channel. `PatternStream` is fetched from for the
same reason; `VoiceTick` assumes weak fairness of `Call`, the call between rows:
a row may last, and a portamento that is given time must arrive. `OrderWalk`,
`TempoWalk`, `TablePrograms` and `Conversion` assume weak fairness of the next
step because the functions are loops with no other exit. No fairness between
actions is assumed.

## Proofs

Eight modules hold proofs. Each states its assumptions on the constants as named
definitions (`OrdersWellFormed`, `SongsPlayable`, `SongFits`, ...) that a theorem takes as
hypotheses; TLC finds them true of the constants of the run, and found every
inductive invariant it can evaluate an invariant of the run, before anything was
proved of it (those that place bytes by their offsets it cannot).

**Orderlists** (`OrderlistProofs`, `SequencerProofs`). For every set of orderlists
that are `WellFormed` and every `LoopCap` from 1:

* `IInvHolds`, `TypeCorrect` (`TypeOK`): the inductive invariant and the types;
* `EditorEntryPlays` (`PlaysEditorEntry`), `RepeatPlaysExactly` (`RepeatExact`);
* `NearestTransposeInForce` (`TransposeInForce`);
* `WalkImplemented` (`ImplementsWalk`).

`TypeOK` is not inductive: that a pattern number is below the command bytes and
that the position stays inside the list depend on where the position rests.
`IInv` adds it: the position is the end mark, or a trailing repeat with a counter
below its count and `plays` one more than the counter, or an entry that is no
repeat with the counter at zero; and the transpose is the nearest one's. The
lemmas first say what a packed list has at a position (`PackedAt`,
`PackedRepeat`, `PackedTranspose`, `PackedPattern`), then what a call reads there
(`AtRepeat`, `AtPattern`), then what it leaves (`RepeatCall`, `PatternCall`); the
refinement adds the walk's reading of the same position (`WalkOwed`, `WalkFree`)
and compares. `WellFormed` is the grammar's `Transpose? Repeat? PlayPattern`, with
the two exceptions of the findings: no Repeat(0), no restart inside a pair.

**Row timing** (`RowClockProofs`, over the same lemmas). For every number of
channels, every build and every song that is `Playable`: well-formed orderlists
of patterns that are there, patterns of 1 to 128 rows, gate timers of 1 to 63,
and no reload below a gate timer, those of the funk pair that a tempo of 0 or 1
recalls included (a reload below one fetches a row early, which "Also met" tells).

* `IInvHolds`, `TypeCorrect`;
* `FetchesOnce` (`FetchedOnce`), `RowsAreReady` (`RowReady`);
* `ReplayImplemented` (`ImplementsReplay`): with `SingleSpeed`, the start tempo
  of one call per frame, every behaviour that is always `Paced` is one of
  `TempoWalk`. `Paced` keeps the two differences of finding 4 away: no counter is
  reloaded from the player's own pair, and none with less than 2.
* `SongsReplayed` (`ImplementsReplay`) says it of the songs alone: no row names a
  tempo of 0 or 1 (`PairUnnamed`), and some gate timer is 2 or more.

Neither property is inductive. Which row a channel holds depends on its counter:
below the gate timer in force the next row is fetched (`Fetched`), above it not
yet (`Unread`), and the timer in force is itself the one of the row that plays, or
of the row fetched, by build (`GateOf`). `IInv` is that (`Running`), with tempos
and the pair reaching every gate timer. The refinement's `InStep` says in addition
that until the first rows begin all channels count the same lead-in. The mapping
compares the two clocks call by call; `ReplayTurns` and `Tick0Replayed` are where
one channel's tempo reaches another in the middle of a call.

**The replay** (`TempoWalkProofs`), for every song as it is read: bytes, patterns
of 1 to 128 rows, orderlists of up to 254 entries that the walk accepts, restarts
anywhere.

* `IInvHolds`, `TypeCorrect`;
* `RowsLastEnough` (`RowsLastThree`): a row handed on lasted three frames or more.

The property is about the last frame of a row, while tempos change in its middle;
`IInv` has it for every frame: counted and left make four once a row has begun.

**Table programs** (`TableProgramsProofs`), for every set of tables of bytes and length
of table, and any programs asked of them in any order.

* `ProgramsStayApart` (`ProgramsApart`): each program ends in its one jump, to 0
  or into its own rows. No filter row `Opens` everything (finding 16).
* `ProgramsPlayTheirWalk` (`ProgramsPlaySame`): the program plays what the walk of
  the source table plays, for ever. `BandsSettle` is assumed of filter tables:
  the walk comes to each cutoff row under one band (finding 6 is the other case).
  The property itself speaks of walks that leave neither band nor cutoff to what
  sounded before (`SetsWhole`; findings 17 and 18 are the others).

`IInv` is that the rows being made hold no jump and each position passed stands
for one of them. For the second theorem a program is paired with its table row by
row (`Simulates`): paired rows say the same and their successors are paired, or
both end. `PInv` has the part of that pairing made so far (`Walks`), where the
last row is paired with the position that comes next. `JumpWalks`, `RowWalks` and
`StoreSimulates` extend it; `WalkEnds` closes a loop; `StillSimulates` says that
later programs leave it alone; `SimulationHeard` that paired rows are heard alike
for any number of steps. The pairing is with each step as the converter fills it
(`FilterFilled`); `ToldUnder` says that the playroutine's own reading
(`FilterHeard`) is the same for a step that leaves nothing out. The two readings are defined by recursion; that such
functions exist is shown (`HeardStepsExist`).

**The pattern stream** (`PatternStreamProofs`), for every reach of the cursor up to
256 and length of rest run up to 64, and every song that `SongFits`: up to 63
instruments, patterns of editor rows that are not empty and, packed, fit the reach
(finding 5 is the other case).

* `SongFollowed`: between fetches the cursor is before the editor's next row
  (`Followed`, the inductive invariant);
* `EditorImplemented` (`ImplementsEditor`): a fetch is that row, with its command,
  instrument, note, gate and restart;
* `PatternsDecodeBack` (`DecodesBack`): the decoder reads the packed bytes as the
  rows they were packed from, every one and no more.

What packing and the byte format do to a pattern is stated as relations a proof can
extend by one row: `Layout` says in which packed row each editor row is and how far
into its run, `BytesLaid` where each packed row's bytes begin. Packing keeps the
first (`RunTaken`, `RowAdded`) and writing the second (`RowBytesAdded`). The cursor
is then `Before` a row when it is at the bytes the two relations name, its count
the part of the run already played; `StatedRead` and `RunRead` say what a fetch
reads there, `CursorMoved` that it leaves the cursor before the next row, the wrap
of the byte cursor at the reach included. A row that states no command has the
one of the row before it in its pattern, which is why the first row of a pattern
states its own and the order of patterns does not matter (`Commanded`). The sort of
the instruments keeps the classes the playroutine tells apart by number: a number
is the count of those sorted before it, so it is below a class's bound exactly
where the instrument is of a class before (`NumberTellsClass`, by cardinalities),
and no two instruments share one (`OrderedApart`). For decoding, a row's bytes are
read back as the row (`RowReadBack`), the bytes from each row on as the rows from
it on (`RowsReadBack`, from the last row to the first), and the rows read spread to
the editor's (`RowsSpread`, from the first to the last, a run a row at a time).

**The import** (`SongFilesProofs`), for every set of old songs of bytes and every
length of table: `SpeedsStay` (`SpeedsKept`). An entry given out is safe because
its row is not the zero row, the only one that is overwritten; `IInv` says so, and
that the rows yet to ask have the parameters they were read with (`Ahead`).

`ImportsWritable` (`ImportedWritable`) says that what the import ends with passes
the writer's checks. Its hypothesis `WithinLimits` is about the old songs: fields
are bytes of the ranges their format has, patterns have 1 to 128 rows and do not
begin with their end mark ("Also met"), orderlists name patterns there are, no
instrument names a filter step without rows (finding 14), a GoatTracker 2 song's
own pointers are in its own tables, which the import hands on unchecked, and the
filter table has room for four rows a step (63 steps and 255 rows in the code). The
other tables may be of any length and fill up at any instrument. `TInv` follows the
import through its stages: until the filter table is made instruments name steps
(`StepsNamed`), from then on rows (`FiltersPoint`); a table only grows while
something points into it, so pointers once good stay good; rows name instruments
that the trimming keeps (`EndInstruments`, `EndPatterns`). How long the converted filter table is, and that each step that
makes rows begins inside it, follows from the offsets of the rows laid end to end
(`RecursionProofs`: `Offsets`, `FlattenLaid`).

**The song file** (`SongFilesProofs`), for every length of name and table.
`WrittenIsRead` (`ReadsBack`): a song that is written, an imported one or one of
`OwnSongs`, is the song that is read; a file cut anywhere or grown by a byte is read
as no song; only a damaged file is refused. `Shaped` is assumed of `OwnSongs`, the types
of the song model: bytes, orderlist entries below the end mark, nine parameters an
instrument, four tables, names without a zero byte. `Guessed` is the theorem's other
condition: the reader took the song for the three or six channels it has.
`determine_channels` reads ends, and a song of three channels can be made to look
like six (finding 15), a file of six cut among its orderlists is read as one of three.
That the guess is never wrong of a whole file of six channels is proved
(`SixGuessed`: the walk from end to end comes by every orderlist, `WalkHops`).

The inductive invariant `ReadWell` says, in each section, that the cursor is where the
bytes of the song's next item begin and that what was read is the song up to it
(`InSection`). `Layout` says where each section and item is in the stored bytes, as
offsets of sequences laid end to end; of a damaged file the bytes that are left are
the song's (`Agrees`), so an item is there whole or the file is refused (`HeldOrCut`).
A lemma for each kind of item says what the reader makes of its bytes (`StringRead`,
`OrderRead`, `CountRead`, `InstrumentRead`, `TableRead`, `PatternRead`, `HeaderRead`),
one for each section that the step leads to the next place (`OrderStep`, ...). A file
that grew is refused at the end, where its length tells, and one that was cut cannot
come to the end, for the same reason.

Facts about a least position or count are proved from a well-founded order
(`WFMin`, a least counterexample), because the induction theorems of the library
take an operator.

Only model-checked:

* everything that must happen in the end (`ComesRound`, `AllLoop`, `ReplayEnds`,
  `PatternsEnd`, `WalksEnd`, `Converts`, `PortaArrives`): the prover does no fairness;
* `NinjaFile`'s and `PackedTune`'s round trips, the canonical text, GoatTracker 1's:
  what their recursive readers compute for every input needs what `SongFilesProofs`
  has for songs, layouts of each section's bytes;
* `NotesOnTime`, `LoopsAlike`, `OwnCommand`: the conversion adds folds of rows up
  that a proof would first have to give step by step, as `TableProgramsProofs` does;
* `VibratoLast`: it needs the vibrato's own row to be the last a pointer reaches,
  a count of rows over the whole table;
* `ImplementsTyped`, `WavesKept`, `PulseReturns`: not attempted.

## Not modelled

* Timing: builds without effects, repeats or transposes; the three tempos a
  stereo build of some releases sets (`ntempo`); a tempo set from the wavetable;
  a second song start; the converter's 600000-frame budget and its empty patterns
  of 64 rows for missing ones.
* Sound: SIMPLEPULSE arithmetic, gate and envelope registers, builds without a
  feature. A song's vibratos share one depth in `voice_tick`, its programs begin
  with a waveform row and have no pointer onto a jump row, and pulse modulations
  last a call or more.
* Files: names, copyright lines, the guess between a released and a beta layout.
  The 3 or 6 channel guess is modelled; only songs made to look like the other
  kind fool it, and V1.x stereo files read as three channels are a known failure
  of the test suite.
* GoatTracker 1: playroutines beyond their reading of rows; the emulated init;
  hashes and the search's arithmetic, which stand for equality of the kept bytes;
  0.9x songs with `$FE` orderlists and a first instrument that ends in a jump,
  which no rule tells apart; StripTiming.
* Canonical form: tuning, names, SIMPLEPULSE, the playback lines, the characters
  of the text; `minimise` and `number_chains` are a library's and modelled by what
  `canonical.py` asks of them.
* `player.py` runs the playroutine's specification, which the modules above
  model, in an interpreter of another package; audio is an emulator's.
* Matching, binding and probing (`gt2match.py`, `gt2sources.py`, `gt2spec.py`,
  `probe.py`, `observe.py`) read or run machine code: no state over time that is
  the repository's own.
* The song grammar's parser, the command line and the scripts.

## Plan

1. `Conversion`: `Play` and `Source` as recursive functions, the lemmas on chunks
   and rests, then `NotesOnTime`: the frames and notes of the patterns stored are
   those of the rows read.
2. `VibratoLast`, over the pairing of `TableProgramsProofs`.
3. `SongFiles`: `WavesKept` and `PulseReturns`, as `SpeedsKept`.
4. `NinjaFile` and `PackedTune`, on the lemmas about bytes and offsets that
   `SongFilesProofs` has (`Holds`, `ItemHeld`, `HeldOrCut`).
5. `Conversion`'s channels together, with the three tracks' shared room.
