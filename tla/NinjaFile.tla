----------------------------- MODULE NinjaFile ------------------------------
(***************************************************************************)
(* Saving a NinjaTracker 2 song: the typed song is validated, laid out as  *)
(* the editor's song memory and written through its run-length code, a     *)
(* step a code; and read back. Slot sizes are constants, names are left    *)
(* out.                                                                    *)
(*                                                                         *)
(* A song is [tables, patterns, subtunes, commands, hardrestart, wave]: a  *)
(* table is <<left, right>>, a row [note, cmd, dur], a track [entries,     *)
(* restart], a subtune three tracks or none, a command five bytes.         *)
(***************************************************************************)
EXTENDS Integers, SequencesExt

CONSTANTS
  Songs,        \* the songs saved
  TableBytes,   \* a table side in memory: 256 in the code
  PattBytes,    \* a pattern slot: 192
  TrackBytes,   \* a subtune's tracks: 256
  MaxPatt,      \* 127
  MaxSongs,     \* 16
  MaxCmd,       \* 127
  RunMax        \* the bytes one run stands for at most: 255

ASSUME SizesAssumption ==
  /\ TableBytes \in 2 .. 256 /\ PattBytes \in 1 .. 192 /\ TrackBytes \in 9 .. 256
  /\ MaxPatt \in 1 .. 127 /\ MaxSongs \in 1 .. 16 /\ MaxCmd \in 1 .. 127 /\ RunMax \in 2 .. 255

VARIABLES
  song, block,   \* the song, and its memory once laid out
  pos, out,      \* what of it is written, and the code written
  outcome        \* "laying out", "writing", "saved" or "refused"

vars == <<song, block, pos, out, outcome>>

ESCBYTE == 191
NONE == 0
KEYON == 2
KEYOFF == 4
FIRSTNOTE == 12
LASTNOTE == 95
MIN_DURATION == 3
MAX_DURATION == 66

Bytes(s) == \A k \in DOMAIN s : s[k] \in 0 .. 255
Flat(seqs) == FlattenSeq(seqs)
Pad(s, n) == s \o [k \in 1 .. n - Len(s) |-> 0]

-----------------------------------------------------------------------------
(* Pattern streams.                                                        *)

BareNotes == {NONE, KEYON, KEYOFF}

\* A row's note byte says whether a command follows: bit 0 for a note, bit 1
\* cleared for none; a row of neither has the base byte 1.
NoteByte(r) ==
  IF r.note \in FIRSTNOTE .. LASTNOTE THEN 2 * r.note + (IF r.cmd = 0 THEN 0 ELSE 1)
  ELSE (IF r.note = NONE THEN 1 ELSE 2 * r.note) + (IF r.cmd = 0 THEN 2 ELSE 0)

RowBytes(r) ==
  <<NoteByte(r)>>
    \o (IF r.cmd = 0 THEN <<>> ELSE <<r.cmd>>)
    \o (IF r.dur = 0 THEN <<>> ELSE <<255 - (r.dur - MIN_DURATION)>>)

PatternStream(rows) == Append(Flat([k \in DOMAIN rows |-> RowBytes(rows[k])]), 0)

ValidRow(r) ==
  /\ r.note \in FIRSTNOTE .. LASTNOTE \cup BareNotes
  /\ r.cmd = 0 \/ r.cmd % 128 # 0
  /\ r.dur = 0 \/ r.dur \in MIN_DURATION .. MAX_DURATION

BadRow == [note |-> -1, cmd |-> 0, dur |-> 0]

\* The rows of a stream, a bad one last where it does not parse: a duration is a byte from $C0.
ParsePattern(data) ==
  LET row(p) ==
        LET v     == data[p]
            pitch == v >= 2 * FIRSTNOTE
            cmd   == IF pitch THEN v % 2 = 1 ELSE (v \div 2) % 2 = 0
            q     == IF cmd THEN p + 2 ELSE p + 1
            timed == q \in DOMAIN data /\ data[q] >= 192
        IN [ok  |-> pitch \/ 2 * (v \div 4) \in BareNotes,
            cut |-> cmd /\ p + 1 \notin DOMAIN data,
            row |-> [note |-> IF pitch THEN v \div 2 ELSE 2 * (v \div 4),
                     cmd |-> IF cmd THEN data[p + 1] ELSE 0,
                     dur |-> IF timed THEN 255 - data[q] + MIN_DURATION ELSE 0],
            next |-> IF timed THEN q + 1 ELSE q]
      f[p \in 1 .. Len(data) + 3] ==
        IF p \notin DOMAIN data THEN <<BadRow>>
        ELSE IF data[p] = 0 THEN <<>>
        ELSE IF ~ row(p).ok \/ row(p).cut THEN <<BadRow>>
        ELSE <<row(p).row>> \o f[row(p).next]
  IN f[1]

-----------------------------------------------------------------------------
(* Tracks.                                                                 *)

\* A pattern number, or a transpose of which $FF is none.
EntryByte(e) == IF e[1] = "play" THEN e[2] ELSE 128 + ((e[2] - 1) % 128)

EntryFromByte(v) ==
  IF v < 128 THEN <<"play", v>>
  ELSE LET delta == (v + 1) % 128
       IN <<"transpose", IF delta >= 64 THEN delta - 128 ELSE delta>>

ValidEntry(e) == IF e[1] = "play" THEN e[2] \in 1 .. 127 ELSE e[2] \in -64 .. 63

\* (mutant) The loop position counts from the track's own start.
RestartFromTrack(base, track) == track.restart

\* The loop position is an offset into the subtune's whole block.
RestartByte(base, track) == base + track.restart

TrackData(base, track) ==
  [k \in DOMAIN track.entries |-> EntryByte(track.entries[k])] \o <<0, RestartByte(base, track)>>

\* A subtune's tracks one after the other.
SubtuneData(tracks) ==
  FoldLeft(LAMBDA data, t : data \o TrackData(Len(data), t), <<>>, tracks)

TrackLengths(tracks) ==
  IF tracks = <<>> THEN <<0, 0, 0>> ELSE [k \in 1 .. 3 |-> Len(tracks[k].entries) + 2]

\* A track read at its offset; restart -1 where it has no proper end.
ParseTrack(data, base) ==
  LET n == Len(data) - 2 IN
  IF n < 1 \/ data[n + 1] # 0 \/ (\E k \in 1 .. n : data[k] = 0) \/ data[n + 2] - base \notin 0 .. n - 1
  THEN [entries |-> <<>>, restart |-> -1]
  ELSE [entries |-> [k \in 1 .. n |-> EntryFromByte(data[k])], restart |-> data[n + 2] - base]

-----------------------------------------------------------------------------
(* The song memory.                                                        *)

ValidTable(t) ==
  Len(t[1]) = Len(t[2]) /\ Len(t[1]) <= TableBytes - 1 /\ Bytes(t[1]) /\ Bytes(t[2])

TracksFit(tracks) ==
  FoldLeft(LAMBDA n, t : n + Len(t.entries) + 2, 0, tracks) <= TrackBytes

ValidSubtune(s, tracks) ==
  /\ Len(tracks) \in {0, 3}
  /\ \A t \in Range(tracks) :
       /\ t.entries # <<>> /\ t.restart \in 0 .. Len(t.entries) - 1
       /\ \A e \in Range(t.entries) :
            ValidEntry(e) /\ (e[1] = "play" => e[2] <= Len(s.patterns))
  /\ TracksFit(tracks)

ValidPattern(s, rows) ==
  /\ \A r \in Range(rows) : ValidRow(r) /\ (r.cmd = 0 \/ r.cmd % 128 <= Len(s.commands))
  /\ Len(PatternStream(rows)) <= PattBytes

ValidCommand(s, c) ==
  Bytes(SubSeq(c, 1, 2)) /\ \A k \in 1 .. 3 : c[k + 2] \in 0 .. Len(s.tables[k][1])

Valid(s) ==
  /\ Len(s.subtunes) \in 1 .. MaxSongs /\ Len(s.patterns) \in 1 .. MaxPatt
  /\ Len(s.commands) <= MaxCmd
  /\ \A t \in Range(s.subtunes) : ValidSubtune(s, t)
  /\ \A p \in Range(s.patterns) : ValidPattern(s, p)
  /\ \A c \in Range(s.commands) : ValidCommand(s, c)
  /\ \A k \in 1 .. 3 : ValidTable(s.tables[k])
  /\ s.hardrestart \in 0 .. 255 /\ s.wave \in 0 .. 255

SubtuneAt(s, n) == IF n \in DOMAIN s.subtunes THEN s.subtunes[n] ELSE <<>>

Tables(s) ==
  Flat([k \in 1 .. 6 |-> Pad(s.tables[(k + 1) \div 2][IF k % 2 = 1 THEN 1 ELSE 2], TableBytes)])

Memory(s) ==
  Tables(s)
    \o Flat([n \in 1 .. MaxPatt |->
               Pad(IF n \in DOMAIN s.patterns THEN PatternStream(s.patterns[n]) ELSE <<0>>, PattBytes)])
    \o Flat([n \in 1 .. MaxSongs |-> Pad(SubtuneData(SubtuneAt(s, n)), TrackBytes)])
    \o Flat([f \in 1 .. 5 |-> Pad([n \in DOMAIN s.commands |-> s.commands[n][f]], MaxCmd)])
    \o Flat([n \in 1 .. MaxSongs |-> TrackLengths(SubtuneAt(s, n))])
    \o [k \in 1 .. 3 |-> Len(s.tables[k][1])]
    \o <<Len(s.commands), s.hardrestart, s.wave>>

PattStart == 6 * TableBytes
TrackStart == PattStart + MaxPatt * PattBytes
CmdStart == TrackStart + MaxSongs * TrackBytes
LengthStart == CmdStart + 5 * MaxCmd
TableLengthStart == LengthStart + 3 * MaxSongs
BlockSize == TableLengthStart + 6

\* n bytes of memory from an offset.
Slice(b, from, n) == SubSeq(b, from + 1, from + n)

ParseSubtune(b, n) ==
  LET lengths == Slice(b, LengthStart + 3 * (n - 1), 3)
      base(k) == IF k = 1 THEN 0 ELSE IF k = 2 THEN lengths[1] ELSE lengths[1] + lengths[2]
  IN IF lengths = <<0, 0, 0>> THEN <<>>
     ELSE [k \in 1 .. 3 |->
             ParseTrack(Slice(b, TrackStart + TrackBytes * (n - 1) + base(k), lengths[k]), base(k))]

\* The patterns named by the tracks; 1 at least.
HighestRef(subtunes) ==
  LET named == {1} \cup UNION {{e[2] : e \in {x \in Range(t.entries) : x[1] = "play"}} :
                                 t \in UNION {Range(s) : s \in Range(subtunes)}}
  IN CHOOSE n \in named : \A m \in named : m <= n

\* Empty patterns after the last one named are dropped.
Trimmed(patterns, subtunes) ==
  LET kept == {n \in DOMAIN patterns :
                 n <= HighestRef(subtunes) \/ \E m \in n .. Len(patterns) : patterns[m] # <<>>}
  IN SubSeq(patterns, 1, CHOOSE n \in kept : \A m \in kept : m <= n)

\* Empty subtunes at the end are dropped, but for the first.
TrimmedSubtunes(subtunes) ==
  LET kept == {n \in DOMAIN subtunes : n = 1 \/ \E m \in n .. Len(subtunes) : subtunes[m] # <<>>}
  IN SubSeq(subtunes, 1, CHOOSE n \in kept : \A m \in kept : m <= n)

ParseMemory(b) ==
  LET tableLengths == Slice(b, TableLengthStart, 3)
      side(k) == Slice(b, TableBytes * (k - 1), tableLengths[(k + 1) \div 2])
      subtunes == TrimmedSubtunes([n \in 1 .. MaxSongs |-> ParseSubtune(b, n)])
      commands == b[TableLengthStart + 4]
  IN [tables |-> [k \in 1 .. 3 |-> <<side(2 * k - 1), side(2 * k)>>],
      patterns |-> Trimmed([n \in 1 .. MaxPatt |->
                              ParsePattern(Slice(b, PattStart + PattBytes * (n - 1), PattBytes))], subtunes),
      subtunes |-> subtunes,
      commands |-> [n \in 1 .. commands |-> [f \in 1 .. 5 |-> b[CmdStart + MaxCmd * (f - 1) + n]]],
      hardrestart |-> b[BlockSize - 1], wave |-> b[BlockSize]]

-----------------------------------------------------------------------------
(* The run-length code.                                                    *)

Malformed == -1

RleDecode(s) ==
  LET f[p \in 1 .. Len(s) + 1] ==
        IF p > Len(s) THEN <<>>
        ELSE IF s[p] # ESCBYTE THEN <<s[p]>> \o f[p + 1]
        ELSE IF p + 2 > Len(s) THEN <<Malformed>>
        ELSE [k \in 1 .. s[p + 2] |-> s[p + 1]] \o f[p + 3]
  IN f[1]

Same(n) == pos + n <= Len(block) /\ block[pos + n] = block[pos + 1]

\* The bytes the next code stands for, where they are alike.
RunLength ==
  CHOOSE n \in 1 .. RunMax : (\A k \in 1 .. n : Same(k)) /\ (n = RunMax \/ ~ Same(n + 1))

\* (mutant) Only runs are escaped: a lone escape byte is written as it is.
EscapesRuns == FALSE

\* A lone escape byte is written as a run of one.
Escapes == block[pos + 1] = ESCBYTE

WriteRun ==
  /\ Same(2)
  /\ out' = out \o <<ESCBYTE, block[pos + 1], RunLength>>
  /\ pos' = pos + RunLength

WriteByte ==
  /\ ~ Same(2)
  /\ out' = out \o (IF Escapes THEN <<ESCBYTE, ESCBYTE, 1>> ELSE <<block[pos + 1]>>)
  /\ pos' = pos + 1

Write ==
  /\ outcome = "writing" /\ pos < Len(block)
  /\ WriteRun \/ WriteByte
  /\ UNCHANGED <<song, block, outcome>>

LayOut ==
  /\ outcome = "laying out"
  /\ IF Valid(song) THEN block' = Memory(song) /\ outcome' = "writing"
     ELSE outcome' = "refused" /\ UNCHANGED block
  /\ UNCHANGED <<song, pos, out>>

Close ==
  /\ outcome = "writing" /\ pos = Len(block)
  /\ outcome' = "saved"
  /\ UNCHANGED <<song, block, pos, out>>

Init ==
  /\ song \in Songs
  /\ block = <<>> /\ pos = 0 /\ out = <<>> /\ outcome = "laying out"

Next == LayOut \/ Write \/ Close

Spec == Init /\ [][Next]_vars

-----------------------------------------------------------------------------
(* Properties.                                                             *)

\* The memory is of the size the reader asks for, bytes all: no validated song
\* outgrows one of its slots.
TypeOK ==
  /\ outcome \in {"laying out", "writing", "saved", "refused"}
  /\ pos \in 0 .. Len(block)
  /\ outcome \in {"writing", "saved"} => Len(block) = BlockSize /\ Bytes(block) /\ Bytes(out)

\* What is written decodes, at every moment, to the memory written so far: runs
\* of the escape byte, lone escape bytes and runs longer than a count holds.
PrefixDecodes == RleDecode(out) = SubSeq(block, 1, pos)

\* A saved song is read back as it is: every pattern, track, restart, command
\* and table, but for empty patterns and subtunes past the last in use.
ReadsBack ==
  outcome = "saved" =>
    ParseMemory(RleDecode(out)) =
      [song EXCEPT !.patterns = Trimmed(@, song.subtunes), !.subtunes = TrimmedSubtunes(@)]

=============================================================================
