------------------------------ MODULE SongFile ------------------------------
(***************************************************************************)
(* A GoatTracker 2 song, its limits and its .SNG bytes (writer.py), and    *)
(* the reader that takes them section by section (reader.py). Between the  *)
(* two the file may lose its end or gain bytes.                            *)
(*                                                                         *)
(* A song is [name, subtunes, instruments, tables, patterns]: a subtune a  *)
(* sequence of orderlists [entries, restart], an instrument its nine       *)
(* parameters and its name, a table of <<left, right>> rows, a pattern of  *)
(* <<note, instrument, command, data>> rows. The author and the copyright  *)
(* go the way of the name.                                                 *)
(***************************************************************************)
EXTENDS Integers, SequencesExt

CONSTANTS
  NameLen,    \* bytes of a stored string: 32, 16 for an instrument's, in the code
  TableMax    \* rows of a table: 255 in the code

ASSUME NameLenAssumption == NameLen \in 1 .. 32
ASSUME TableMaxAssumption == TableMax \in 1 .. 255

VARIABLES
  kept,     \* the song last written
  file,     \* its bytes, as they reach the reader
  whole,    \* no byte was lost or added
  section,  \* what the reader reads next: "none" before, "read" or "refused" after
  pos,      \* its cursor
  parsed    \* the song read so far, and the items a section still has

fileVars == <<kept, file, whole, section, pos, parsed>>

Byte == 0 .. 255
MAX_SONGS == 32
MAX_PATT == 208
MAX_INSTR == 64
MAX_SONGLEN == 254
MAX_PATTROWS == 128
LOOPSONG == 255
ENDPATT == 255
FIRSTNOTE == 96
KEYON == 191
CMD_SETTEMPO == 15

Empty == [name |-> <<>>, subtunes |-> <<>>, instruments |-> <<>>, tables |-> <<>>, patterns |-> <<>>]

-----------------------------------------------------------------------------
(* The writer.                                                             *)

\* An instrument's pointers: wave, pulse, filter and, for vibrato, speed.
PointersFit(ins, tables) ==
  \A t \in 1 .. 4 : ins.params[t + 2] <= Len(tables[t])

\* A stored string ends in at least one zero.
StringFits(s) == Len(s) < NameLen

RowValid(row, song) ==
  /\ row[1] \in FIRSTNOTE .. KEYON
  /\ row[2] < MAX_INSTR /\ row[2] <= Len(song.instruments)
  /\ row[3] \in 0 .. CMD_SETTEMPO /\ row[4] \in Byte

OrderValid(o, song) ==
  /\ Len(o.entries) \in 1 .. MAX_SONGLEN
  /\ o.restart < Len(o.entries)
  /\ \A k \in DOMAIN o.entries :
       o.entries[k] < MAX_PATT => o.entries[k] < Len(song.patterns)

\* validate_song.
Valid(song) ==
  /\ Len(song.subtunes) \in 1 .. MAX_SONGS
  /\ Len(song.patterns) \in 1 .. MAX_PATT
  /\ Len(song.instruments) < MAX_INSTR
  /\ Len(song.subtunes[1]) \in {3, 6}
  /\ \A s \in Range(song.subtunes) :
       Len(s) = Len(song.subtunes[1]) /\ \A o \in Range(s) : OrderValid(o, song)
  /\ \A ins \in Range(song.instruments) :
       PointersFit(ins, song.tables) /\ StringFits(ins.name) /\ Range(ins.params) \subseteq Byte
  /\ \A t \in Range(song.tables) :
       Len(t) <= TableMax /\ \A r \in Range(t) : Range(r) \subseteq Byte
  /\ \A p \in Range(song.patterns) :
       Len(p) \in 1 .. MAX_PATTROWS /\ \A r \in Range(p) : RowValid(r, song)
  /\ StringFits(song.name)

Padded(s) == s \o [k \in 1 .. NameLen - Len(s) |-> 0]
Each(items, Bytes(_)) == FlattenSeq([k \in DOMAIN items |-> Bytes(items[k])])
Counted(items, Bytes(_)) == <<Len(items)>> \o Each(items, Bytes)

OrderStored(o) == <<Len(o.entries) + 1>> \o o.entries \o <<LOOPSONG, o.restart>>
InstrumentStored(ins) == ins.params \o Padded(ins.name)
TableStored(t) == <<Len(t)>> \o [k \in DOMAIN t |-> t[k][1]] \o [k \in DOMAIN t |-> t[k][2]]
PatternStored(p) == <<Len(p) + 1>> \o FlattenSeq(p) \o <<ENDPATT, 0, 0, 0>>

\* build_sng, after its magic.
Stored(song) ==
  Padded(song.name) \o Counted(song.subtunes, LAMBDA s : Each(s, OrderStored))
  \o Counted(song.instruments, InstrumentStored) \o Each(song.tables, TableStored)
  \o Counted(song.patterns, PatternStored)

-----------------------------------------------------------------------------
(* The reader.                                                             *)

\* The stored string at p, up to its first zero.
StringAt(p) ==
  LET zeros == {k \in 0 .. NameLen - 1 : file[p + k] = 0}
  IN SubSeq(file, p, p - 1 + IF zeros = {} THEN NameLen ELSE Min(zeros))

\* Past the orderlist at p, or 0 where no complete one ends with its mark and a restart
\* in range.
OrderEnd(p) ==
  IF p \notin 1 .. Len(file) THEN 0
  ELSE LET n == file[p]
       IN IF n >= 1 /\ p + n + 1 <= Len(file) /\ file[p + n] = LOOPSONG /\ file[p + n + 1] <= n
          THEN p + n + 2 ELSE 0

\* Six orderlists a subtune only where every one of six would end well.
Channels(p, subtunes) ==
  LET at[k \in 0 .. 6 * subtunes] == IF k = 0 THEN p ELSE OrderEnd(at[k - 1])
  IN IF at[6 * subtunes] = 0 THEN 3 ELSE 6

\* The reader goes on at next in the section after, with part read; or it stops.
Go(next, after, part) == pos' = next /\ section' = after /\ parsed' = part
Refuse == section' = "refused" /\ UNCHANGED <<pos, parsed>>
Has(n) == pos + n - 1 <= Len(file)
Reading(what) == section = what /\ UNCHANGED <<kept, file, whole>>

Put(field, item) == [parsed EXCEPT !.song[field] = Append(@, item)]

ReadHeader ==
  /\ Reading("header")
  /\ LET p == pos + NameLen
     IN IF Has(NameLen + 1) /\ file[p] \in 1 .. MAX_SONGS
        THEN Go(p + 1, "orders",
                [song |-> [Empty EXCEPT !.name = StringAt(pos)], left |-> file[p],
                 chans |-> Channels(p + 1, file[p]), lists |-> <<>>])
        ELSE Refuse

\* One orderlist; a subtune's last completes it, the last subtune's ends the section.
ReadOrderlist ==
  /\ Reading("orders")
  /\ LET n == IF Has(1) THEN file[pos] ELSE 0
         body == SubSeq(file, pos + 1, pos + n - 1)
         lists == Append(parsed.lists, [entries |-> body, restart |-> file[pos + n + 1]])
         next == pos + n + 2
     IN IF n < 1 \/ ~Has(n + 2) THEN Refuse
        ELSE IF file[pos + n] # LOOPSONG \/ LOOPSONG \in Range(body) THEN Refuse
        ELSE IF Len(lists) < parsed.chans THEN Go(next, "orders", [parsed EXCEPT !.lists = lists])
        ELSE Go(next, IF parsed.left > 1 THEN "orders" ELSE "instrument_count",
                [Put("subtunes", lists) EXCEPT !.lists = <<>>, !.left = @ - 1])

ReadCount(what, low, high, items, after) ==
  /\ Reading(what)
  /\ IF Has(1) /\ file[pos] \in low .. high
     THEN Go(pos + 1, IF file[pos] = 0 THEN after ELSE items, [parsed EXCEPT !.left = file[pos]])
     ELSE Refuse

ReadInstruments == ReadCount("instrument_count", 0, MAX_INSTR - 1, "instruments", "tables")

ReadInstrument ==
  /\ Reading("instruments")
  /\ IF Has(9 + NameLen)
     THEN Go(pos + 9 + NameLen, IF parsed.left > 1 THEN "instruments" ELSE "tables",
             [Put("instruments", [params |-> SubSeq(file, pos, pos + 8), name |-> StringAt(pos + 9)])
                EXCEPT !.left = @ - 1])
     ELSE Refuse

ReadTable ==
  /\ Reading("tables")
  /\ LET n == IF Has(1) THEN file[pos] ELSE 0
     IN IF Has(1 + 2 * n)
        THEN Go(pos + 1 + 2 * n, IF Len(parsed.song.tables) < 3 THEN "tables" ELSE "pattern_count",
                Put("tables", [k \in 1 .. n |-> <<file[pos + k], file[pos + n + k]>>]))
        ELSE Refuse

ReadPatterns == ReadCount("pattern_count", 1, MAX_PATT, "patterns", "patterns")

ReadPattern ==
  /\ Reading("patterns")
  /\ LET n == IF Has(1) THEN file[pos] ELSE 0
     IN IF n \notin 1 .. MAX_PATTROWS + 1 \/ ~Has(1 + 4 * n) THEN Refuse
        ELSE IF file[pos + 4 * n - 3] # ENDPATT THEN Refuse
        ELSE Go(pos + 1 + 4 * n, IF parsed.left > 1 THEN "patterns" ELSE "end",
                [Put("patterns", [k \in 1 .. n - 1 |-> SubSeq(file, pos + 4 * k - 3, pos + 4 * k)])
                   EXCEPT !.left = @ - 1])

\* (mutant) Bytes after the last pattern are let through.
AnyEnd == Reading("end") /\ Go(pos, "read", parsed)

\* Nothing may follow the last pattern.
ReadEnd ==
  /\ Reading("end")
  /\ IF pos = Len(file) + 1 THEN Go(pos, "read", parsed) ELSE Refuse

-----------------------------------------------------------------------------
(* A song is written, its bytes reach the reader, the reader reads them.   *)

FileInit ==
  /\ kept = Empty /\ file = <<>> /\ whole = TRUE /\ section = "none"
  /\ pos = 1 /\ parsed = [song |-> Empty, left |-> 0, chans |-> 0, lists |-> <<>>]

\* build_sng; a song outside the limits raises and writes nothing.
Write(song) ==
  /\ section \in {"none", "read", "refused"} /\ Valid(song)
  /\ kept' = song /\ file' = Stored(song) /\ whole' = TRUE
  /\ section' = "header" /\ pos' = 1
  /\ UNCHANGED parsed

\* The file loses its end, or gains a byte there.
Damage ==
  /\ section = "header" /\ whole
  /\ \/ \E n \in 1 .. Len(file) - 1 : file' = SubSeq(file, 1, n)
     \/ \E b \in {0, 1, 255} : file' = Append(file, b)
  /\ whole' = FALSE
  /\ UNCHANGED <<kept, section, pos, parsed>>

Read ==
  \/ ReadHeader \/ ReadOrderlist \/ ReadInstruments \/ ReadInstrument
  \/ ReadTable \/ ReadPatterns \/ ReadPattern \/ ReadEnd

-----------------------------------------------------------------------------
(* Properties.                                                             *)

\* A song that is written is the song that is read (writer.py: reading and writing are
\* exact; reader.py, determine_channels guessing three or six), and a file that lost its
\* end or gained bytes is read as no song.
ReadsBack ==
  /\ section = "read" => whole /\ parsed.song = kept
  /\ section = "refused" => ~whole

=============================================================================
