---------------------------- MODULE EditorSong1 ----------------------------
(***************************************************************************)
(* GoatTracker 1 editor songs and their "GTS!" files (gt1sng.py): the      *)
(* writer, the guess which of the three editors' layouts a file has, and   *)
(* the reader. Between the writer and the reader a file may lose its end.  *)
(*                                                                         *)
(* A song is [layout, orders, instruments, wave, patterns, filter]: a      *)
(* subtune three orderlists of bytes with their end, an instrument         *)
(* [params, wave] its seven parameters and the first of its rows in the    *)
(* wave table of all instruments, a pattern bytes in threes with its end   *)
(* row. Names and the header are left out, and the first byte of a file is *)
(* its subtunes.                                                           *)
(***************************************************************************)
EXTENDS Integers, SequencesExt

CONSTANTS
  InstrCount,    \* instruments of an editor song: 31 in the code
  FilterBytes    \* bytes of its filter table: 256 in the code

ASSUME InstrCountAssumption == InstrCount \in 1 .. 31
ASSUME FilterBytesAssumption == FilterBytes \in {4 * n : n \in 1 .. 64}

VARIABLES
  song,    \* the editor's song
  file,    \* its bytes
  stage    \* "edited", "stored", "cut", "read", "refused", "packed", "found"

LOOPSONG == 255
OLD_ENDMARK == 254
MAX_PATT == 255
MAX_PATTROWS == 80
MAX_WAVELEN == 127
V093_WAVEMAX == 128
V15_PATTREF == 208

-----------------------------------------------------------------------------
(* The writer.                                                             *)

\* Rows of instrument k: up to the next one's first.
RowCount(s, k) ==
  (IF k < InstrCount THEN s.instruments[k + 1].wave ELSE Len(s.wave) + 1) - s.instruments[k].wave

OwnRows(s, k) == SubSeq(s.wave, s.instruments[k].wave, s.instruments[k].wave + RowCount(s, k) - 1)

BlobStored(blob) == <<Len(blob) - 1>> \o blob
InstrumentStored(s, k) ==
  s.instruments[k].params \o <<2 * RowCount(s, k)>> \o FlattenSeq(OwnRows(s, k))
PatternStored(p) == <<Len(p)>> \o p

\* write_gts1.
Written(s) ==
  <<Len(s.orders)>>
  \o FlattenSeq([n \in DOMAIN s.orders |->
                   FlattenSeq([c \in 1 .. 3 |-> BlobStored(s.orders[n][c])])])
  \o FlattenSeq([k \in 1 .. InstrCount |-> InstrumentStored(s, k)])
  \o <<Len(s.patterns)>> \o FlattenSeq([k \in DOMAIN s.patterns |-> PatternStored(s.patterns[k])])
  \o s.filter

-----------------------------------------------------------------------------
(* The reader. A position past the file's end stands for a file that ended *)
(* too early: At is then 0, and what is read there Missing.                *)

At(f, p) == IF p \in DOMAIN f THEN f[p] ELSE 0

\* Where n blocks, each Size bytes, start from p on, and where the last ends.
Blocks(f, p, n, Size(_, _)) ==
  FoldLeft(LAMBDA at, k : Append(at, Last(at) + Size(f, Last(at))), <<p>>, [k \in 1 .. n |-> k])

OrderSize(f, p) == At(f, p) + 2
InstrumentSize(f, p) == 8 + At(f, p + 7)
PatternSize(f, p) == 1 + At(f, p)

Orders(f) == Blocks(f, 2, 3 * f[1], OrderSize)
Instruments(f) == Blocks(f, Last(Orders(f)), InstrCount, InstrumentSize)
Patterns(f) == LET p == Last(Instruments(f)) IN Blocks(f, p + 1, At(f, p), PatternSize)

\* What the k-th of the blocks holds, its first skip bytes aside.
BlockOf(f, at, k, skip) == SubSeq(f, at[k] + skip, at[k + 1] - 1)

\* (mutant) The first instrument decides alone.
DetectByRow(f) ==
  LET first == Last(Orders(f))
      rows == At(f, first + 7)
  IN IF rows % 2 = 0 /\ rows >= 2 /\ first + 8 + rows - 2 <= Len(f) /\ f[first + 8 + rows - 2] = 0
     THEN "0.9x" ELSE "1.25"

\* _detect_layout: an orderlist that ends in $FF with no restart byte after it is 0.9x;
\* else the first instrument's last wave row decides, $00 there being 0.9x.
Detect(f) ==
  LET at == Orders(f)
      ends == {at[k] - 1 : k \in 2 .. Len(at)}
      bare == {e \in ends : e <= Len(f) /\ f[e] = LOOPSONG /\ f[e - 1] # LOOPSONG}
      rows == At(f, Last(at) + 7)
      last == Last(at) + 8 + rows - 2
  IN IF Last(Front(at)) > Len(f) THEN "1.25"
     ELSE IF bare # {} THEN "0.9x"
     ELSE IF rows % 2 = 0 /\ rows >= 2 /\ last <= Len(f) /\ f[last] = 0 THEN "0.9x" ELSE "1.25"

\* Where an orderlist's end is: the old mark last, or $FF before a restart byte; 0 is no end.
EndMark(blob) ==
  CASE blob[Len(blob)] = OLD_ENDMARK -> Len(blob)
    [] blob[Len(blob)] # OLD_ENDMARK /\ blob[Len(blob) - 1] = LOOPSONG -> Len(blob) - 1
    [] OTHER -> 0

OrderGood(blob, layout) ==
  Len(blob) >= 2 /\ IF layout = "0.9x" THEN blob[Len(blob)] \in {LOOPSONG, OLD_ENDMARK}
                    ELSE EndMark(blob) > 0

\* The entries of an orderlist, which must name patterns there are; later editors'
\* commands name none.
Entries(blob, layout) ==
  SubSeq(blob, 1, IF layout = "0.9x" THEN Len(blob) - 1 ELSE EndMark(blob) - 1)
NamesPatterns(blob, s) ==
  \A e \in Range(Entries(blob, s.layout)) :
    (s.layout = "1.53" /\ e >= V15_PATTREF) \/ e < Len(s.patterns)

WaveGood(rows, layout) ==
  /\ rows % 2 = 0
  /\ IF layout = "0.9x" THEN rows \in 2 .. V093_WAVEMAX ELSE rows <= 2 * MAX_WAVELEN

PatternGood(p) ==
  /\ Len(p) > 0 /\ Len(p) % 3 = 0 /\ Len(p) <= 3 * MAX_PATTROWS + 3
  /\ p[Len(p) - 2] = LOOPSONG

Pairs(bytes) == [k \in 1 .. Len(bytes) \div 2 |-> SubSeq(bytes, 2 * k - 1, 2 * k)]

\* The song a file of a layout holds, if it is one.
Held(f, layout) ==
  LET o == Orders(f)
      i == Instruments(f)
      p == Patterns(f)
      rows(k) == BlockOf(f, i, k, 8)
      first[k \in 1 .. InstrCount] == IF k = 1 THEN 1 ELSE first[k - 1] + Len(rows(k - 1)) \div 2
  IN [layout |-> layout,
      orders |-> [n \in 1 .. f[1] |-> [c \in 1 .. 3 |-> BlockOf(f, o, 3 * (n - 1) + c, 1)]],
      instruments |-> [k \in 1 .. InstrCount |-> [params |-> SubSeq(f, i[k], i[k] + 6), wave |-> first[k]]],
      wave |-> FlattenSeq([k \in 1 .. InstrCount |-> Pairs(rows(k))]),
      patterns |-> [k \in 1 .. Len(p) - 1 |-> BlockOf(f, p, k, 1)],
      filter |-> SubSeq(f, Last(p), Len(f))]

\* The bytes left after the patterns decide between the later two layouts.
LayoutOf(f) ==
  IF Detect(f) = "0.9x" THEN "0.9x"
  ELSE IF Last(Patterns(f)) + FilterBytes = Len(f) + 1 THEN "1.53" ELSE "1.25"

Whole(f) == Last(Patterns(f)) + (IF LayoutOf(f) = "1.53" THEN FilterBytes ELSE 0) = Len(f) + 1

\* parse_gts1 reads the file.
Readable(f) ==
  /\ f[1] \in 1 .. 32 /\ Whole(f)
  /\ LET s == Held(f, LayoutOf(f))
         i == Instruments(f)
     IN /\ \A n \in DOMAIN s.orders : \A c \in 1 .. 3 :
             OrderGood(s.orders[n][c], s.layout) /\ NamesPatterns(s.orders[n][c], s)
        /\ \A k \in 1 .. InstrCount :
             /\ WaveGood(f[i[k] + 7], s.layout)
             /\ s.layout = "0.9x" => f[i[k + 1] - 2] \in {0, LOOPSONG}
        /\ Len(s.patterns) \in 1 .. MAX_PATT
        /\ \A p \in Range(s.patterns) : PatternGood(p)

Parsed(f) == Held(f, LayoutOf(f))

-----------------------------------------------------------------------------
(* A 0.9x song as a later one.                                             *)

\* (mutant) A converted table keeps its $00 rows.
KeptEnds(s) == s.wave

\* A table's last row becomes a jump that stops.
JumpEnds(s) ==
  LET ends == {s.instruments[k].wave + RowCount(s, k) - 1 : k \in 1 .. InstrCount}
  IN [k \in DOMAIN s.wave |-> IF k \in ends /\ s.wave[k][1] = 0 THEN <<LOOPSONG, 0>> ELSE s.wave[k]]

\* v093_to_v125, with the filter table it gains.
Converted(s) ==
  [s EXCEPT !.layout = "1.53", !.wave = JumpEnds(s),
            !.orders = [n \in DOMAIN s.orders |->
                          [c \in 1 .. 3 |-> LET o == s.orders[n][c]
                                            IN IF Last(o) = LOOPSONG THEN Append(o, 0) ELSE o]],
            !.filter = [k \in 1 .. FilterBytes |-> 0]]

-----------------------------------------------------------------------------
(* Steps.                                                                  *)

editorVars == <<song, file, stage>>

WriteGts1 == stage = "edited" /\ file' = Written(song) /\ stage' = "stored" /\ UNCHANGED song

CutFile ==
  /\ stage = "stored"
  /\ \E n \in 2 .. Len(file) - 1 : file' = SubSeq(file, 1, n)
  /\ stage' = "cut" /\ UNCHANGED song

ReadGts1 ==
  /\ stage \in {"stored", "cut"}
  /\ stage' = IF Readable(file) THEN "read" ELSE "refused"
  /\ UNCHANGED <<song, file>>

\* What was read is edited on; a 0.9x song as the later one it converts to.
EditOn ==
  /\ stage = "read" /\ song.layout = "0.9x"
  /\ song' = Converted(Parsed(file)) /\ stage' = "edited" /\ UNCHANGED file

-----------------------------------------------------------------------------
(* Properties.                                                             *)

\* A written song is read as the song it was, in its own editor's layout; a file cut short
\* is read as none, but for one that lost exactly its filter table (_detect_layout).
LayoutRead ==
  /\ stage = "read" =>
       \/ Parsed(file) = song /\ file = Written(song)
       \/ song.layout = "1.53" /\ Parsed(file) = [song EXCEPT !.layout = "1.25", !.filter = <<>>]
  /\ stage = "refused" => file # Written(song)

=============================================================================
