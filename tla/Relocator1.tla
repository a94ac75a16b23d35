----------------------------- MODULE Relocator1 -----------------------------
(***************************************************************************)
(* The GoatTracker 1 relocator (gt1sng.py, relocate): patterns are packed, *)
(* wave tables shared, filter steps become offsets. The playroutines read  *)
(* what it makes (specs/gt1_11.play, specs/gt1_15.play).                   *)
(*                                                                         *)
(* A packed song is an editor song's record, its orderlists ending in $FF  *)
(* and a restart, its instruments [params, wave] and its wave table those  *)
(* in use.                                                                 *)
(***************************************************************************)
EXTENDS EditorSong1

CONSTANTS
  StripTiming,    \* 1.25: the playroutine has no timing marks (11.1, 11.2)
  WaveMax         \* bytes of a packed wave table: 512 in the code

ASSUME StripTimingAssumption == StripTiming \in BOOLEAN
ASSUME WaveMaxAssumption == WaveMax \in 2 .. 512

VARIABLES packed,    \* the relocated song
          cursor,    \* the playroutine's place in a pattern: [pattern, at, rest, fx, data]
          heard      \* history: the rows it read of the pattern

REST_PREFIX == 96
RESTNOTE == 95
PACKEDREST == 192
ENDPATT == 255

Swapped(b) == (b % 16) * 16 + b \div 16
XorHigh(b) == (b + 128) % 256

-----------------------------------------------------------------------------
(* Patterns.                                                               *)

\* An editor pattern's rows, its end row aside.
EditorRows(p) == [k \in 1 .. Len(p) \div 3 - 1 |-> SubSeq(p, 3 * k - 2, 3 * k)]

\* A row's instrument, or the last one named before it.
Instrument(rows, k) ==
  LET named == {j \in 1 .. k : rows[j][2] >= 8}
  IN IF named = {} THEN 0 ELSE (rows[Max(named)][2] \div 8) * 8

\* Command and data of packpattern in the 1.25 editor and in the 1.53 one.
Effect125(fx, data) ==
  CASE fx = 7 /\ data < 192 -> <<7, data - 1>>
    [] fx = 7 /\ data >= 192 /\ StripTiming -> <<0, 0>>
    [] fx = 4 -> <<4, Swapped(data)>>
    [] OTHER -> <<fx, data>>
Effect153(fx, data) ==
  CASE fx = 7 /\ data < 239 /\ data % 128 >= 3 -> <<7, data - 1>>
    [] fx = 4 -> <<4, Swapped(data)>>
    [] fx = 5 -> <<5, (data * 4) % 256>>
    [] fx = 0 /\ data # 0 -> <<0, XorHigh(data)>>
    [] OTHER -> <<fx, data>>

\* What a pattern's k-th row is to the playroutine: note, instrument and command, data.
PlayedRow(rows, k, layout) ==
  LET e == IF layout = "1.53" THEN Effect153(rows[k][2] % 8, rows[k][3])
           ELSE Effect125(rows[k][2] % 8, rows[k][3])
  IN <<rows[k][1], Instrument(rows, k) + e[1], e[2]>>

\* (mutant) A run may be the last byte of a pattern.
RestAnywhere(items, j) == items[j] = <<REST_PREFIX + RESTNOTE>>

\* A rest that a run may take in: any but the pattern's last row.
InRun(items, j) == items[j] = <<REST_PREFIX + RESTNOTE>> /\ j < Len(items)

\* The bytes of item j: a run of up to 64 rests stands where its first does.
RunOf(items, j) ==
  LET start == Max({i \in 1 .. j : i = 1 \/ ~InRun(items, i - 1)})
      end == Min({i \in j .. Len(items) : i = Len(items) \/ ~InRun(items, i + 1)})
      length == Min({64, end - j + 1})
  IN IF ~InRun(items, j) THEN items[j]
     ELSE IF (j - start) % 64 # 0 THEN <<>>
     ELSE IF length = 1 THEN items[j] ELSE <<256 - length>>

\* _optimize: a row that repeats the command and data before it is its note alone.
PackPattern(rows, layout) ==
  LET row(k) == PlayedRow(rows, k, layout)
      items == [k \in DOMAIN rows |->
                  IF k > 1 /\ Tail(row(k)) = Tail(row(k - 1))
                  THEN <<(row(k)[1] + REST_PREFIX) % 256>> ELSE row(k)]
  IN FlattenSeq([k \in DOMAIN items |-> RunOf(items, k)]) \o <<ENDPATT>>

-----------------------------------------------------------------------------
(* Wave and filter tables.                                                 *)

\* _wave_block: an instrument's rows, through its first jump.
WaveBlock(rows) ==
  LET jumps == {k \in DOMAIN rows : rows[k][1] = LOOPSONG}
  IN IF jumps = {} THEN rows ELSE SubSeq(rows, 1, Min(jumps))

HeldAt(flat, block) ==
  {k \in 1 .. Len(flat) - Len(block) + 1 : SubSeq(flat, k, k + Len(block) - 1) = block}

\* _dedup: the rows are shared where the table has them already.
Deduped(flat, block) ==
  IF HeldAt(flat, block) # {} THEN [flat |-> flat, at |-> Min(HeldAt(flat, block))]
  ELSE [flat |-> flat \o block, at |-> Len(flat) + 1]

\* The shared table after k instruments and where each one's rows are.
Shared(s, n) ==
  LET after[k \in 0 .. n] ==
        IF k = 0 THEN [flat |-> <<>>, at |-> 0] ELSE Deduped(after[k - 1].flat, WaveBlock(OwnRows(s, k)))
  IN after

Packed153(p) ==
  <<p[1], p[2], Swapped(p[3] - (p[3] % 2)), p[4] - (p[4] % 2) + (p[3] % 2),
    p[5] \div 16, p[6] \div 16, (p[7] * 4) % 256>>

\* The highest filter step an instrument, a command or a step names, plus one.
FilterAmount(s) ==
  LET rows == UNION {Range(EditorRows(p)) : p \in Range(s.patterns)}
      named == {i.params[7] : i \in Range(s.instruments)}
               \cup {r[3] : r \in {q \in rows : q[2] % 8 = 5}}
               \cup {s.filter[4 * k] : k \in 1 .. Len(s.filter) \div 4}
  IN Max(named) + 1

\* A step's next becomes an offset; step 0 holds the funktempo, one less each.
FilterByte(b, k) == IF k > 4 /\ k % 4 = 0 THEN (b * 4) % 256 ELSE IF k \in 3 .. 4 THEN (b + 255) % 256 ELSE b

-----------------------------------------------------------------------------
(* The song.                                                               *)

\* The patterns orderlists name, up to the highest.
Kept(s) ==
  LET named == UNION {Range(Entries(s.orders[n][c], s.layout)) : n \in DOMAIN s.orders, c \in 1 .. 3}
  IN Max({0} \cup {e \in named : s.layout # "1.53" \/ e < V15_PATTREF}) + 1

UsedInstruments(s) ==
  LET rows == UNION {Range(EditorRows(s.patterns[k])) : k \in 1 .. Kept(s)}
  IN Max({1} \cup {r[2] \div 8 : r \in rows})

\* An old end mark becomes $FF and restart 0; a subtune with an empty orderlist goes.
Renewed(o) == SubSeq(o, 1, EndMark(o) - 1) \o <<LOOPSONG, IF EndMark(o) = Len(o) THEN 0 ELSE Last(o)>>
PlayableOrders(s) ==
  LET Some(chans) == \A c \in 1 .. 3 : EndMark(chans[c]) > 1
  IN [n \in DOMAIN SelectSeq(s.orders, Some) |->
        [c \in 1 .. 3 |-> Renewed(SelectSeq(s.orders, Some)[n][c])]]

\* relocate refuses a song that does not fit; a tempo 0 of the 1.25 editor is no byte.
Relocatable(s) ==
  LET flat == Shared(s, UsedInstruments(s))[UsedInstruments(s)].flat
      rows == UNION {Range(EditorRows(s.patterns[k])) : k \in 1 .. Kept(s)}
  IN /\ s.layout # "0.9x"
     /\ s.layout = "1.53" =>
          /\ 2 * Len(flat) <= WaveMax /\ 4 * FilterAmount(s) <= FilterBytes
          /\ PlayableOrders(s) # <<>>
     /\ s.layout = "1.25" => \A r \in rows : r[2] % 8 = 7 => r[3] # 0

Relocated(s) ==
  LET used == UsedInstruments(s)
      shared == Shared(s, used)
      late == s.layout = "1.53"
  IN [s EXCEPT
        !.orders = PlayableOrders(s),
        !.instruments = [k \in 1 .. used |->
           [params |-> IF late THEN Packed153(s.instruments[k].params) ELSE s.instruments[k].params,
            wave |-> shared[k].at]],
        !.wave = shared[used].flat,
        !.patterns = [k \in 1 .. Kept(s) |-> PackPattern(EditorRows(s.patterns[k]), s.layout)],
        !.filter = IF late THEN [k \in 1 .. 4 * FilterAmount(s) |-> FilterByte(s.filter[k], k)]
                   ELSE <<>>]

NoCursor == [pattern |-> 0, at |-> 0, rest |-> 0, fx |-> 0, data |-> 0]

Relocate ==
  /\ stage = "edited" /\ Relocatable(song)
  /\ packed' = Relocated(song) /\ stage' = "packed"
  /\ UNCHANGED <<song, file, cursor, heard>>

-----------------------------------------------------------------------------
(* The playroutines.                                                       *)

\* A pattern is entered, after any other.
EnterPattern ==
  /\ stage = "packed" /\ cursor.at \in {0, ENDPATT}
  /\ \E p \in DOMAIN packed.patterns :
       cursor' = [cursor EXCEPT !.pattern = p, !.at = 1] /\ heard' = <<>>
  /\ UNCHANGED <<song, file, stage, packed>>

\* One row of it: a run counts itself up to zero in a byte; the mark after a row ends the
\* pattern, and is not looked for after a run.
ReadPackedRow ==
  /\ stage = "packed" /\ cursor.at \notin {0, ENDPATT}
  /\ LET bytes == packed.patterns[cursor.pattern]
         b == bytes[cursor.at]
         counted == ((IF cursor.rest = 0 THEN b ELSE cursor.rest) + 1) % 256
         stated == b < REST_PREFIX
         next == cursor.at + IF stated THEN 3 ELSE 1
         fx == IF stated THEN bytes[cursor.at + 1] ELSE cursor.fx
         data == IF stated THEN bytes[cursor.at + 2] ELSE cursor.data
     IN IF b >= PACKEDREST
        THEN /\ cursor' = [cursor EXCEPT !.rest = counted, !.at = IF counted = 0 THEN @ + 1 ELSE @]
             /\ heard' = Append(heard, <<RESTNOTE, cursor.fx, cursor.data>>)
        ELSE /\ cursor' = [cursor EXCEPT !.at = IF bytes[next] = ENDPATT THEN ENDPATT ELSE next,
                                         !.fx = fx, !.data = data]
             /\ heard' = Append(heard, <<IF stated THEN b ELSE b - REST_PREFIX, fx, data>>)
  /\ UNCHANGED <<song, file, stage, packed>>

relocatorVars == <<packed, cursor, heard>>

-----------------------------------------------------------------------------
(* Properties.                                                             *)

\* The instrument in force after a row.
InForce(before, row) == IF row[2] \div 8 = 0 THEN before ELSE row[2] \div 8

\* The playroutine reads the rows of a pattern as the editor has them, each with its
\* instrument and command, and ends it after the last (packpattern).
PatternsPlay ==
  stage = "packed" /\ cursor.pattern # 0 =>
    LET rows == EditorRows(song.patterns[cursor.pattern])
    IN /\ Len(heard) <= Len(rows)
       /\ \A k \in DOMAIN heard :
            /\ Tail(heard[k]) = Tail(PlayedRow(rows, k, song.layout)) /\ heard[k][1] = rows[k][1]
            /\ heard[k][2] \div 8 = FoldLeft(InForce, 0, SubSeq(rows, 1, k))
       /\ cursor.at = ENDPATT <=> Len(heard) = Len(rows)

\* What the wave executor plays for ticks from a row on, its jumps relative to first.
WavePlayed(wave, first, ticks) ==
  LET at[k \in 0 .. ticks] ==
        IF k = 0 THEN first
        ELSE LET p == at[k - 1]
             IN IF p = 0 THEN 0
                ELSE IF p + 1 \in DOMAIN wave /\ wave[p + 1][1] = LOOPSONG
                THEN IF wave[p + 1][2] = 0 THEN 0 ELSE wave[p + 1][2] + first - 1
                ELSE p + 1
  IN [k \in 0 .. ticks |-> IF at[k] \in DOMAIN wave THEN wave[at[k]] ELSE <<>>]

\* What a filter program does, of an editor's steps and of packed ones.
EditorFilter(s, first, ticks) ==
  LET at[k \in 0 .. ticks] == IF k = 0 THEN first ELSE s.filter[4 * at[k - 1] + 4]
  IN [k \in 0 .. ticks |-> SubSeq(s.filter, 4 * at[k] + 1, 4 * at[k] + 3)]
PackedFilter(s, first, ticks) ==
  LET at[k \in 0 .. ticks] == IF k = 0 THEN first ELSE s.filter[at[k - 1] + 4]
  IN [k \in 0 .. ticks |-> SubSeq(s.filter, at[k] + 1, at[k] + 3)]

\* Steps until a program comes to step 0, which stops it.
Running(s, first, ticks) ==
  LET at[k \in 0 .. ticks] == IF k = 0 THEN first ELSE LET p == at[k - 1] IN IF p = 0 THEN 0 ELSE s.filter[4 * p + 4]
  IN Cardinality({k \in 0 .. ticks : at[k] # 0}) - 1

Ticks == 6

\* An instrument plays the wave rows and filter steps it played in the editor, whatever
\* rows it now shares (_dedup, _relocate_v153).
ProgramsKept ==
  stage = "packed" =>
    \A k \in DOMAIN packed.instruments :
      LET own == song.instruments[k]
          step == own.params[7]
      IN /\ RowCount(song, k) > 0 =>
              WavePlayed(packed.wave, packed.instruments[k].wave, Ticks)
                = WavePlayed(OwnRows(song, k), 1, Ticks)
         /\ song.layout = "1.53" /\ step # 0 =>
              LET n == Running(song, step, Ticks)
              IN PackedFilter(packed, packed.instruments[k].params[7], n) = EditorFilter(song, step, n)

=============================================================================
