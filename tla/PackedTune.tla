----------------------------- MODULE PackedTune -----------------------------
(***************************************************************************)
(* A packed tune's song data: its layout, the bytes pack gives a typed     *)
(* song there, decode reading them back (packed.py), and song_into_sid     *)
(* writing another song over them piece by piece (rebuild.py). The tuning  *)
(* and the pointer tables, which it leaves as they are, are left out;      *)
(* pulse and filter tables and columns go the way of the wave table's and  *)
(* the vibrato's.                                                          *)
(***************************************************************************)
EXTENDS TableRows, SequencesExt

CONSTANTS Songs,    \* typed songs
          Shapes,   \* [form, vib, gate, flags, binary, zeros, inline, unpacks]: how a tune is built
          Reach, RestRun

Codec == INSTANCE PatternCodec

VARIABLES
  lay,      \* the layout, as decompiling found it
  data,     \* the file's bytes
  song,     \* the song being written
  todo,     \* its pieces still to write
  image,    \* the bytes being written
  status    \* "ready", "writing", "returned", "refused"

vars == <<lay, data, song, todo, image, status>>

-----------------------------------------------------------------------------
(* Instruments: nine columns, of which a player may lack some.             *)

\* The hard-restart and legato classes follow one another.
Rank(ins) == IF ins.legato THEN 2 ELSE IF ins.hr THEN 0 ELSE 1
FirstOf(instruments, k) == 1 + Cardinality({i \in DOMAIN instruments : Rank(instruments[i]) < k})

Columns(l) ==
  <<"ad", "wave">> \o (IF l.vib THEN <<"vib", "vibdelay">> ELSE <<>>)
                   \o (IF l.gate THEN <<"gate", "first">> ELSE <<>>)

Bit(set, b) == IF set THEN b ELSE 0

InstrumentBytes(ins, l) ==
  [ad |-> ins.ad, wave |-> ins.wave, vib |-> ins.vib, first |-> ins.first,
   vibdelay |-> (ins.delay - Bit(~l.binary, 1)) % 256,
   gate |-> ins.gate + Bit(l.flags /\ ~ins.hr, 128) + Bit(l.flags /\ ins.legato, 64)]

\* Instrument i of the columns c: classes from the gate column's bits where it
\* keeps them, else from the player's class bounds.
InstrumentOf(i, c, l) ==
  LET Got(name, other) == IF name \in DOMAIN c THEN c[name] ELSE other
      gate == Got("gate", l.fixed[1])
  IN [ad |-> c.ad, wave |-> c.wave, vib |-> Got("vib", 0), first |-> Got("first", l.fixed[2]),
      delay |-> (Got("vibdelay", 255) + Bit(~l.binary, 1)) % 256,
      gate |-> gate % 64,
      hr |-> IF l.flags THEN gate < 128 ELSE i < l.firstnohr,
      legato |-> IF l.flags THEN (gate \div 64) % 2 = 1 ELSE i >= l.firstlegato]

-----------------------------------------------------------------------------
(* Orderlists: a repeat trails the pattern it repeats.                     *)

IsPattern(b) == b < 208
IsRepeat(b) == b \in 208 .. 223

Swapped(entries, Leads(_), Trails(_)) ==
  LET f[i \in 1 .. Len(entries) + 2] ==
        CASE i > Len(entries) -> <<>>
          [] i < Len(entries) /\ Leads(entries[i]) /\ Trails(entries[i + 1]) ->
               <<entries[i + 1], entries[i]>> \o f[i + 2]
          [] OTHER -> <<entries[i]>> \o f[i + 1]
  IN f[1]

OrderBytes(o) ==
  LET out == Swapped(o.entries, IsRepeat, IsPattern)
  IN IF Len(out) >= Reach THEN out ELSE out \o <<255, o.restart>>

\* The orderlist at the head of b: to its loop mark, or as far as the cursor reaches.
OrderRead(b) ==
  LET ends == {i \in DOMAIN b : b[i] = 255 /\ i < Reach}
      n == IF ends = {} THEN Reach ELSE Min(ends) - 1
  IN [entries |-> Swapped(SubSeq(b, 1, n), IsPattern, IsRepeat),
      restart |-> IF ends = {} THEN 0 ELSE b[n + 2]]

-----------------------------------------------------------------------------
(* Pieces: what pack writes where. A column follows the one before it, and *)
(* a table's right side its left; a stream the layout has no place for is  *)
(* left out.                                                               *)

Column(rows, Bytes(_), side) == [n \in DOMAIN rows |-> Bytes(rows[n])[side]]
Sides(rows, Bytes(_)) == Column(rows, Bytes, 1) \o Column(rows, Bytes, 2)

Cells(instruments, l) ==
  FlattenSeq([k \in DOMAIN Columns(l) |->
                [i \in DOMAIN instruments |-> InstrumentBytes(instruments[i], l)[Columns(l)[k]]]])

\* (mutant) Row 0 is not packed where the song has none of its own.
SpeedRowsOnly(s, l) == s.speed

SpeedRows(s, l) == IF l.zeros = 1 THEN <<s.speed0>> \o s.speed ELSE s.speed

Pieces(s, l) ==
  <<[at |-> l.ins, bytes |-> Cells(s.instruments, l)],
    [at |-> l.wave, bytes |->
       Sides(s.wave, LAMBDA r : WavePacked(WaveBytes(r)[1], WaveBytes(r)[2], l.form))],
    [at |-> l.speed, bytes |-> Sides(SpeedRows(s, l), SpeedBytes)]>>
  \o [k \in DOMAIN s.orders \cap DOMAIN l.orders |->
        [at |-> l.orders[k], bytes |-> OrderBytes(s.orders[k])]]
  \o [k \in DOMAIN s.patterns \cap DOMAIN l.patterns |->
        [at |-> l.patterns[k], bytes |-> Codec!PatternBytes(s.patterns[k])]]

Poked(mem, piece) ==
  [a \in DOMAIN mem |->
     IF a \in piece.at .. piece.at + Len(piece.bytes) - 1 THEN piece.bytes[a - piece.at + 1]
     ELSE mem[a]]
\* (mutant) Only a piece's first byte is compared.
HeldFirst(mem, piece) == <<mem[piece.at]>>

Held(mem, piece) == [k \in DOMAIN piece.bytes |-> mem[piece.at + k - 1]]

\* The song data read where the layout says it is.
Decode(mem, l) ==
  LET cols == Columns(l)
      From(a) == SubSeq(mem, a, Len(mem))
      Cell(k, i) == mem[l.ins + (k - 1) * l.count + i - 1]
      Row(at, n, k) == <<mem[at + k - 1], mem[at + n + k - 1]>>
      speeds == l.slen + l.zeros
  IN [instruments |->
        [i \in 1 .. l.count |->
           InstrumentOf(i, [c \in Range(cols) |-> Cell(CHOOSE k \in DOMAIN cols : cols[k] = c, i)], l)],
      wave |-> [k \in 1 .. l.wlen |->
                  LET e == Row(l.wave, l.wlen, k)
                      w == WaveEditor(e[1], e[2], l.form)
                  IN WaveRow(w[1], w[2])],
      speed |-> [k \in 1 .. l.slen |->
                   LET e == Row(l.speed, speeds, k + l.zeros) IN SpeedRow(e[1], e[2])],
      speed0 |-> IF l.zeros = 1 THEN LET e == Row(l.speed, speeds, 1) IN SpeedRow(e[1], e[2])
                 ELSE Op("fixed", <<0>>),
      orders |-> [k \in DOMAIN l.orders |-> OrderRead(From(l.orders[k]))],
      patterns |-> [k \in DOMAIN l.patterns |-> Codec!PatternRowsRead(From(l.patterns[k]))]]

-----------------------------------------------------------------------------
(* greloc laying out a song: parts one after another, in a file whose init *)
(* may unpack the last of them.                                            *)

Starts(at, pieces) ==
  [k \in DOMAIN pieces |->
     at + FoldLeft(LAMBDA n, p : n + Len(p), 0, SubSeq(pieces, 1, k - 1))]

LayOut(s, shape) ==
  LET bare == shape @@ [firstnohr |-> FirstOf(s.instruments, 1),
                        firstlegato |-> FirstOf(s.instruments, 2),
                        count |-> Len(s.instruments), wlen |-> Len(s.wave), slen |-> Len(s.speed)]
      orders == [k \in DOMAIN s.orders |-> OrderBytes(s.orders[k])]
      patterns == [k \in DOMAIN s.patterns |-> Codec!PatternBytes(s.patterns[k])]
      wave == 1 + Len(Cells(s.instruments, bare))
      speed == wave + 2 * bare.wlen
      order == speed + 2 * (bare.slen + bare.zeros)
      starts == Starts(order, orders \o patterns)
  IN bare @@ [ins |-> 1, wave |-> wave, speed |-> speed,
              orders |-> SubSeq(starts, 1, Len(orders)),
              patterns |-> SubSeq(starts, Len(orders) + 1, Len(starts)),
              size |-> order + Len(FlattenSeq(orders \o patterns)) - 1]

Greloc(s, l) == FoldLeft(Poked, [a \in 1 .. l.size + Reach |-> 0], Pieces(s, l))

-----------------------------------------------------------------------------
(* song_into_sid.                                                          *)

\* An init may unpack the data, here its last byte: what the player's memory holds.
Unpacked(mem, l) == IF l.unpacks THEN [mem EXCEPT ![l.size] = 255 - @] ELSE mem
Memory == Unpacked(data, lay)

Old == Decode(Memory, lay)

\* A song's patterns as greloc packs them; speed row 0 stays the tune's.
Repacked(s) ==
  [s EXCEPT !.speed0 = Old.speed0,
            !.patterns = [k \in DOMAIN s.patterns |->
                            Codec!PackedRows(Codec!RowsOf(Codec!RawRows(s.patterns[k])))]]

Init ==
  \E shape \in Shapes : \E s \in Songs :
    /\ lay = LayOut(s, shape)
    /\ data = Unpacked(Greloc(s, lay), lay) /\ song = s /\ todo = <<>> /\ image = data /\ status = "ready"

\* One piece for each the tune has, or the song does not fit it.
Begin(s) ==
  LET new == Pieces(Repacked(s), lay)
  IN /\ status # "writing"
     /\ song' = s
     /\ IF lay.inline \/ Len(new) # Len(Pieces(Old, lay))
        THEN status' = "refused" /\ todo' = <<>>
        ELSE status' = "writing" /\ todo' = new
     /\ image' = data
     /\ UNCHANGED <<lay, data>>

Fits(new, was) == Len(new.bytes) <= Len(was.bytes)

\* The old piece must be in the file as it is in memory, and give room.
Write ==
  /\ status = "writing" /\ todo # <<>>
  /\ LET new == Head(todo)
         was == Pieces(Old, lay)[Len(Pieces(Old, lay)) - Len(todo) + 1]
     IN IF Held(image, was) = Held(Memory, was) /\ Fits(new, was)
        THEN image' = Poked(image, new) /\ todo' = Tail(todo) /\ UNCHANGED status
        ELSE status' = "refused" /\ UNCHANGED <<image, todo>>
  /\ UNCHANGED <<lay, data, song>>

\* The file is returned when its last piece is written.
Return ==
  /\ status = "writing" /\ todo = <<>>
  /\ data' = image /\ status' = "returned"
  /\ UNCHANGED <<lay, song, todo, image>>

Next == (\E s \in Songs : Begin(s)) \/ Write \/ Return

Spec == Init /\ [][Next]_vars

-----------------------------------------------------------------------------
(* Properties.                                                             *)

\* What the tune holds packs back to its own bytes (DecompiledSid.repack is empty).
RepackExact ==
  \A k \in DOMAIN Pieces(Old, lay) : LET p == Pieces(Old, lay)[k] IN Held(Memory, p) = p.bytes

\* A song of the tune's shape: as many streams, rows and instruments, their classes and
\* columns the player's, and delays only where it has them.
Shaped(s) ==
  /\ Len(s.orders) = Len(lay.orders) /\ Len(s.patterns) = Len(lay.patterns)
  /\ Len(s.instruments) = lay.count /\ Len(s.wave) = lay.wlen /\ Len(s.speed) = lay.slen
  /\ \A i \in DOMAIN s.instruments :
       LET bytes == InstrumentBytes(s.instruments[i], lay)
       IN s.instruments[i] = InstrumentOf(i, Restrict(bytes, Range(Columns(lay))), lay)
  /\ \A n \in DOMAIN s.wave :
       LET b == WaveBytes(s.wave[n])
           w == WavePacked(b[1], b[2], lay.form)
       IN WaveEditor(w[1], w[2], lay.form) = b

SameSong(s, t) ==
  /\ s.instruments = t.instruments /\ s.wave = t.wave /\ s.speed = t.speed
  /\ s.orders = t.orders
  /\ [k \in DOMAIN s.patterns |-> Codec!RawRows(s.patterns[k])]
       = [k \in DOMAIN t.patterns |-> Codec!RawRows(t.patterns[k])]

\* A song of the tune's shape that song_into_sid accepts is the song the player
\* then reads (rebuild.py, packed.py's pack and decode), whatever was written before.
SongWritten == status = "returned" /\ Shaped(song) => SameSong(Old, song)

\* Every song song_into_sid accepts is (its docstring names the lack of room as
\* the one way a song does not go in).
AcceptedWritten == status = "returned" => SameSong(Old, song)

=============================================================================
