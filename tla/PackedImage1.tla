---------------------------- MODULE PackedImage1 ----------------------------
(***************************************************************************)
(* A GoatTracker 1 tune in memory (gt1.py): the song's tables packed after *)
(* a relocated playroutine, the playroutine found among all known ones,    *)
(* and the tables decompiled from where its operands point. What is found  *)
(* is read as operations and stored again (gt1typed.py). Next is a song's  *)
(* whole life: edited, written to a file and read back (EditorSong1), or   *)
(* relocated and played (Relocator1), or packed, found and decompiled.     *)
(*                                                                         *)
(* A playroutine is [name, family, code, end, relocs, params, free, freq,  *)
(* bias, endsong, zero]: its bytes as assembled at Org and where those of  *)
(* its code end, its relocated operands [pos, tag, low, smc] (tag "code"   *)
(* for its own addresses, low then the whole assembled word; smc the low   *)
(* byte is self-modified), its parameter slots, the bytes a tune may       *)
(* change, its frequency table's bytes, how far before the song table its  *)
(* operands point, whether its orderlists lack a restart, its orderlist    *)
(* byte of no transpose. Positions count from 0.                           *)
(***************************************************************************)
EXTENDS Relocator1

CONSTANTS
  Songs,       \* the editors' songs
  Players,     \* a sequence: the order the playroutines are tried in
  Addresses,   \* where tunes are packed
  Org,         \* where the playroutines were assembled: $1000 in the code
  Params       \* what parameter slots are given: <<4, 2, 15, 0>> in the code

ASSUME OrgAssumption == Org \in 0 .. 65535

VARIABLES memory,    \* [base, bytes]: the tune's bytes and where they begin
          tune       \* what was found: [name, address, params, state, song], or NoTune

NoTune == [name |-> "none"]
imageVars == <<memory, tune>>

Byte(a) == IF a - memory.base + 1 \in DOMAIN memory.bytes THEN memory.bytes[a - memory.base + 1] ELSE 0
Word(a) == Byte(a) + 256 * Byte(a + 1)
Bytes(a, n) == [k \in 1 .. n |-> Byte(a + k - 1)]
EndOfData == memory.base + Len(memory.bytes)

-----------------------------------------------------------------------------
(* Packing.                                                                *)

OrdersOf(s) == FlattenSeq(s.orders)
Segments(ref) ==
  IF ref.family = "11" THEN <<"instruments", "wavetable", "songtable", "patterntable", "orderlists", "patterns">>
  ELSE <<"instruments", "wavetable", "songtable", "patterntable", "filtertable", "orderlists", "patterns">>

\* Where each of the blocks at p starts.
StartsOf(p, blocks) ==
  LET at[k \in 0 .. Len(blocks)] == IF k = 0 THEN p ELSE at[k - 1] + Len(blocks[k])
  IN [k \in DOMAIN blocks |-> at[k - 1]]

SplitWords(words) == [k \in DOMAIN words |-> words[k] % 256] \o [k \in DOMAIN words |-> words[k] \div 256]

\* A segment's bytes, its orderlists and patterns at their addresses.
SegmentBytes(name, s, orders, patterns) ==
  CASE name = "instruments" -> FlattenSeq([k \in DOMAIN s.instruments |->
                                  s.instruments[k].params \o <<s.instruments[k].wave>>])
    [] name = "wavetable" -> [k \in DOMAIN s.wave |-> s.wave[k][1]] \o [k \in DOMAIN s.wave |-> s.wave[k][2]]
    [] name = "songtable" -> SplitWords(orders)
    [] name = "patterntable" -> SplitWords(patterns)
    [] name = "filtertable" -> s.filter
    [] name = "orderlists" -> FlattenSeq(OrdersOf(s))
    [] name = "patterns" -> FlattenSeq(s.patterns)

\* layout: where the segments of the song begin, behind a player at a.
SegmentStarts(ref, a, s) ==
  LET names == Segments(ref)
      sizes == [k \in DOMAIN names |-> SegmentBytes(names[k], s, [o \in DOMAIN OrdersOf(s) |-> 0],
                                                    [p \in DOMAIN s.patterns |-> 0])]
      at == StartsOf(a + Len(ref.code), sizes)
  IN [n \in Range(names) |-> at[CHOOSE k \in DOMAIN names : names[k] = n]]

\* What the player's operands for each table are relative to.
Bases(ref, starts, s) ==
  LET songs == starts["songtable"] - ref.bias
      f == IF "filtertable" \in DOMAIN starts THEN starts["filtertable"] ELSE 0
  IN [instad |-> starts["instruments"] - 8, wavetbl |-> starts["wavetable"] - 1,
      notetbl |-> starts["wavetable"] + Len(s.wave) - 1,
      songtbllo |-> songs, songtblhi |-> songs + 3 * Len(s.orders),
      patttbllo |-> starts["patterntable"], patttblhi |-> starts["patterntable"] + Len(s.patterns),
      filttbl |-> f]

Operand(r, a, bases) == IF r.tag = "code" THEN r.low - Org + a ELSE bases[r.tag] + r.low

\* The player's bytes: operands relocated, parameters set, its free bytes the state's.
PlayerCode(ref, a, bases, state) ==
  LET words == {r.pos : r \in ref.relocs}
      word(p) == Operand(CHOOSE r \in ref.relocs : r.pos = p, a, bases) % 65536
      values == {p + 1 : p \in Range(ref.params)}
  IN [k \in 1 .. Len(ref.code) |->
        CASE k - 1 \in ref.free -> state[k - 1]
          [] k - 1 \notin ref.free /\ k - 1 \in words -> word(k - 1) % 256
          [] k - 1 \notin ref.free /\ k - 2 \in words -> word(k - 2) \div 256
          [] k - 1 \in values -> Params[CHOOSE i \in DOMAIN ref.params : ref.params[i] + 1 = k - 1]
          [] OTHER -> ref.code[k]]

\* Gt1Song.pack.
PackedTune(ref, a, s, state) ==
  LET starts == SegmentStarts(ref, a, s)
      orders == StartsOf(starts["orderlists"], OrdersOf(s))
      patterns == StartsOf(starts["patterns"], s.patterns)
  IN PlayerCode(ref, a, Bases(ref, starts, s), state)
     \o FlattenSeq([k \in DOMAIN Segments(ref) |-> SegmentBytes(Segments(ref)[k], s, orders, patterns)])

\* The song of a release, whose orderlists may lack a restart.
SongOf1(ref, s) ==
  IF ~ref.endsong THEN s
  ELSE [s EXCEPT !.orders = [n \in DOMAIN s.orders |-> [c \in 1 .. 3 |-> Front(s.orders[n][c])]]]

\* A song is packed behind a playroutine of its form, the memory before it anything.
PackTune ==
  /\ stage = "packed" /\ cursor.pattern = 0
  /\ \E ref \in Range(Players), a \in Addresses :
       /\ ref.family = "11" <=> song.layout = "1.25"
       /\ memory' = [base |-> a - 3,
                     bytes |-> <<76, 0, 32>> \o PackedTune(ref, a, SongOf1(ref, packed),
                                                           [k \in ref.free |-> ref.code[k + 1]])]
       /\ packed' = SongOf1(ref, packed)
       /\ tune' = [name |-> ref.name, address |-> a, free |-> ref.free]
  /\ stage' = "tune" /\ UNCHANGED <<song, file, cursor, heard>>

\* The playroutine ran before the tune was saved, and changed what it may of itself.
PlayTune ==
  /\ stage = "tune"
  /\ \E v \in {0, 255} :
       memory' = [memory EXCEPT !.bytes =
                    [k \in DOMAIN @ |-> IF k - 4 \in tune.free THEN v ELSE @[k]]]
  /\ stage' = "saved" /\ UNCHANGED <<song, file, packed, cursor, heard, tune>>

\* What is loaded ends within the last pattern.
CutTune ==
  /\ stage = "tune"
  /\ \E n \in 1 .. Len(Last(packed.patterns)) - 1 :
       memory' = [memory EXCEPT !.bytes = SubSeq(@, 1, Len(@) - n)]
  /\ stage' = "saved" /\ UNCHANGED <<song, file, packed, cursor, heard, tune>>

-----------------------------------------------------------------------------
(* Finding the player.                                                     *)

\* Each player's bytes that packer and tune leave as they were assembled: <<position, byte>>.
FixedCode ==
  [i \in DOMAIN Players |->
     LET ref == Players[i]
         words == {r.pos : r \in ref.relocs} \cup Range(ref.params)
         wild == words \cup {p + 1 : p \in words} \cup ref.free \cup ref.freq
     IN {<<k, ref.code[k + 1]>> : k \in (0 .. ref.end - 1) \ wild}]

\* _candidates: where those bytes are the player's.
Candidates(i) ==
  LET fixed == FixedCode[i]
  IN {a \in memory.base .. EndOfData - Len(Players[i].code) : \A f \in fixed : Byte(a + f[1]) = f[2]}

\* (mutant) Operands of one table need not agree.
AgreesAnyway(ref, a) == TRUE

\* _match_at: every operand of the code points into it, those of a table agree.
TableAt(r, a) == (Word(a + r.pos) - r.low) % 65536
Agrees(ref, a) ==
  \A r \in ref.relocs :
    IF r.tag # "code" THEN \A q \in ref.relocs : q.tag = r.tag => TableAt(q, a) = TableAt(r, a)
    ELSE IF r.smc THEN Byte(a + r.pos + 1) = (r.low - Org + a) \div 256
    ELSE Word(a + r.pos) = r.low - Org + a

\* _prefer_data_match: of players with the same code, the one with this frequency table.
Preferred(i, a) ==
  LET alike == {j \in DOMAIN Players :
                  FixedCode[j] = FixedCode[i] /\ \A k \in Players[j].freq : Byte(a + k) = Players[j].code[k + 1]}
  IN IF alike = {} THEN i ELSE Min(alike)

\* find_player: the first player that matches somewhere, at its first place.
NoPlayer == [name |-> "none"]
Matches(i) == {a \in Candidates(i) : Agrees(Players[i], a)}
PlayerAt(i, a) == [ref |-> Players[Preferred(i, a)], address |-> a]
FirstPlayer(places) ==
  LET known == {i \in DOMAIN places : places[i] # {}}
  IN IF known = {} THEN [ref |-> NoPlayer, address |-> 0]
     ELSE PlayerAt(Min(known), Min(places[Min(known)]))
FindPlayer == FirstPlayer([i \in DOMAIN Players |-> Matches(i)])

-----------------------------------------------------------------------------
(* Decompiling.                                                            *)

Tables(ref, a) ==
  [t \in {r.tag : r \in ref.relocs} \ {"code"} |-> TableAt(CHOOSE r \in ref.relocs : r.tag = t, a)]

\* Through an orderlist's end mark and its restart, where it has one.
OrderLength(a, ref) ==
  Min({n \in 1 .. EndOfData - a : Byte(a + n - 1) = LOOPSONG}) + IF ref.endsong THEN 0 ELSE 1

\* Through a packed pattern's end mark, a row after the other; cut at the end of the data.
RowLength(b) == IF b < REST_PREFIX THEN 3 ELSE 1
PatternLength(a) ==
  LET at[k \in 0 .. EndOfData - a] ==
        IF k = 0 THEN a
        ELSE LET p == at[k - 1]
             IN IF p >= EndOfData \/ (k > 1 /\ Byte(p) = ENDPATT) THEN p ELSE p + RowLength(Byte(p))
      end == at[EndOfData - a]
  IN IF end < EndOfData THEN end - a + 1 ELSE EndOfData - a

\* decompile_image: where everything begins.
Found(ref, a) ==
  LET t == Tables(ref, a)
      songs == t.songtbllo + ref.bias
      lists == t.songtblhi - t.songtbllo
      patts == t.patttblhi - t.patttbllo
      orderAt == [k \in 1 .. lists |-> Byte(songs + k - 1) + 256 * Byte(songs + lists + k - 1)]
      pattAt == [k \in 1 .. patts |-> Byte(t.patttbllo + k - 1) + 256 * Byte(t.patttbllo + patts + k - 1)]
  IN [instruments |-> t.instad + 8, wave |-> t.wavetbl + 1, rows |-> t.notetbl - t.wavetbl,
      orders |-> orderAt, patterns |-> pattAt,
      filter |-> IF "filttbl" \in DOMAIN t THEN t.filttbl ELSE 0]

\* The tables tile the memory behind the player.
Tiles(at, ref, address) ==
  /\ at.instruments = address + Len(ref.code)
  /\ Len(at.orders) > 0 /\ Len(at.orders) % 3 = 0 /\ Len(at.patterns) > 0
  /\ \A k \in 1 .. Len(at.orders) - 1 : at.orders[k + 1] = at.orders[k] + OrderLength(at.orders[k], ref)
  /\ Last(at.orders) + OrderLength(Last(at.orders), ref) = at.patterns[1]
  /\ \A k \in 1 .. Len(at.patterns) - 1 : at.patterns[k + 1] - at.patterns[k] \in 1 .. 256
  /\ (at.wave - at.instruments) % 8 = 0

SongAt(at, ref) ==
  [layout |-> IF ref.family = "11" THEN "1.25" ELSE "1.53",
   orders |-> [n \in 1 .. Len(at.orders) \div 3 |->
      [c \in 1 .. 3 |-> LET a == at.orders[3 * (n - 1) + c] IN Bytes(a, OrderLength(a, ref))]],
   instruments |-> [k \in 1 .. (at.wave - at.instruments) \div 8 |->
      [params |-> Bytes(at.instruments + 8 * (k - 1), 7), wave |-> Byte(at.instruments + 8 * k - 1)]],
   wave |-> [k \in 1 .. at.rows |-> <<Byte(at.wave + k - 1), Byte(at.wave + at.rows + k - 1)>>],
   patterns |-> [k \in DOMAIN at.patterns |->
      Bytes(at.patterns[k], IF k < Len(at.patterns) THEN at.patterns[k + 1] - at.patterns[k]
                            ELSE PatternLength(at.patterns[k]))],
   filter |-> IF at.filter = 0 THEN <<>> ELSE Bytes(at.filter, at.orders[1] - at.filter)]

TuneAt(at, ref, a) ==
  IF ~Tiles(at, ref, a) THEN NoTune
  ELSE [name |-> ref.name, address |-> a,
        params |-> [i \in DOMAIN ref.params |-> Byte(a + ref.params[i] + 1)],
        state |-> [k \in ref.free |-> Byte(a + k)],
        song |-> SongAt(at, ref), last |-> Last(at.patterns), was |-> tune]
Decompiled(player) ==
  IF player.ref = NoPlayer THEN NoTune
  ELSE TuneAt(Found(player.ref, player.address), player.ref, player.address)

FindTune ==
  /\ stage \in {"tune", "saved"}
  /\ tune' = Decompiled(FindPlayer)
  /\ stage' = "found" /\ UNCHANGED <<song, file, packed, cursor, heard, memory>>

-----------------------------------------------------------------------------
(* The song as operations (gt1typed.py).                                   *)

\* An orderlist byte; only the standard family has repeats and transposes.
EntryOf(b, ref) ==
  CASE b < 208 \/ ref.family = "11" -> <<"pattern", b>>
    [] ref.family # "11" /\ b \in 208 .. 223 -> <<"repeat", b - 208>>
    [] ref.family # "11" /\ b > 223 -> <<"transpose", b - ref.zero>>
EntryByte(e, ref) ==
  CASE e[1] = "pattern" -> e[2] [] e[1] = "repeat" -> 208 + e[2] [] e[1] = "transpose" -> (ref.zero + e[2]) % 256
TypedOrder(o, ref) ==
  LET end == IF ref.endsong THEN <<LOOPSONG>> ELSE <<LOOPSONG, Last(o)>>
  IN [entries |-> [k \in 1 .. Len(o) - Len(end) |-> EntryOf(o[k], ref)], end |-> end]
OrderBytes(o, ref) == [k \in DOMAIN o.entries |-> EntryByte(o.entries[k], ref)] \o o.end

\* A wave row: a jump or stop, else a waveform (none, or a delay where they are) and a note.
WaveRowOf(r, delays) ==
  IF r[1] = LOOPSONG THEN <<IF r[2] = 0 THEN "stop" ELSE "jump", r[2]>>
  ELSE <<"step", CASE r[1] = 0 -> <<"none", 0>>
                   [] r[1] \in 1 .. 7 /\ delays -> <<"delay", r[1]>>
                   [] OTHER -> <<"wave", r[1]>>,
         r[2] % 128, r[2] < 128>>
WavePair(r) ==
  IF r[1] # "step" THEN <<LOOPSONG, r[2]>> ELSE <<r[2][2], r[3] + IF r[4] THEN 0 ELSE 128>>

\* A packed pattern's rows, and the bytes its end or a cut leaves.
TypedRows(p) ==
  LET at[k \in 0 .. Len(p)] == IF k = 0 THEN 1
                               ELSE LET q == at[k - 1]
                                        next == q + RowLength(p[q])
                                    IN IF q > Len(p) \/ (k > 1 /\ p[q] = ENDPATT) THEN q
                                       ELSE IF next - 1 > Len(p) THEN q ELSE next
      n == Cardinality({k \in 1 .. Len(p) : at[k] # at[k - 1]})
      row(a) == CASE p[a] < REST_PREFIX ->
                       [note |-> p[a], instrument |-> p[a + 1] \div 8, command |-> <<p[a + 1] % 8, p[a + 2]>>,
                        length |-> 1]
                  [] p[a] \in REST_PREFIX .. PACKEDREST - 1 ->
                       [note |-> p[a] - REST_PREFIX, instrument |-> 0, command |-> <<>>, length |-> 1]
                  [] OTHER -> [note |-> RESTNOTE, instrument |-> 0, command |-> <<>>, length |-> 256 - p[a]]
  IN [rows |-> [k \in 1 .. n |-> row(at[k - 1])], end |-> SubSeq(p, at[n], Len(p))]

PackedRowBytes(r) ==
  CASE r.length > 1 -> <<256 - r.length>>
    [] r.length = 1 /\ r.command = <<>> -> <<REST_PREFIX + r.note>>
    [] r.length = 1 /\ r.command # <<>> -> <<r.note, r.instrument * 8 + r.command[1], r.command[2]>>
PackedPatternBytes(p) == FlattenSeq([k \in DOMAIN p.rows |-> PackedRowBytes(p.rows[k])]) \o p.end

\* from_song and to_song.
Typed(s, ref) ==
  [orders |-> [n \in DOMAIN s.orders |-> [c \in 1 .. 3 |-> TypedOrder(s.orders[n][c], ref)]],
   wave |-> [k \in DOMAIN s.wave |-> WaveRowOf(s.wave[k], ref.family = "1.5")],
   patterns |-> [k \in DOMAIN s.patterns |-> TypedRows(s.patterns[k])]]
Stored(s, t, ref) ==
  [s EXCEPT !.orders = [n \in DOMAIN t.orders |-> [c \in 1 .. 3 |-> OrderBytes(t.orders[n][c], ref)]],
            !.wave = [k \in DOMAIN t.wave |-> WavePair(t.wave[k])],
            !.patterns = [k \in DOMAIN t.patterns |-> PackedPatternBytes(t.patterns[k])]]

-----------------------------------------------------------------------------
(* The life of a song.                                                     *)

vars == <<editorVars, relocatorVars, imageVars>>

Init ==
  /\ song \in Songs /\ file = <<>> /\ stage = "edited"
  /\ packed = <<>> /\ cursor = NoCursor /\ heard = <<>>
  /\ memory = [base |-> 0, bytes |-> <<>>] /\ tune = NoTune

Next ==
  \/ (WriteGts1 \/ CutFile \/ ReadGts1 \/ EditOn) /\ UNCHANGED <<relocatorVars, imageVars>>
  \/ (Relocate \/ EnterPattern \/ ReadPackedRow) /\ UNCHANGED imageVars
  \/ PackTune \/ PlayTune \/ CutTune \/ FindTune

Spec == Init /\ [][Next]_vars

-----------------------------------------------------------------------------
(* Properties.                                                             *)

\* The tune found is the one packed: its player, address, state and song, its last pattern
\* cut where the load was; as operations it stores the same bytes, and with the state it was
\* saved in it packs to the same memory (decompile_image, Gt1TypedSong.to_song, pack).
Decompiles ==
  stage = "found" =>
    /\ tune # NoTune
    /\ tune.name = tune.was.name /\ tune.address = tune.was.address
    /\ LET n == Len(packed.patterns)
           left == Len(tune.song.patterns[n])
       IN /\ left <= Len(packed.patterns[n])
          /\ tune.song = [packed EXCEPT !.patterns[n] = SubSeq(@, 1, left)]
          /\ EndOfData = tune.last + left
    /\ LET ref == CHOOSE r \in Range(Players) : r.name = tune.name
       IN /\ Stored(tune.song, Typed(tune.song, ref), ref) = tune.song
          /\ PackedTune(ref, tune.address, tune.song, tune.state) = SubSeq(memory.bytes, 4, Len(memory.bytes))

=============================================================================
