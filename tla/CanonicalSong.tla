---------------------------- MODULE CanonicalSong ----------------------------
(***************************************************************************)
(* The canonical form of a song (canonical.py): what its orderlists reach, *)
(* table rows merged that play alike, everything renumbered by first use.  *)
(* Two tunes have one text when they play the same programs: here a song   *)
(* is rearranged as another packer would, printed, and the text loaded.    *)
(*                                                                         *)
(* A song is [orders, patterns, instruments, wave, pulse, filter, speed]:  *)
(* an orderlist [entries, restart], a pattern of rows [note, instrument,   *)
(* command], an instrument [ad, wave, pulse, filter, vibrato, delay], the  *)
(* tables <<left, right>> rows, positions from 1 and 0 for none. Tuning,   *)
(* names, the simple pulse and the playback lines are left out.            *)
(***************************************************************************)
EXTENDS TableRows, SequencesExt

CONSTANTS
  Songs,
  TableSize,    \* rows an executor's pointer tells apart: 256 in the code
  MaxEdits      \* times a song is rearranged (bounds the runs)

ASSUME TableSizeAssumption == TableSize \in 2 .. 256

VARIABLES
  song,      \* the song at hand
  edits,     \* times it was rearranged
  stage,     \* "song", "reached", "merged", "kept", "ordered", "printed"
  nodes,     \* of each table, the nodes the song reaches
  progs,     \* of each table, its program: the classes its nodes are merged to
  kept,      \* the patterns and instruments that stay, and their new numbers
  orders,    \* of each table, its classes in the order they are laid out
  text,      \* the canonical song, or Refused
  heard,     \* history: what the song it all began with plays
  texts      \* history: the texts printed

workVars == <<nodes, progs, kept, orders>>
vars == <<song, edits, stage, workVars, text, heard, texts>>

Nothing == <<>>
Refused == [refused |-> TRUE]

Kinds == <<"wave", "pulse", "filter">>
PointerCommand == ("wave pointer" :> "wave") @@ ("pulse pointer" :> "pulse") @@ ("filter pointer" :> "filter")
SPEED_COMMANDS == {"portamento up", "portamento down", "tone portamento", "vibrato", "funktempo"}
SONG_STOPS == {"nothing", "wave pointer", "funktempo"}

AllPointers == 0 .. TableSize - 1
Numbers(n) == [k \in 1 .. n |-> k]
Distinct(seq) == FoldLeft(LAMBDA out, x : IF x \in Range(out) THEN out ELSE Append(out, x), <<>>, seq)
IndexIn(seq, x) == CHOOSE k \in DOMAIN seq : seq[k] = x

-----------------------------------------------------------------------------
(* A table as the executor walks it (_Table). A node is a row's number, or *)
(* TableSize more for a pointer set onto a jump row, which stops the song. *)

At(s, kind, p) ==
  LET k == ((p - 1) % TableSize) + 1 IN IF k \in DOMAIN s[kind] THEN s[kind][k] ELSE <<0, 0>>

IsJump(s, kind, p) == At(s, kind, p)[1] = TABLEJUMP

\* entry: the node a pointer starts, 0 for none.
Entry(s, kind, p) == IF p # 0 /\ IsJump(s, kind, p) THEN TableSize + p ELSE p

\* resolve: the row run after advancing to p, 0 for none.
Resolve(s, kind, p) == IF IsJump(s, kind, p) THEN At(s, kind, p)[2] ELSE p

\* A filter set runs the cutoff row right after it in the same call.
Takes(s, n) == At(s, "filter", n)[1] >= 128 /\ At(s, "filter", n + 1)[1] = 0

\* step: the rows a node runs.
RowsAt(s, kind, n) ==
  LET e == At(s, kind, n % TableSize)
      stops == kind = "wave" /\ WaveRow(e[1], e[2]).op = "command"
               /\ WaveRow(e[1], e[2]).args[1].op \in SONG_STOPS
  IN CASE n > TableSize -> <<Jump(IF kind = "wave" THEN e[2] ELSE 0)>>
       [] n < TableSize /\ kind = "wave" ->
            <<IF stops THEN Op("command", <<Op("nothing", <<0>>)>>) ELSE WaveRow(e[1], e[2])>>
       [] n < TableSize /\ kind = "pulse" ->
            <<IF e[1] >= 128 THEN Op("set", <<256 * (e[1] % 16) + e[2]>>) ELSE PulseRow(e[1], e[2], FALSE)>>
       [] n < TableSize /\ kind = "filter" ->
            <<IF e[1] >= 128 THEN Op("set", <<16 * ((e[1] \div 16) % 8), e[2] \div 16, e[2] % 16>>)
              ELSE FilterRow(e[1], e[2])>>
            \o IF Takes(s, n) THEN <<FilterRow(0, At(s, kind, n + 1)[2])>> ELSE <<>>

\* step: the node after it, 0 for none.
Succ(s, kind, n) ==
  IF n > TableSize /\ kind # "wave" THEN At(s, kind, n - TableSize)[2]
  ELSE Resolve(s, kind, ((n % TableSize) + Len(RowsAt(s, kind, n))) % TableSize)

\* graph: the nodes the entries reach; land refuses a jump that leads to a jump row.
Reached(s, kind, entries) ==
  FoldLeft(LAMBDA found, k : found \cup ({Succ(s, kind, n) : n \in found} \ {0}),
           entries \ {0}, Numbers(TableSize))
LandsOnJump(s, kind, p) == p # 0 /\ IsJump(s, kind, p)
Walkable(s, kind, found) ==
  \A n \in found :
    /\ ~LandsOnJump(s, kind, Succ(s, kind, n))
    /\ n > TableSize => ~LandsOnJump(s, kind, At(s, kind, n - TableSize)[2])

-----------------------------------------------------------------------------
(* References. refs is a function for every kind and for "speed".          *)

\* _command.
Mapped(c, refs) ==
  CASE c.op = "nothing" -> Op("nothing", <<0>>)
    [] c.op \in DOMAIN PointerCommand -> Op(c.op, <<refs[PointerCommand[c.op]][c.args[1]]>>)
    [] c.op \in SPEED_COMMANDS -> Op(c.op, <<refs["speed"][c.args[1]]>>)
    [] OTHER -> c

MappedRows(rows, refs) ==
  <<>> \o [k \in DOMAIN rows |-> IF rows[k].op = "command"
                               THEN Op("command", <<Mapped(rows[k].args[1], refs)>>) ELSE rows[k]]

\* _instrument: the vibrato speed counts only with a delay.
MappedInstrument(i, refs) ==
  [i EXCEPT !.wave = refs["wave"][@], !.pulse = refs["pulse"][@], !.filter = refs["filter"][@],
            !.vibrato = refs["speed"][IF i.delay = 0 THEN 0 ELSE @]]

\* What commands point to, of a kind of table; and the commands of rows.
Args(commands) == [k \in DOMAIN commands |-> commands[k].args[1]]
PointersOf(commands, kind) ==
  Args(SelectSeq(commands, LAMBDA c : c.op \in DOMAIN PointerCommand /\ PointerCommand[c.op] = kind))
SpeedsOf(commands) == Args(SelectSeq(commands, LAMBDA c : c.op \in SPEED_COMMANDS))

TableBytes(kind, rows) ==
  <<>> \o [k \in DOMAIN rows |->
     CASE kind = "wave" -> WaveBytes(rows[k]) [] kind = "pulse" -> PulseBytes(rows[k])
       [] kind = "filter" -> FilterBytes(rows[k])]

RowCommands(rows) == [k \in DOMAIN rows |-> rows[k].command]
WaveCommands(rows) == Args(SelectSeq(rows, LAMBDA r : r.op = "command"))

-----------------------------------------------------------------------------
(* One table's nodes merged and laid out (_Program). A class is its least  *)
(* node.                                                                   *)

\* minimise: nodes that run the same rows for ever are one class.
After(cls, m) == IF m = 0 THEN 0 ELSE cls[m]
Split(cls, s, kind, found, labels) ==
  <<>> \o [n \in DOMAIN cls |-> IF n \notin found THEN 0
            ELSE Min({m \in found : /\ labels[m] = labels[n] /\ cls[m] = cls[n]
                                    /\ After(cls, Succ(s, kind, m)) = After(cls, Succ(s, kind, n))})]
Classes(s, kind, found, labels) ==
  FoldLeft(LAMBDA cls, k : Split(cls, s, kind, found, labels),
           <<>> \o [n \in 1 .. 2 * TableSize |-> 0], Numbers(Cardinality(found) + 1))
Labels(s, kind, found, refs) ==
  <<>> \o [n \in 1 .. 2 * TableSize |-> IF n \in found THEN MappedRows(RowsAt(s, kind, n), refs) ELSE <<>>]

\* The class a pointer starts, a class's rows and the class after it.
ProgramOf(s, kind, found, cls) ==
  [kind |-> kind,
   of |-> [p \in AllPointers |-> IF Entry(s, kind, p) \in found THEN cls[Entry(s, kind, p)] ELSE 0],
   rows |-> [n \in found |-> RowsAt(s, kind, n)],
   after |-> [n \in found |-> After(cls, Succ(s, kind, n))]]
Program(s, kind, found, refs) ==
  ProgramOf(s, kind, found, Classes(s, kind, found, Labels(s, kind, found, refs)))

\* (mutant) Classes are numbered by where they stand.
NumberByPlace(entries, after) ==
  SelectSeq(Numbers(2 * TableSize),
            LAMBDA c : c \in Range(entries) \/ \E b \in DOMAIN after : after[b] = c)

\* number_chains: each entry, then what follows it, where not numbered before.
NumberChains(entries, after) ==
  LET chain(c) == FoldLeft(LAMBDA path, k : IF after[Last(path)] = 0 THEN path ELSE Append(path, after[Last(path)]),
                           <<c>>, Numbers(2 * TableSize))
  IN FoldLeft(LAMBDA order, c : Distinct(order \o chain(c)), <<>>, entries)

\* _is_jump: a pulse or filter pointer onto a jump row is laid out as that jump.
LaidAsJump(p, c) == p.kind # "wave" /\ p.rows[c] = <<Jump(0)>>

\* (mutant) A filter set may be followed by a cutoff it does not take.
TrailerWhereFar(p, order, k) ==
  LET next == p.after[order[k]]
  IN ~LaidAsJump(p, order[k]) /\ (next = 0 \/ k = Len(order) \/ order[k + 1] # next)

\* _trailer: a jump or stop row follows, unless the successor comes next and is no cutoff
\* that the filter set before it would take.
Trailer(p, order, k) ==
  LET c == order[k]
      next == p.after[c]
  IN /\ ~LaidAsJump(p, c)
     /\ \/ next = 0 \/ k = Len(order) \/ order[k + 1] # next
        \/ p.kind = "filter" /\ Last(p.rows[c]).op = "set" /\ p.rows[next][1].op = "cutoff"

\* number: where each class of the order is laid out.
Places(p, order) ==
  LET size(k) == Len(p.rows[order[k]]) + IF Trailer(p, order, k) THEN 1 ELSE 0
  IN FoldLeft(LAMBDA at, k : Append(at, Last(at) + size(k)), <<1>>, Numbers(Len(order)))

\* render: the rows laid out, their references mapped.
Laid(p, order, at, refs, k) ==
  LET c == order[k]
      next == p.after[c]
      target == <<Jump(IF next = 0 THEN 0 ELSE at[IndexIn(order, next)])>>
  IN IF LaidAsJump(p, c) THEN target
     ELSE MappedRows(p.rows[c], refs) \o IF Trailer(p, order, k) THEN target ELSE <<>>
Rendered(p, order, at, refs) ==
  FoldLeft(LAMBDA out, k : out \o Laid(p, order, at, refs, k), <<>>, Numbers(Len(order)))

-----------------------------------------------------------------------------
(* The song (canonical_song).                                              *)

Played(s) ==
  FlattenSeq([c \in DOMAIN s.orders |->
    Args(SelectSeq(s.orders[c].entries, LAMBDA e : e.op = "pattern"))])
InstrumentsIn(rows) ==
  LET named == SelectSeq(rows, LAMBDA r : r.instrument # 0) IN [k \in DOMAIN named |-> named[k].instrument]

\* What the song reaches: instruments, commands, and each table's nodes.
PlayedRows(s) == UNION {Range(s.patterns[n + 1]) : n \in Range(Played(s))}
Used(s) == {1} \cup ({r.instrument : r \in PlayedRows(s)} \ {0})
Pointers(s, kind) ==
  {s.instruments[i][kind] : i \in Used(s)}
  \cup {r.command.args[1] : r \in {q \in PlayedRows(s) :
           q.command.op \in DOMAIN PointerCommand /\ PointerCommand[q.command.op] = kind}}
ReachedFrom(s, kind, pointers) == Reached(s, kind, {Entry(s, kind, p) : p \in pointers})
NodesWith(s, wave) ==
  [wave |-> wave]
  @@ [kind \in {"pulse", "filter"} |->
        ReachedFrom(s, kind, Pointers(s, kind)
          \cup UNION {Range(PointersOf(WaveCommands(RowsAt(s, "wave", n)), kind)) : n \in wave})]

\* Rows of the speed table by what they hold.
SpeedKey(s, v) == IF v = 0 THEN 0 ELSE 1 + (256 * At(s, "speed", v)[1]) + At(s, "speed", v)[2]
SpeedKeys(s) == [v \in AllPointers |-> SpeedKey(s, v)]
NoRefs == [wave |-> [p \in AllPointers |-> p]]
ByClass(s, programs) == [kind \in DOMAIN programs |-> programs[kind].of] @@ [speed |-> SpeedKeys(s)]

WithWave(s, found, plain) ==
  plain @@ [wave |-> Program(s, "wave", found["wave"], ByClass(s, plain))]

\* Equal instruments and equal patterns are one, the first of them.
InstrumentKeys(s, refs) == [n \in Used(s) |-> MappedInstrument(s.instruments[n], refs)]
RowKey(r, refs, insKey) ==
  [note |-> r.note, command |-> Mapped(r.command, refs),
   instrument |-> IF r.instrument = 0 THEN <<>> ELSE <<insKey[r.instrument]>>]
PatternKeys(s, refs, insKey) ==
  [n \in Range(Played(s)) |-> <<>> \o [k \in DOMAIN s.patterns[n + 1] |-> RowKey(s.patterns[n + 1][k], refs, insKey)]]

\* Of the numbers, those whose key is new; and the place of a number's key among them.
FirstOf(numbers, key) ==
  FoldLeft(LAMBDA out, n : IF \E m \in Range(out) : key[m] = key[n] THEN out ELSE Append(out, n), <<>>, numbers)
PlaceOf(first, key, n) == CHOOSE k \in DOMAIN first : key[first[k]] = key[n]

PatternRows(s, patts) == FlattenSeq([k \in DOMAIN patts |-> s.patterns[patts[k] + 1]])
KeptWith(s, insKey, pattKey, patts, ins) ==
  [patts |-> patts, ins |-> ins,
   pattern |-> [n \in DOMAIN pattKey |-> PlaceOf(patts, pattKey, n) - 1],
   instrument |-> [n \in Used(s) |-> PlaceOf(ins, insKey, n)] @@ (0 :> 0)]
KeptPatterns(s, insKey, pattKey, patts) ==
  KeptWith(s, insKey, pattKey, patts, FirstOf(<<1>> \o InstrumentsIn(PatternRows(s, patts)), insKey))
KeptByKey(s, insKey, pattKey) == KeptPatterns(s, insKey, pattKey, FirstOf(Played(s), pattKey))
Kept(s, refs, insKey) == KeptByKey(s, insKey, PatternKeys(s, refs, insKey))

\* Classes by first use: by instruments, pattern rows, then wave commands.
Starts(s, p, k, commands) ==
  LET pointers == [n \in DOMAIN k.ins |-> s.instruments[k.ins[n]][p.kind]] \o PointersOf(commands, p.kind)
  IN SelectSeq([n \in DOMAIN pointers |-> p.of[pointers[n]]], LAMBDA c : c # 0)
CommandsOf(s, k) == RowCommands(PatternRows(s, k.patts))
CommandsIn(p, order) == WaveCommands(FlattenSeq([n \in DOMAIN order |-> p.rows[order[n]]]))
OrdersWith(s, wave) ==
  [wave |-> wave]
  @@ [kind \in {"pulse", "filter"} |->
        NumberChains(Starts(s, progs[kind], kept, CommandsOf(s, kept) \o CommandsIn(progs["wave"], wave)),
                     progs[kind].after)]

\* Speed rows by first use: by vibratos, wave commands, then pattern rows.
SpeedsUsed(s) ==
  LET vibratos == SelectSeq([n \in DOMAIN kept.ins |-> s.instruments[kept.ins[n]]], LAMBDA i : i.delay # 0)
      used == [n \in DOMAIN vibratos |-> vibratos[n].vibrato]
              \o SpeedsOf(CommandsIn(progs["wave"], orders["wave"]) \o CommandsOf(s, kept))
  IN FirstOf(SelectSeq(used, LAMBDA v : v # 0), SpeedKeys(s))

PlacesOf == [kind \in Range(Kinds) |-> Places(progs[kind], orders[kind])]
Numbered(at) ==
  [kind \in Range(Kinds) |->
     [p \in AllPointers |->
        LET c == progs[kind].of[p] IN IF c = 0 THEN 0 ELSE at[kind][IndexIn(orders[kind], c)]]]
SpeedNumbers(s, speeds) ==
  [v \in AllPointers |-> IF v # 0 /\ \E n \in Range(speeds) : SpeedKey(s, n) = SpeedKey(s, v)
                         THEN PlaceOf(speeds, SpeedKeys(s), v) ELSE 0]

TextWith(s, at, refs, speeds) ==
  [orders |-> [c \in DOMAIN s.orders |->
     [s.orders[c] EXCEPT !.entries =
        [k \in DOMAIN @ |-> IF @[k].op = "pattern" THEN Op("pattern", <<kept.pattern[@[k].args[1]]>>) ELSE @[k]]]],
   patterns |-> [k \in DOMAIN kept.patts |-> LET p == s.patterns[kept.patts[k] + 1] IN
     [j \in DOMAIN p |-> [note |-> p[j].note, instrument |-> kept.instrument[p[j].instrument],
                          command |-> Mapped(p[j].command, refs)]]],
   instruments |-> [k \in DOMAIN kept.ins |-> MappedInstrument(s.instruments[kept.ins[k]], refs)],
   speed |-> [k \in DOMAIN speeds |-> At(s, "speed", speeds[k])]]
  @@ [kind \in Range(Kinds) |->
        TableBytes(kind, Rendered(progs[kind], orders[kind], at[kind], refs))]
TextAt(s, at, speeds) == TextWith(s, at, Numbered(at) @@ [speed |-> SpeedNumbers(s, speeds)], speeds)

-----------------------------------------------------------------------------
(* The same song, packed otherwise.                                        *)

\* References of a kind renumbered by by, a function of pointers.
Moved(s, kind, by) ==
  LET refs == [k \in Range(Kinds) \cup {"speed"} |->
                 IF k = kind THEN by ELSE [p \in 0 .. 255 |-> p]]
      command(c) == IF c.op = "nothing" THEN c ELSE Mapped(c, refs)
      row(e) == LET r == WaveRow(e[1], e[2])
                IN IF r.op = "command" THEN WaveBytes(Op("command", <<command(r.args[1])>>)) ELSE e
      jumps(t, k) == [n \in DOMAIN t |-> IF t[n][1] = TABLEJUMP THEN <<TABLEJUMP, refs[k][t[n][2]]>> ELSE t[n]]
  IN [s EXCEPT
        !.wave = [n \in DOMAIN @ |-> row(jumps(@, "wave")[n])],
        !.pulse = jumps(@, "pulse"), !.filter = jumps(@, "filter"),
        !.instruments = [n \in DOMAIN @ |->
           [@[n] EXCEPT !.wave = refs["wave"][@], !.pulse = refs["pulse"][@],
                        !.filter = refs["filter"][@], !.vibrato = refs["speed"][@]]],
        !.patterns = [n \in DOMAIN @ |->
           [k \in DOMAIN @[n] |-> [@[n][k] EXCEPT !.command = command(@)]]]]

Ends(s, kind) == s[kind] # <<>> /\ Last(s[kind])[1] = TABLEJUMP
Room(s, kind, n) == Len(s[kind]) + n < TableSize

\* A row nothing runs stands before row k, where no row leads on to k.
WithDeadRow(s, kind, k) ==
  LET by == [p \in 0 .. 255 |-> IF p >= k THEN p + 1 ELSE p]
      t == Moved(s, kind, by)
  IN [t EXCEPT ![kind] = InsertAt(@, k, <<0, 9>>)]

\* A table stands twice; instrument i runs the copy, which goes round in itself or leads back.
WithCopy(s, kind, i, back) ==
  LET t == s[kind]
      n == Len(t)
      copy == [k \in DOMAIN t |->
                 IF t[k][1] = TABLEJUMP /\ t[k][2] # 0 /\ ~back THEN <<TABLEJUMP, t[k][2] + n>> ELSE t[k]]
  IN [s EXCEPT ![kind] = t \o copy,
               !.instruments = [@ EXCEPT ![i] = [@ EXCEPT ![kind] = IF @ = 0 THEN 0 ELSE @ + n]]]

Swap(seq, i, j) == [k \in DOMAIN seq |-> IF k = i THEN seq[j] ELSE IF k = j THEN seq[i] ELSE seq[k]]
SwapNumber(n, i, j) == IF n = i THEN j ELSE IF n = j THEN i ELSE n

WithInstruments(s, i, j) ==
  [s EXCEPT !.instruments = Swap(@, i, j),
            !.patterns = [n \in DOMAIN @ |->
               [k \in DOMAIN @[n] |-> [@[n][k] EXCEPT !.instrument = SwapNumber(@, i, j)]]]]

WithPatterns(s, i, j) ==
  [s EXCEPT !.patterns = Swap(@, i, j),
            !.orders = [c \in DOMAIN @ |-> [@[c] EXCEPT !.entries =
               [k \in DOMAIN @ |-> IF @[k].op = "pattern"
                                   THEN Op("pattern", <<SwapNumber(@[k].args[1] + 1, i, j) - 1>>) ELSE @[k]]]]]

WithSpeeds(s, i, j) ==
  [Moved(s, "speed", [p \in 0 .. 255 |-> SwapNumber(p, i, j)]) EXCEPT !.speed = Swap(@, i, j)]

Rearranged(s) ==
  UNION {{WithDeadRow(s, kind, k) : k \in {k \in DOMAIN s[kind] : k = 1 \/ s[kind][k - 1][1] = TABLEJUMP}} :
           kind \in {q \in Range(Kinds) : Ends(s, q) /\ Room(s, q, 1)}}
  \cup UNION {{WithCopy(s, kind, i, back) : i \in DOMAIN s.instruments, back \in BOOLEAN} :
           kind \in {q \in Range(Kinds) : Ends(s, q) /\ Room(s, q, Len(s[q]))}}
  \cup {WithInstruments(s, i, j) : i, j \in 2 .. Len(s.instruments)}
  \cup {WithPatterns(s, i, j) : i, j \in DOMAIN s.patterns}
  \cup {WithSpeeds(s, i, j) : i, j \in DOMAIN s.speed}

-----------------------------------------------------------------------------
(* What a song plays, by its tables' bytes.                                *)

Calls == 2 * TableSize

\* A program's calls from a pointer; a set filter goes on to the cutoff after it.
HeardPlain(s, kind, p) ==
  LET after(q) == IF At(s, kind, q)[1] = TABLEJUMP THEN At(s, kind, q)[2] ELSE q
      long(q) == kind = "filter" /\ At(s, kind, q)[1] >= 128 /\ At(s, kind, q + 1)[1] = 0
      call(q) == IF long(q) THEN <<At(s, kind, q), At(s, kind, q + 1)>>
                 ELSE IF kind = "pulse" /\ At(s, kind, q)[1] >= 128
                 THEN <<<<At(s, kind, q)[1] % 16, At(s, kind, q)[2]>>, <<>>>> ELSE <<At(s, kind, q)>>
      run(h, k) == IF h.at = 0 THEN h
                   ELSE [at |-> after((h.at + IF long(h.at) THEN 2 ELSE 1) % TableSize),
                         heard |-> Append(h.heard, call(h.at))]
  IN IF p = 0 THEN <<>>
     ELSE IF IsJump(s, kind, p) THEN <<<<"stops">>>>
     ELSE FoldLeft(run, [at |-> p, heard |-> <<>>], Numbers(Calls)).heard

HeardCommand(s, c) ==
  CASE c.op = "nothing" -> <<c.op>>
    [] c.op \in {"pulse pointer", "filter pointer"} -> <<c.op, HeardPlain(s, PointerCommand[c.op], c.args[1])>>
    [] c.op \in SPEED_COMMANDS -> <<c.op, SpeedKey(s, c.args[1])>>
    [] OTHER -> <<c.op, c.args>>

\* A wave program's calls; a command that stops the song is its last.
HeardWave(s, p) ==
  LET after(q) == Resolve(s, "wave", (q + 1) % TableSize)
      row(q) == WaveRow(At(s, "wave", q)[1], At(s, "wave", q)[2])
      ends(q) == row(q).op = "command" /\ row(q).args[1].op \in SONG_STOPS
      call(q) == CASE ends(q) -> <<"stops">>
                   [] row(q).op = "command" /\ ~ends(q) -> <<"command", HeardCommand(s, row(q).args[1])>>
                   [] OTHER -> <<"step", At(s, "wave", q), 0>>
      run(h, k) == IF h.at = 0 THEN h
                   ELSE [at |-> IF ends(h.at) THEN 0 ELSE after(h.at), heard |-> Append(h.heard, call(h.at))]
  IN IF p = 0 THEN <<>>
     ELSE IF IsJump(s, "wave", p) THEN <<<<"stops">>>>
     ELSE FoldLeft(run, [at |-> p, heard |-> <<>>], Numbers(Calls)).heard

HeardInstrument(s, i) ==
  LET ins == s.instruments[i]
  IN <<ins.ad, ins.delay, IF ins.delay = 0 THEN 0 ELSE SpeedKey(s, ins.vibrato),
       HeardWave(s, ins.wave), HeardPlain(s, "pulse", ins.pulse), HeardPlain(s, "filter", ins.filter)>>

HeardRow(s, r) ==
  <<r.note, IF r.instrument = 0 THEN <<>> ELSE HeardInstrument(s, r.instrument),
    IF r.command.op = "wave pointer" THEN <<r.command.op, HeardWave(s, r.command.args[1])>>
    ELSE HeardCommand(s, r.command)>>

HeardSong(s) ==
  <<HeardInstrument(s, 1),
    [c \in DOMAIN s.orders |->
       <<s.orders[c].restart,
         [k \in DOMAIN s.orders[c].entries |->
            LET e == s.orders[c].entries[k]
            IN IF e.op # "pattern" THEN <<e.op, e.args>>
               ELSE <<e.op, [j \in DOMAIN s.patterns[e.args[1] + 1] |-> HeardRow(s, s.patterns[e.args[1] + 1][j])]>>]>>]>>

-----------------------------------------------------------------------------
(* Steps.                                                                  *)

Init ==
  /\ song \in Songs /\ edits = 0 /\ stage = "song"
  /\ nodes = Nothing /\ progs = Nothing /\ kept = Nothing /\ orders = Nothing /\ text = Nothing
  /\ heard = HeardSong(song) /\ texts = {}

Printed(t) == text' = t /\ texts' = texts \cup {t} /\ stage' = "printed"

\* The nodes reached, or one that no row states.
Reach ==
  /\ stage = "song" /\ stage' = "reached"
  /\ nodes' = NodesWith(song, ReachedFrom(song, "wave", Pointers(song, "wave")))
  /\ UNCHANGED <<song, edits, progs, kept, orders, text, heard, texts>>

Refuse ==
  /\ stage = "reached" /\ \E kind \in Range(Kinds) : ~Walkable(song, kind, nodes[kind])
  /\ Printed(Refused)
  /\ UNCHANGED <<song, edits, workVars, heard>>

\* Pulse and filter programs, then wave programs, whose rows name theirs.
Merge ==
  /\ stage = "reached" /\ \A kind \in Range(Kinds) : Walkable(song, kind, nodes[kind])
  /\ stage' = "merged"
  /\ progs' = WithWave(song, nodes, [pulse |-> Program(song, "pulse", nodes["pulse"], NoRefs),
                                     filter |-> Program(song, "filter", nodes["filter"], NoRefs)])
  /\ UNCHANGED <<song, edits, nodes, kept, orders, text, heard, texts>>

Keep ==
  /\ stage = "merged" /\ stage' = "kept"
  /\ kept' = Kept(song, ByClass(song, progs), InstrumentKeys(song, ByClass(song, progs)))
  /\ UNCHANGED <<song, edits, nodes, progs, orders, text, heard, texts>>

Order ==
  /\ stage = "kept" /\ stage' = "ordered"
  /\ orders' = OrdersWith(song, NumberChains(Starts(song, progs["wave"], kept, CommandsOf(song, kept)),
                                             progs["wave"].after))
  /\ UNCHANGED <<song, edits, nodes, progs, kept, text, heard, texts>>

PrintText ==
  /\ stage = "ordered"
  /\ Printed(TextAt(song, PlacesOf, SpeedsUsed(song)))
  /\ UNCHANGED <<song, edits, workVars, heard>>

TakeUp(s) ==
  /\ song' = s /\ stage' = "song" /\ text' = Nothing
  /\ nodes' = Nothing /\ progs' = Nothing /\ kept' = Nothing /\ orders' = Nothing
  /\ UNCHANGED <<heard, texts>>

Rearrange ==
  /\ stage = "printed" /\ text # Refused
  /\ edits < MaxEdits /\ edits' = edits + 1
  /\ \E s \in Rearranged(song) \ {song} : TakeUp(s)

\* The text is read as a song (text.loads), if its tables have room.
LoadText ==
  /\ stage = "printed" /\ text # Refused /\ song # text
  /\ \A kind \in Range(Kinds) : Len(text[kind]) < TableSize
  /\ TakeUp(text) /\ UNCHANGED edits

Next == Reach \/ Refuse \/ Merge \/ Keep \/ Order \/ PrintText \/ Rearrange \/ LoadText

Spec == Init /\ [][Next]_vars

-----------------------------------------------------------------------------
(* Properties.                                                             *)

\* However often a song was packed otherwise, printed and loaded, it plays what it played at
\* first, row for row and call for call (canonical_song's docstring).
TextPlays == stage = "song" => HeardSong(song) = heard

\* Songs that play the same programs have one text (grammar.md, Canonical text).
OneText == Cardinality(texts) <= 1

=============================================================================
