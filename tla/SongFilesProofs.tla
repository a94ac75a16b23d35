--------------------------- MODULE SongFilesProofs ---------------------------
(***************************************************************************)
(* What is proved of SongFiles, for every set of songs of bytes and every  *)
(* length of name and table: speed table pointers stay good in the import, *)
(* an old song within the formats' limits becomes one the writer takes,    *)
(* and a song that is written is the song that is read.                    *)
(***************************************************************************)
EXTENDS SongFiles, RecursionProofs

Pair == Nat \X Nat
Modes == {"vibrato", "fine vibrato", "funktempo", "portamento"}

\* Old songs as they are read: rows and table steps are bytes.
OldSongOK(o) ==
  \/ o.format = "none"
  \/ /\ o.format = "GTS!"
     /\ o.patterns \in Seq(Seq(Byte \X Byte \X Byte))
     /\ o.filter \in Seq(Byte \X Byte \X Byte \X Byte) /\ 1 \in DOMAIN o.filter
  \/ /\ o.format = "GTS2"
     /\ o.patterns \in Seq(Seq(Byte \X Byte \X Byte \X Byte))
     /\ Len(o.instruments) \in Nat \ {0}
     /\ \A k \in 1 .. Len(o.instruments) : o.instruments[k].vibrato \in Byte

OldSongsOK == \A o \in OldSongs : OldSongOK(o)

TableOK(table) == table \in Seq(Pair) /\ Len(table) <= TableMax

\* An entry given out is still there. Its row is not the zero row, the only one
\* that is ever overwritten.
Kept(table, a) ==
  /\ a.row # <<0, 0>>
  /\ IF a.ptr = 0 THEN Room(table) = 0
     ELSE a.ptr \in DOMAIN table /\ table[a.ptr] = a.row

\* The patterns' rows, from the place a on, have parameters as they were read.
Ahead(p, r, a) == p > a[1] \/ (p = a[1] /\ r >= a[2])

RowsOK(pats) == DOMAIN pats \subseteq Nat /\ \A p \in DOMAIN pats : DOMAIN pats[p] \subseteq Nat

ParametersOK(pats, a) ==
  \A p \in DOMAIN pats : \A r \in DOMAIN pats[p] : Ahead(p, r, a) => pats[p][r][4] \in Nat

\* What holds of the speed table, and of the rows that will yet ask for an entry.
IInv ==
  /\ old \in OldSongs
  /\ TableOK(speed) /\ \A a \in asked : Kept(speed, a)
  /\ stage \in {"patterns", "filter"} => old.format = "GTS!"
  /\ stage = "instruments" => at \in Nat \ {0}
  /\ stage = "instruments" /\ old.format = "GTS2" => at <= Len(old.instruments)
  /\ stage = "filter" => RowsOK(patterns) /\ ParametersOK(patterns, <<1, 1, 0>>)
  /\ stage = "fix" => /\ at[1] \in Nat /\ at[2] \in Nat
                      /\ RowsOK(patterns) /\ ParametersOK(patterns, at)

-----------------------------------------------------------------------------
(* The speed table.                                                        *)

\* No parameter but zero splits into the zero row.
LEMMA SplitSet ==
  ASSUME NEW data \in Nat \ {0}, NEW mode \in Modes
  PROVE  Split(data, mode) \in Pair /\ Split(data, mode) # <<0, 0>>
<1>1. CASE mode = "vibrato"
  BY <1>1 DEF Split, Pair
<1>2. CASE mode = "fine vibrato"
  <2> DEFINE a == (data \div 16) % 8
             b == (data % 16) * 16 + (data \div 128) * 8
  <2>1. data % 16 \in 0 .. 15 /\ data \div 128 \in Nat /\ data \div 16 \in Nat
    OBVIOUS
  <2>2. a \in 0 .. 7 /\ b \in Nat
    BY <2>1
  <2>3. a # 0 \/ b # 0
    OBVIOUS
  <2>4. Split(data, mode) = <<a, b>>
    BY <1>2 DEF Split
  <2> HIDE DEF a, b
  <2> QED
    BY <2>2, <2>3, <2>4 DEF Pair
<1>3. CASE mode = "funktempo"
  BY <1>3 DEF Split, Pair
<1>4. CASE mode = "portamento"
  BY <1>4 DEF Split, Pair
<1> QED
  BY <1>1, <1>2, <1>3, <1>4 DEF Modes

\* An entry asked for is in the table it leaves, or that table is full; every row
\* that is not zero is where it was.
LEMMA EntryMade ==
  ASSUME NEW table, TableOK(table), NEW data \in Nat \ {0}, NEW mode \in Modes,
         NEW got, got = SpeedEntry(table, data, mode)
  PROVE  /\ TableOK(got.table)
         /\ Kept(got.table, [row |-> Split(data, mode), ptr |-> got.ptr])
         /\ \A a : Kept(table, a) => Kept(got.table, a)
<1> DEFINE row  == Split(data, mode)
           same == Found(table, row)
           zero == Found(table, <<0, 0>>)
<1>1. row \in Pair /\ row # <<0, 0>> /\ <<0, 0>> \in Pair
  BY SplitSet DEF Pair
<1>2. /\ table \in Seq(Pair) /\ Len(table) \in Nat /\ Len(table) <= TableMax
      /\ DOMAIN table = 1 .. Len(table) /\ TableMax \in Nat
      /\ same \subseteq 1 .. Len(table) /\ zero \subseteq 1 .. Len(table)
  BY TableMaxAssumption DEF TableOK, Found
<1> HIDE DEF row
<1>3. CASE same # {}
  <2>1. got = [ptr |-> Min(same), table |-> table]
    BY <1>3 DEF SpeedEntry, row
  <2>2. Min(same) \in same
    BY <1>2, <1>3, FirstIn
  <2>3. Min(same) \in DOMAIN table /\ table[Min(same)] = row /\ Min(same) # 0
    BY <1>2, <2>2 DEF Found
  <2> QED
    BY <1>1, <2>1, <2>3 DEF Kept, TableOK, row
<1>4. CASE same = {} /\ zero # {}
  <2>1. got = [ptr |-> Min(zero), table |-> [table EXCEPT ![Min(zero)] = row]]
    BY <1>4 DEF SpeedEntry, row
  <2>2. Min(zero) \in zero
    BY <1>2, <1>4, FirstIn
  <2> DEFINE k == Min(zero)
  <2> HIDE DEF k
  <2>3. k \in DOMAIN table /\ table[k] = <<0, 0>>
    BY <2>2 DEF k, Found
  <2>4. k # 0
    BY <1>2, <2>3
  <2>6. /\ got.ptr = k /\ got.table \in Seq(Pair) /\ Len(got.table) = Len(table)
        /\ DOMAIN got.table = DOMAIN table
        /\ got.table[k] = row /\ \A j \in DOMAIN table : j # k => got.table[j] = table[j]
    BY <1>1, <1>2, <2>1, <2>3 DEF k
  <2> QED
    BY <1>1, <1>2, <2>3, <2>4, <2>6 DEF Kept, TableOK, Room, row
<1>5. CASE same = {} /\ zero = {} /\ Room(table) = 0
  <2>1. got = [ptr |-> 0, table |-> table]
    BY <1>5 DEF SpeedEntry, row
  <2> QED
    BY <1>1, <1>5, <2>1 DEF Kept, row
<1>6. CASE same = {} /\ zero = {} /\ Room(table) # 0
  <2>1. got = [ptr |-> Len(table) + 1, table |-> Append(table, row)]
    BY <1>6 DEF SpeedEntry, row
  <2>2. /\ got.table \in Seq(Pair) /\ Len(got.table) = Len(table) + 1
        /\ got.table[Len(table) + 1] = row
        /\ \A j \in DOMAIN table : j \in DOMAIN got.table /\ got.table[j] = table[j]
    BY <1>1, <1>2, <2>1
  <2>3. Len(table) + 1 <= TableMax /\ Room(table) # 0
    <3>1. TableMax - Len(table) # 0
      BY <1>6 DEF Room
    <3>2. Len(table) \in Nat /\ TableMax \in Nat /\ Len(table) <= TableMax
      BY <1>2
    <3>3. Len(table) + 1 <= TableMax
      BY <3>1, <3>2
    <3> QED
      BY <1>6, <3>3
  <2> QED
    BY <1>1, <1>2, <2>1, <2>2, <2>3 DEF Kept, TableOK, row
<1> QED
  BY <1>3, <1>4, <1>5, <1>6

\* Asking keeps what was given out.
LEMMA AskedKept ==
  ASSUME TableOK(speed), \A a \in asked : Kept(speed, a), NEW data \in Nat, NEW mode \in Modes,
         Asked(data, mode, SpeedEntry(speed, data, mode))
  PROVE  TableOK(speed') /\ \A a \in asked' : Kept(speed', a)
<1> DEFINE got == SpeedEntry(speed, data, mode)
<1>1. speed' = got.table
      /\ asked' = IF data = 0 THEN asked
                  ELSE asked \cup {[row |-> Split(data, mode), ptr |-> got.ptr]}
  BY DEF Asked
<1>2. CASE data = 0
  BY <1>1, <1>2 DEF SpeedEntry
<1>3. CASE data # 0
  <2>1. /\ TableOK(got.table)
        /\ Kept(got.table, [row |-> Split(data, mode), ptr |-> got.ptr])
        /\ \A a : Kept(speed, a) => Kept(got.table, a)
    BY <1>3, EntryMade
  <2> HIDE DEF got
  <2> QED
    BY <1>1, <1>3, <2>1
<1> QED
  BY <1>2, <1>3

-----------------------------------------------------------------------------
(* Every step keeps the invariant.                                         *)

\* A row that goes in leaves the rows ahead as they were.
LEMMA PutRowOK ==
  ASSUME NEW r, PutRow(r), RowsOK(patterns), ParametersOK(patterns, at),
         at[1] \in Nat, at[2] \in Nat
  PROVE  /\ at'[1] \in Nat /\ at'[2] \in Nat
         /\ RowsOK(patterns') /\ ParametersOK(patterns', at')
<1>1. /\ patterns' = [patterns EXCEPT ![at[1]][at[2]] = r]
      /\ at' = IF at[2] < Len(patterns[at[1]]) THEN <<at[1], at[2] + 1, Playing>>
               ELSE <<at[1] + 1, 1, 0>>
  BY DEF PutRow
<1>2. /\ DOMAIN patterns' = DOMAIN patterns
      /\ \A p \in DOMAIN patterns : DOMAIN patterns'[p] = DOMAIN patterns[p]
      /\ \A p \in DOMAIN patterns : \A k \in DOMAIN patterns[p] :
           ~ (p = at[1] /\ k = at[2]) => patterns'[p][k] = patterns[p][k]
  BY <1>1
<1>3. at'[1] \in Nat /\ at'[2] \in Nat
  BY <1>1
<1>4. ASSUME NEW p \in Nat, NEW k \in Nat, Ahead(p, k, at')
      PROVE  Ahead(p, k, at) /\ ~ (p = at[1] /\ k = at[2])
  BY <1>1, <1>4 DEF Ahead
<1>5. RowsOK(patterns')
  BY <1>2 DEF RowsOK
<1>6. ParametersOK(patterns', at')
  BY <1>2, <1>4 DEF ParametersOK, RowsOK
<1> QED
  BY <1>3, <1>5, <1>6

\* At the first row of all, every row is ahead.
LEMMA AllAhead ==
  ASSUME NEW pats, RowsOK(pats),
         \A p \in DOMAIN pats : \A r \in DOMAIN pats[p] : pats[p][r][4] \in Nat
  PROVE  ParametersOK(pats, <<1, 1, 0>>)
BY DEF ParametersOK

\* The rows of an old song's patterns.
LEMMA OldRows ==
  ASSUME NEW S, NEW pats \in Seq(Seq(S))
  PROVE  /\ RowsOK(pats)
         /\ \A p \in DOMAIN pats : \A r \in DOMAIN pats[p] : pats[p][r] \in S
<1>1. \A p \in DOMAIN pats : pats[p] \in Seq(S)
  OBVIOUS
<1> QED
  BY <1>1 DEF RowsOK

LEMMA ReadOldPatternsOK ==
  ASSUME OldSongsOK, IInv, ReadOldPatterns
  PROVE  RowsOK(patterns') /\ ParametersOK(patterns', <<1, 1, 0>>)
<1>1. old.format = "GTS!" /\ old.patterns \in Seq(Seq(Byte \X Byte \X Byte))
  BY DEF IInv, OldSongsOK, OldSongOK, ReadOldPatterns
<1>2. patterns' = [k \in DOMAIN old.patterns |->
                    [r \in DOMAIN old.patterns[k] |-> RowOf(old.patterns[k][r])]]
  BY DEF ReadOldPatterns
<1>3. ASSUME NEW r \in Byte \X Byte \X Byte PROVE RowOf(r)[4] \in Nat
  <2> DEFINE fx == r[2] % 8
             two == CASE fx = 5 -> <<10, r[3]>>
                      [] fx = 7 -> IF r[3] < 240 THEN <<15, r[3]>> ELSE <<13, r[3] % 16>>
                      [] OTHER -> <<fx, r[3]>>
  <2>1. r[2] \in Nat /\ r[3] \in Nat /\ r[3] % 16 \in Nat /\ fx \in Nat
    BY DEF Byte
  <2>2. \E x, y \in Nat : two = <<x, y>>
    BY <2>1
  <2>3. RowOf(r) = <<NoteOf(r[1]), r[2] \div 8>> \o two
    BY DEF RowOf
  <2> HIDE DEF two
  <2>4. PICK x \in Nat, y \in Nat : two = <<x, y>>
    BY <2>2
  <2>5. ASSUME NEW a, NEW b PROVE (<<a, b>> \o <<x, y>>)[4] = y
    OBVIOUS
  <2> QED
    BY <2>3, <2>4, <2>5
<1>4. RowsOK(old.patterns) /\ \A p \in DOMAIN old.patterns : \A r \in DOMAIN old.patterns[p] :
                                old.patterns[p][r] \in Byte \X Byte \X Byte
  BY <1>1, OldRows
<1>5. RowsOK(patterns')
  BY <1>2, <1>4 DEF RowsOK
<1>6. \A p \in DOMAIN patterns' : \A r \in DOMAIN patterns'[p] : patterns'[p][r][4] \in Nat
  BY ZenonT(30), <1>2, <1>3, <1>4
<1> QED
  BY <1>5, <1>6, AllAhead

LEMMA ReadVibratoOK ==
  ASSUME OldSongsOK, IInv, ReadVibrato
  PROVE  RowsOK(patterns') /\ ParametersOK(patterns', <<1, 1, 0>>)
<1>1. old.patterns \in Seq(Seq(Byte \X Byte \X Byte \X Byte))
  BY DEF IInv, OldSongsOK, OldSongOK, ReadVibrato
<1>2. patterns' = [k \in DOMAIN old.patterns |->
                    [r \in DOMAIN old.patterns[k] |->
                       IF old.beta THEN [old.patterns[k][r] EXCEPT ![1] = BetaNote(@)]
                       ELSE old.patterns[k][r]]]
  BY DEF ReadVibrato
<1>3. RowsOK(old.patterns) /\ \A p \in DOMAIN old.patterns : \A r \in DOMAIN old.patterns[p] :
                                old.patterns[p][r] \in Byte \X Byte \X Byte \X Byte
  BY <1>1, OldRows
<1>4. ASSUME NEW r \in Byte \X Byte \X Byte \X Byte
      PROVE  r[4] \in Nat /\ [r EXCEPT ![1] = BetaNote(@)][4] \in Nat
  BY DEF Byte
<1>5. RowsOK(patterns')
  BY <1>2, <1>3 DEF RowsOK
<1>6. \A p \in DOMAIN patterns' : \A r \in DOMAIN patterns'[p] : patterns'[p][r][4] \in Nat
  BY ZenonT(30), <1>2, <1>3, <1>4
<1> QED
  BY <1>5, <1>6, AllAhead

\* An entry asked for with a row's parameter, and the row put back.
LEMMA AskingKeeps ==
  ASSUME IInv, Fixing, UNCHANGED <<old, stage>>, NEW data \in Nat, NEW mode \in Modes,
         Asked(data, mode, SpeedEntry(speed, data, mode)), NEW r, PutRow(r)
  PROVE  IInv'
<1>1. stage = "fix" /\ stage' = "fix" /\ old' = old
  BY DEF Fixing
<1>2. TableOK(speed') /\ \A a \in asked' : Kept(speed', a)
  BY AskedKept DEF IInv
<1>3. at'[1] \in Nat /\ at'[2] \in Nat /\ RowsOK(patterns') /\ ParametersOK(patterns', at')
  BY <1>1, PutRowOK DEF IInv
<1> QED
  BY <1>1, <1>2, <1>3 DEF IInv

LEMMA FixParameterIInv ==
  ASSUME IInv, FixParameter
  PROVE  IInv'
<1>1. Here[4] \in Nat
  <2>1. ParametersOK(patterns, at) /\ at[1] \in DOMAIN patterns /\ at[2] \in DOMAIN patterns[at[1]]
        /\ at[1] \in Nat /\ at[2] \in Nat
    BY DEF IInv, FixParameter, Fixing
  <2> QED
    BY <2>1 DEF ParametersOK, Ahead, Here
<1>2. ModeOf(Here[3]) \in Modes
  BY DEF FixParameter, ModeOf, Modes, VibratoMode
<1>3. PICK r : PutRow(r)
  BY DEF FixParameter
<1>4. /\ Fixing /\ UNCHANGED <<old, stage>>
      /\ Asked(Here[4], ModeOf(Here[3]), SpeedEntry(speed, Here[4], ModeOf(Here[3])))
  BY DEF FixParameter
<1> QED
  BY <1>1, <1>2, <1>3, <1>4, AskingKeeps

LEMMA FixFunktempoIInv ==
  ASSUME OldSongsOK, IInv, FixFunktempo
  PROVE  IInv'
<1>1. Funk \in Nat
  <2>1. old.filter \in Seq(Byte \X Byte \X Byte \X Byte) /\ 1 \in DOMAIN old.filter
    BY DEF IInv, OldSongsOK, OldSongOK, FixFunktempo
  <2>2. old.filter[1] \in Byte \X Byte \X Byte \X Byte
    BY <2>1
  <2>3. old.filter[1][3] \in Byte /\ old.filter[1][4] \in Byte
    BY <2>2
  <2>4. ASSUME NEW a \in Byte, NEW b \in Byte PROVE ((a * 16) % 256) + (b % 16) \in Nat
    BY DEF Byte
  <2> QED
    BY <2>3, <2>4 DEF Funk, FilterStep
<1>2. PICK r : PutRow(r)
  BY DEF FixFunktempo
<1>3. /\ Fixing /\ UNCHANGED <<old, stage>>
      /\ Asked(Funk, "funktempo", SpeedEntry(speed, Funk, "funktempo"))
  BY DEF FixFunktempo
<1>4. "funktempo" \in Modes
  BY DEF Modes
<1> QED
  BY <1>1, <1>2, <1>3, <1>4, AskingKeeps

\* What asks for nothing leaves the speed table alone.
LEMMA OtherIInv ==
  ASSUME IInv, FixArpeggio \/ FixOther
  PROVE  IInv'
<1>1. /\ stage = "fix" /\ UNCHANGED <<old, stage, speed, asked>>
      /\ \E r : PutRow(r)
  <2>1. CASE FixArpeggio
    BY <2>1 DEF FixArpeggio, Fixing
  <2>2. CASE FixOther
    BY <2>2 DEF FixOther, Fixing
  <2> QED
    BY <2>1, <2>2
<1>2. PICK r : PutRow(r)
  BY <1>1
<1>3. at'[1] \in Nat /\ at'[2] \in Nat /\ RowsOK(patterns') /\ ParametersOK(patterns', at')
  BY <1>1, <1>2, PutRowOK DEF IInv
<1> QED
  BY <1>1, <1>3 DEF IInv

LEMMA SkipEmptyIInv ==
  ASSUME IInv, SkipEmpty
  PROVE  IInv'
<1>1. /\ stage = "fix" /\ at' = <<at[1] + 1, 1, 0>>
      /\ UNCHANGED <<old, stage, speed, asked, patterns>>
  BY DEF SkipEmpty
<1>2. at[1] \in Nat /\ at[2] \in Nat /\ RowsOK(patterns) /\ ParametersOK(patterns, at)
  BY <1>1 DEF IInv
<1>3. at'[1] = at[1] + 1 /\ at'[2] = 1
  BY <1>1
<1>4. ParametersOK(patterns, at')
  <2> SUFFICES ASSUME NEW p \in DOMAIN patterns, NEW r \in DOMAIN patterns[p], Ahead(p, r, at')
               PROVE  patterns[p][r][4] \in Nat
    BY DEF ParametersOK
  <2>1. p \in Nat /\ r \in Nat
    BY <1>2 DEF RowsOK
  <2>2. Ahead(p, r, at)
    BY <1>2, <1>3, <2>1 DEF Ahead
  <2> QED
    BY <1>2, <2>2 DEF ParametersOK
<1> QED
  BY <1>1, <1>2, <1>3, <1>4 DEF IInv

LEMMA ReadIInv ==
  ASSUME OldSongsOK, IInv,
         ReadOldInstrument \/ ReadOldPatterns \/ ConvertFilter \/ ReadVibrato
  PROVE  IInv'
<1>1. CASE ReadOldInstrument
  BY <1>1 DEF IInv, ReadOldInstrument
<1>2. CASE ReadOldPatterns
  <2>1. RowsOK(patterns') /\ ParametersOK(patterns', <<1, 1, 0>>)
    BY <1>2, ReadOldPatternsOK
  <2> QED
    BY <1>2, <2>1 DEF IInv, ReadOldPatterns
<1>3. CASE ConvertFilter
  <2>1. at' = <<1, 1, 0>> /\ stage = "filter" /\ stage' = "fix"
        /\ UNCHANGED <<old, speed, asked, patterns>>
    BY <1>3 DEF ConvertFilter
  <2>2. at'[1] \in Nat /\ at'[2] \in Nat
    BY <2>1
  <2> QED
    BY <2>1, <2>2 DEF IInv
<1>4. CASE ReadVibrato
  <2>1. RowsOK(patterns') /\ ParametersOK(patterns', <<1, 1, 0>>)
    BY <1>4, ReadVibratoOK
  <2>2. old.instruments[at].vibrato \in Nat
    <3>1. /\ at \in Nat \ {0} /\ at <= Len(old.instruments) /\ Len(old.instruments) \in Nat
          /\ \A k \in 1 .. Len(old.instruments) : old.instruments[k].vibrato \in Byte
      BY <1>4 DEF IInv, OldSongsOK, OldSongOK, ReadVibrato
    <3>2. old.instruments[at].vibrato \in Byte
      BY <3>1
    <3> QED
      BY <3>2 DEF Byte
  <2>3. VibratoMode \in Modes
    BY DEF VibratoMode, Modes
  <2>4. TableOK(speed') /\ \A a \in asked' : Kept(speed', a)
    BY <1>4, <2>2, <2>3, AskedKept DEF IInv, ReadVibrato
  <2>5. /\ stage = "instruments" /\ old' = old /\ old.format = "GTS2"
        /\ IF at < Len(old.instruments) THEN at' = at + 1 /\ stage' = stage
           ELSE at' = <<1, 1, 0>> /\ stage' = "fix"
    BY <1>4 DEF ReadVibrato
  <2>6. CASE at < Len(old.instruments)
    <3>1. at \in Nat \ {0} /\ Len(old.instruments) \in Nat
      BY <2>5 DEF IInv, OldSongsOK, OldSongOK
    <3> QED
      BY <2>4, <2>5, <2>6, <3>1 DEF IInv
  <2>7. CASE ~ (at < Len(old.instruments))
    <3>1. at'[1] \in Nat /\ at'[2] \in Nat /\ stage' = "fix"
      BY <2>5, <2>7
    <3>2. ParametersOK(patterns', at')
      BY <2>1, <2>5, <2>7
    <3> QED
      BY <2>1, <2>4, <2>5, <2>7, <3>1, <3>2 DEF IInv
  <2> QED
    BY <2>6, <2>7
<1> QED
  BY <1>1, <1>2, <1>3, <1>4

\* The inductive invariant holds throughout.
THEOREM IInvHolds ==
  ASSUME OldSongsOK
  PROVE  Spec => []IInv
<1>1. Init => IInv
  <2> SUFFICES ASSUME Init PROVE IInv
    OBVIOUS
  <2>1. /\ old \in OldSongs /\ stage = "instruments" /\ at = 1 /\ speed = <<>> /\ asked = {}
    BY DEF Init, ImportInit
  <2>2. TableOK(<<>>)
    BY TableMaxAssumption DEF TableOK
  <2>3. old.format = "GTS2" => at <= Len(old.instruments)
    BY <2>1 DEF OldSongsOK, OldSongOK
  <2> QED
    BY <2>1, <2>2, <2>3 DEF IInv
<1>2. IInv /\ [Next]_vars => IInv'
  <2> SUFFICES ASSUME IInv, [Next]_vars PROVE IInv'
    OBVIOUS
  <2>1. CASE ReadOldInstrument \/ ReadOldPatterns \/ ConvertFilter \/ ReadVibrato
    BY <2>1, ReadIInv
  <2>2. CASE SkipEmpty
    BY <2>2, SkipEmptyIInv
  <2>3. CASE FixParameter
    BY <2>3, FixParameterIInv
  <2>4. CASE FixFunktempo
    BY <2>4, FixFunktempoIInv
  <2>5. CASE FixArpeggio \/ FixOther
    BY <2>5, OtherIInv
  <2>6. CASE End
    BY <2>6 DEF End, IInv
  <2>7. CASE UNCHANGED importVars
    BY <2>7 DEF IInv, importVars
  <2>8. CASE UNCHANGED vars
    BY <2>7, <2>8 DEF vars
  <2> QED
    BY <2>1, <2>2, <2>3, <2>4, <2>5, <2>6, <2>7, <2>8
    DEF Next, Import, WriteImported, WriteOwn
<1> QED
  BY <1>1, <1>2, PTL DEF Spec

\* A speed table pointer given out names its row for good, though zero rows of
\* the table are filled and rows shared; 0 was given only when the table was
\* full (make_speed_entry).
THEOREM SpeedsStay ==
  ASSUME OldSongsOK
  PROVE  Spec => []SpeedsKept
<1>1. IInv => SpeedsKept
  BY DEF IInv, Kept, SpeedsKept
<1> QED
  BY <1>1, IInvHolds, PTL
-----------------------------------------------------------------------------
(* What an import makes of a song within the formats' limits.              *)

BytePair == Byte \X Byte
ByteTable(t) == t \in Seq(BytePair) /\ Len(t) <= TableMax

Instrument == [ad : Byte, sr : Byte, wave : Byte, pulse : Byte, filter : Byte, vib : Byte,
               delay : Byte, gate : Byte, first : Byte]

\* Rows of the song, an end among those of GoatTracker 1.
NewRow ==
  ((FIRSTNOTE .. KEYON) \cup {ENDPATT}) \X (0 .. InstrMax - 1) \X (0 .. CMD_SETTEMPO) \X Byte

OldInstrument1 == [ad : Byte, sr : Byte, pulse : Byte, add : Byte, low : Byte, high : Byte,
                   filter : Byte, wave : Seq(BytePair)]
OldInstrument2 == [wave : Byte, pulse : Byte, filter : Byte, vibrato : Byte, gate : Byte,
                   first : Byte]

\* Step n of an old filter table makes a row: a setting, a modulation or a jump.
MakesRows(table, n) ==
  LET s == table[n + 1]
  IN s[1] # 0 \/ s[2] # 0 \/ (s # <<0, 0, 0, 0>> /\ s[4] # n + 1)

Orderlist == [entries : Seq(Byte \ {LOOPSONG}), restart : Byte]

\* Orderlists the writer takes.
OrdersFit(orders, pats) ==
  /\ orders \in Seq(Orderlist) /\ Len(orders) \in {3, 6}
  /\ \A k \in DOMAIN orders :
       /\ Len(orders[k].entries) \in 1 .. MAX_SONGLEN
       /\ orders[k].restart < Len(orders[k].entries)
       /\ \A e \in DOMAIN orders[k].entries :
            orders[k].entries[e] < MAX_PATT => orders[k].entries[e] < Len(pats)

PatternsFit(pats) ==
  /\ Len(pats) \in 1 .. MAX_PATT
  /\ \A k \in DOMAIN pats : Len(pats[k]) \in 1 .. MAX_PATTROWS

\* GoatTracker 1: rows name instruments that can be, no pattern begins with its end,
\* and the filter steps instruments name make rows. The code imports songs beyond these
\* too; it cannot write them.
InLimits1(o) ==
  /\ o.instruments \in Seq(OldInstrument1)
  /\ o.patterns \in Seq(Seq(Byte \X Byte \X Byte))
  /\ o.filter \in Seq(Byte \X Byte \X Byte \X Byte) /\ Len(o.filter) = FilterSteps
  /\ \A k \in DOMAIN o.instruments :
       o.instruments[k].filter \in 1 .. FilterSteps - 1
         => MakesRows(o.filter, o.instruments[k].filter)
  /\ \A k \in DOMAIN o.patterns :
       /\ o.patterns[k][1][1] # ENDPATT
       /\ \A r \in DOMAIN o.patterns[k] : o.patterns[k][r][2] \div 8 < InstrMax

\* Early GoatTracker 2: pointers are in the tables, rows name the song's instruments.
InLimits2(o) ==
  /\ o.instruments \in Seq(OldInstrument2)
  /\ ByteTable(o.wave) /\ ByteTable(o.pulse) /\ ByteTable(o.filter)
  /\ \A k \in DOMAIN o.instruments :
       /\ o.instruments[k].wave <= Len(o.wave) /\ o.instruments[k].pulse <= Len(o.pulse)
       /\ o.instruments[k].filter <= Len(o.filter)
  /\ o.patterns \in Seq(Seq(Byte \X Byte \X (0 .. CMD_SETTEMPO) \X Byte))
  /\ \A k \in DOMAIN o.patterns : \A r \in DOMAIN o.patterns[k] :
       /\ (IF o.beta THEN BetaNote(o.patterns[k][r][1]) ELSE o.patterns[k][r][1])
            \in FIRSTNOTE .. KEYON
       /\ o.patterns[k][r][2] <= Len(o.instruments)

InLimits(o) ==
  /\ o.format \in {"none", "GTS!", "GTS2"}
  /\ o.format # "none" => /\ Len(o.instruments) \in 1 .. InstrMax - 1
                          /\ PatternsFit(o.patterns) /\ OrdersFit(o.orders, o.patterns)
  /\ o.format = "GTS!" => InLimits1(o)
  /\ o.format = "GTS2" => InLimits2(o)

\* The old songs are within their limits, and the filter table has room for the rows of
\* every step: 63 of four rows at most, in a table of 255.
WithinLimits == (\A o \in OldSongs : InLimits(o)) /\ 4 * (FilterSteps - 1) <= TableMax

\* A song as the writer and the reader know it.
SongSet ==
  [name : Seq(Byte \ {0}), subtunes : Seq(Seq(Orderlist)),
   instruments : Seq([params : Seq(Byte), name : Seq(Byte \ {0})]),
   tables : Seq(Seq(BytePair)), patterns : Seq(Seq(Byte \X Byte \X Byte \X Byte))]

Shaped(song) ==
  /\ song \in SongSet /\ Len(song.tables) = 4
  /\ \A k \in DOMAIN song.instruments : Len(song.instruments[k].params) = 9

TablesOK == ByteTable(wave) /\ ByteTable(pulse) /\ ByteTable(filter) /\ ByteTable(speed)

PointsWell(ins) ==
  ins.wave <= Len(wave) /\ ins.pulse <= Len(pulse) /\ ins.vib <= Len(speed)

InstrumentsOK ==
  /\ instruments \in [1 .. InstrMax - 1 -> Instrument]
  /\ \A k \in 1 .. InstrMax - 1 : PointsWell(instruments[k])

\* Before the filter table is made instruments name old steps, after it its rows.
StepsNamed ==
  \A k \in 1 .. InstrMax - 1 :
    instruments[k].filter \in 1 .. FilterSteps - 1 => MakesRows(old.filter, instruments[k].filter)
FiltersPoint == \A k \in 1 .. InstrMax - 1 : instruments[k].filter <= Len(filter)

RowKept(r) == old.format = "GTS2" => r[1] # ENDPATT /\ r[2] <= Len(old.instruments)

PatternsOK ==
  /\ patterns \in Seq(Seq(NewRow)) /\ PatternsFit(patterns) /\ Len(patterns) = Len(old.patterns)
  /\ \A k \in DOMAIN patterns :
       /\ patterns[k][1][1] # ENDPATT
       /\ \A r \in DOMAIN patterns[k] : RowKept(patterns[k][r])

CloneOK(c) ==
  \/ c.by = "instrument" /\ c.is \in 1 .. InstrMax - 1
  \/ c.by # "instrument" /\ c.is \in 1 .. Len(wave)

ClonesOK == \A k \in DOMAIN clones : CloneOK(clones[k])

ReadingOK ==
  /\ at \in 1 .. Len(old.instruments)
  /\ old.format = "GTS2" => /\ wave \in {<<>>, old.wave} /\ pulse \in {<<>>, old.pulse}
                            /\ filter \in {<<>>, old.filter} /\ FiltersPoint

\* The import's song is of bytes, its pointers are in its tables, and its rows name
\* instruments there will be.
TInv ==
  /\ old \in OldSongs
  /\ stage \in {"instruments", "patterns", "filter", "fix", "imported"}
  /\ TablesOK
  /\ filtermap \in [0 .. FilterSteps - 1 -> Byte] /\ free \in 0 .. InstrMax
  /\ stage # "imported" => InstrumentsOK
  /\ stage \in {"instruments", "patterns", "filter"} =>
       clones = <<>> /\ (old.format = "GTS!" => StepsNamed)
  /\ stage = "instruments" /\ old.format # "none" => ReadingOK
  /\ stage # "instruments" => old.format \in {"GTS!", "GTS2"}
  /\ stage \in {"patterns", "filter"} => old.format = "GTS!"
  /\ stage \in {"filter", "fix"} => PatternsOK
  /\ stage = "fix" => FiltersPoint /\ ClonesOK /\ at \in Nat \X Nat \X (0 .. InstrMax - 1)
  /\ stage = "imported" => Valid(Imported) /\ Shaped(Imported)

-----------------------------------------------------------------------------
(* Tables.                                                                 *)

LEMMA MinOfTwo ==
  ASSUME NEW a \in Nat, NEW b \in Nat
  PROVE  Min({a, b}) = IF a <= b THEN a ELSE b
<1>1. Min({a, b}) \in {a, b} /\ \A y \in {a, b} : Min({a, b}) <= y
  BY FirstIn
<1> QED
  BY <1>1

\* What Extended makes of a table and the rows it is given.
IsExtended(new, table, rows) ==
  /\ Len(new) = IF Len(rows) <= Room(table) THEN Len(table) + Len(rows) ELSE TableMax
  /\ Len(new) <= TableMax /\ Len(new) >= Len(table)
  /\ \A i \in 1 .. Len(table) : new[i] = table[i]
  /\ \A i \in Len(table) + 1 .. Len(new) : new[i] = rows[i - Len(table)]

LEMMA ExtendedIs ==
  ASSUME NEW S, NEW table \in Seq(S), Len(table) <= TableMax, NEW rows \in Seq(S)
  PROVE  Extended(table, rows) \in Seq(S) /\ IsExtended(Extended(table, rows), table, rows)
<1> DEFINE n == Min({Room(table), Len(rows)})
           more == SubSeq(rows, 1, n)
           new == table \o more
<1>1. /\ TableMax \in Nat /\ Len(table) \in Nat /\ Len(rows) \in Nat
      /\ Room(table) \in Nat /\ Room(table) = TableMax - Len(table)
  BY TableMaxAssumption DEF Room
<1>2. n \in Nat /\ n <= Len(rows) /\ n = IF Len(rows) <= Room(table) THEN Len(rows) ELSE Room(table)
  <2>1. n = IF Room(table) <= Len(rows) THEN Room(table) ELSE Len(rows)
    BY <1>1, MinOfTwo
  <2> HIDE DEF n
  <2> QED
    BY <1>1, <2>1
<1> HIDE DEF n
<1>3. more \in Seq(S) /\ Len(more) = n /\ \A i \in 1 .. n : more[i] = rows[i]
  BY <1>1, <1>2
<1> HIDE DEF more
<1>4. /\ new \in Seq(S) /\ Len(new) = Len(table) + Len(more)
      /\ \A i \in 1 .. Len(new) : new[i] = IF i <= Len(table) THEN table[i] ELSE more[i - Len(table)]
  <2>1. Len(new) = Len(table) + Len(more)
    BY <1>3, ConcatProperties
  <2> QED
    BY <1>3, <2>1, ConcatProperties
<1>5. Extended(table, rows) = new
  BY DEF Extended, more, n
<1> HIDE DEF new
<1>6. \A i \in 1 .. Len(table) : new[i] = table[i]
  BY <1>1, <1>2, <1>4
<1>7. ASSUME NEW i \in Len(table) + 1 .. Len(new) PROVE new[i] = rows[i - Len(table)]
  <2>1. i \in 1 .. Len(new) /\ ~ (i <= Len(table)) /\ i - Len(table) \in 1 .. n
    BY <1>1, <1>2, <1>3, <1>4
  <2> QED
    BY <1>3, <1>4, <2>1
<1>8. /\ Len(new) = IF Len(rows) <= Room(table) THEN Len(table) + Len(rows) ELSE TableMax
      /\ Len(new) <= TableMax /\ Len(new) >= Len(table)
  BY <1>1, <1>2, <1>3, <1>4
<1> QED
  BY <1>4, <1>5, <1>6, <1>7, <1>8 DEF IsExtended

\* A byte table extended by rows of bytes.
LEMMA BytesExtended ==
  ASSUME NEW table, ByteTable(table), NEW rows \in Seq(BytePair)
  PROVE  /\ ByteTable(Extended(table, rows))
         /\ IsExtended(Extended(table, rows), table, rows)
BY ExtendedIs DEF ByteTable, IsExtended

LEMMA BytesAreNumbers == \A b \in Byte : b \in Nat /\ b <= 255
BY DEF Byte

\* A position in a table is a byte.
LEMMA PositionByte ==
  ASSUME NEW l \in Nat, l <= TableMax, NEW k \in Nat, k <= l
  PROVE  k \in Byte
BY TableMaxAssumption DEF Byte

\* A parameter's row is two bytes.
LEMMA SplitBytes ==
  ASSUME NEW data \in Byte, NEW mode \in Modes
  PROVE  Split(data, mode) \in BytePair
<1>1. CASE mode = "vibrato"
  <2>1. data \div 16 \in Byte /\ (data % 16) * 16 \in Byte
    BY DEF Byte
  <2> QED
    BY <1>1, <2>1 DEF Split, BytePair
<1>2. CASE mode = "fine vibrato"
  <2>1. data % 16 \in 0 .. 15 /\ data \div 128 \in 0 .. 1 /\ data \div 16 \in Nat
    BY DEF Byte
  <2>2. (data \div 16) % 8 \in Byte /\ (data % 16) * 16 + (data \div 128) * 8 \in Byte
    BY <2>1 DEF Byte
  <2> QED
    BY <1>2, <2>2 DEF Split, BytePair
<1>3. CASE mode = "funktempo"
  <2>1. data \div 16 \in Byte /\ data % 16 \in Byte
    BY DEF Byte
  <2> QED
    BY <1>3, <2>1 DEF Split, BytePair
<1>4. CASE mode = "portamento"
  <2>1. (4 * data) \div 256 \in Byte /\ (4 * data) % 256 \in Byte
    BY DEF Byte
  <2> QED
    BY <1>4, <2>1 DEF Split, BytePair
<1> QED
  BY <1>1, <1>2, <1>3, <1>4 DEF Modes

\* An entry asked for: the table stays one of bytes and the pointer is in it.
LEMMA EntryOfBytes ==
  ASSUME NEW table, ByteTable(table), NEW data \in Byte, NEW mode \in Modes,
         NEW got, got = SpeedEntry(table, data, mode)
  PROVE  /\ ByteTable(got.table) /\ Len(got.table) >= Len(table)
         /\ got.ptr \in Byte /\ got.ptr <= Len(got.table)
<1> DEFINE row  == Split(data, mode)
           same == Found(table, row)
           zero == Found(table, <<0, 0>>)
<1>1. row \in BytePair
  BY SplitBytes
<1>2. /\ table \in Seq(BytePair) /\ Len(table) \in Nat /\ Len(table) <= TableMax
      /\ DOMAIN table = 1 .. Len(table) /\ TableMax \in 1 .. 255
      /\ same \subseteq 1 .. Len(table) /\ zero \subseteq 1 .. Len(table)
  BY TableMaxAssumption DEF ByteTable, Found
<1> HIDE DEF row
<1>8. Len(table) \in Nat /\ Len(table) <= TableMax /\ TableMax \in 1 .. 255
  BY <1>2
<1>3. CASE data = 0
  <2>1. got = [ptr |-> 0, table |-> table]
    BY <1>3 DEF SpeedEntry
  <2> QED
    BY <1>2, <2>1 DEF ByteTable, Byte
<1>4. CASE data # 0 /\ same # {}
  <2>1. got = [ptr |-> Min(same), table |-> table]
    BY <1>4 DEF SpeedEntry, row
  <2>2. Min(same) \in 1 .. Len(table)
    BY <1>2, <1>4, FirstIn
  <2>3. got.ptr \in 1 .. Len(table) /\ got.table = table
    BY <2>1, <2>2
  <2>4. got.ptr \in Byte
    BY <1>8, <2>3, PositionByte
  <2> QED
    BY <1>8, <2>3, <2>4
<1>5. CASE data # 0 /\ same = {} /\ zero # {}
  <2>1. got = [ptr |-> Min(zero), table |-> [table EXCEPT ![Min(zero)] = row]]
    BY <1>5 DEF SpeedEntry, row
  <2>2. Min(zero) \in 1 .. Len(table)
    BY <1>2, <1>5, FirstIn
  <2> DEFINE k == Min(zero)
  <2> HIDE DEF k
  <2>3. got.ptr = k /\ k \in 1 .. Len(table) /\ got.table \in Seq(BytePair)
        /\ Len(got.table) = Len(table)
    BY <1>1, <1>2, <2>1, <2>2 DEF k
  <2> QED
    BY <1>2, <2>3 DEF ByteTable, Byte
<1>6. CASE data # 0 /\ same = {} /\ zero = {} /\ Room(table) = 0
  <2>1. got = [ptr |-> 0, table |-> table]
    BY <1>6 DEF SpeedEntry, row
  <2> QED
    BY <1>2, <2>1 DEF ByteTable, Byte
<1>7. CASE data # 0 /\ same = {} /\ zero = {} /\ Room(table) # 0
  <2>1. got = [ptr |-> Len(table) + 1, table |-> Append(table, row)]
    BY <1>7 DEF SpeedEntry, row
  <2>2. got.table \in Seq(BytePair) /\ Len(got.table) = Len(table) + 1 /\ got.ptr = Len(table) + 1
    BY <1>1, <1>2, <2>1
  <2>3. Len(table) + 1 <= TableMax
    <3>1. TableMax - Len(table) # 0
      BY <1>7 DEF Room
    <3>2. TableMax \in Nat /\ Len(table) \in Nat /\ Len(table) <= TableMax
      BY <1>2
    <3> QED
      BY <3>1, <3>2
  <2>4. got.ptr <= Len(got.table) /\ Len(got.table) >= Len(table) /\ Len(table) + 1 \in Nat
    BY <1>8, <2>2
  <2>6. got.ptr \in Byte
    BY <2>2, <2>3, <2>4, PositionByte
  <2>5. ByteTable(got.table)
    BY <2>2, <2>3 DEF ByteTable
  <2> QED
    BY <2>4, <2>5, <2>6
<1> QED
  BY <1>3, <1>4, <1>5, <1>6, <1>7

-----------------------------------------------------------------------------
(* Programs of instruments.                                                *)

LEMMA WaveRowBytes ==
  ASSUME NEW r \in BytePair, NEW start \in Nat
  PROVE  WaveRow(r, start) \in BytePair
<1>1. r[1] \in Byte /\ r[2] \in Byte
  BY DEF BytePair
<1>2. (r[2] + start - 1) % 256 \in Byte
  <2>1. \A a \in Nat, b \in Nat : (a + b - 1) % 256 \in 0 .. 255
    OBVIOUS
  <2>2. r[2] \in Nat
    BY <1>1 DEF Byte
  <2> QED
    BY <2>1, <2>2 DEF Byte
<1>3. r[1] \in 8 .. 15 => 224 + r[1] \in Byte
  BY DEF Byte
<1>4. WaveRow(r, start) =
        <<IF r[1] \in 8 .. 15 THEN 224 + r[1] ELSE r[1],
          IF r[1] = TABLEJUMP /\ r[2] # 0 THEN (r[2] + start - 1) % 256 ELSE r[2]>>
  BY DEF WaveRow
<1>5. /\ (IF r[1] \in 8 .. 15 THEN 224 + r[1] ELSE r[1]) \in Byte
      /\ (IF r[1] = TABLEJUMP /\ r[2] # 0 THEN (r[2] + start - 1) % 256 ELSE r[2]) \in Byte
  BY <1>1, <1>2, <1>3
<1> QED
  BY <1>4, <1>5 DEF BytePair

\* The pointer an instrument gets is in the table its rows were added to.
LEMMA WaveOfBytes ==
  ASSUME ByteTable(wave), NEW rows \in Seq(BytePair), NEW got, got = WaveOf(rows)
  PROVE  /\ ByteTable(got.table) /\ Len(got.table) >= Len(wave)
         /\ got.ptr \in Byte /\ got.ptr <= Len(got.table)
<1> DEFINE start == Len(wave) + 1
           new == [k \in DOMAIN rows |-> WaveRow(rows[k], start)]
           table == Extended(wave, new)
           nothing == Len(rows) = 2 /\ Len(table) > start /\ table[start] = <<0, 0>>
<1>1. Len(wave) \in Nat /\ start \in Nat /\ start >= 1 /\ Len(wave) <= TableMax
  BY DEF ByteTable
<1>2. new \in Seq(BytePair)
  <2>1. \A k \in DOMAIN rows : rows[k] \in BytePair
    OBVIOUS
  <2>2. \A k \in DOMAIN rows : WaveRow(rows[k], start) \in BytePair
    BY <1>1, <2>1, WaveRowBytes
  <2> HIDE DEF start
  <2> QED
    BY <2>2
<1>3. ByteTable(table) /\ IsExtended(table, wave, new)
  <2> HIDE DEF new
  <2> QED
    BY <1>2, BytesExtended
<1>4. Len(table) \in Nat /\ Len(table) <= TableMax /\ Len(table) >= Len(wave)
  BY <1>3 DEF ByteTable, IsExtended
<1>5. got = IF rows = <<>> \/ nothing THEN [ptr |-> 0, table |-> wave]
            ELSE [ptr |-> StartIn(start, table), table |-> table]
  BY DEF WaveOf
<1> HIDE DEF table, nothing
<1>6. StartIn(start, table) \in Byte /\ StartIn(start, table) <= Len(table)
  <2>1. CASE start > Len(table)
    BY <1>4, <2>1 DEF StartIn, Byte
  <2>2. CASE ~ (start > Len(table))
    <3>1. StartIn(start, table) = start /\ start <= Len(table)
      BY <1>1, <1>4, <2>2 DEF StartIn
    <3> QED
      BY <1>1, <1>4, <3>1, PositionByte
  <2> QED
    BY <2>1, <2>2
<1>7. CASE rows = <<>> \/ nothing
  BY <1>1, <1>5, <1>7 DEF Byte
<1>8. CASE ~ (rows = <<>> \/ nothing)
  BY <1>3, <1>4, <1>5, <1>6, <1>8
<1> QED
  BY <1>7, <1>8

LEMMA PulseRunBytes ==
  ASSUME NEW time \in Nat, NEW by \in Int
  PROVE  PulseRun(time, by) \in Seq(BytePair)
<1>1. (time + 126) \div 127 \in Nat
  OBVIOUS
<1>2. \A k \in 1 .. (time + 126) \div 127 :
        <<IF k * 127 <= time THEN 127 ELSE time % 127, by % 256>> \in BytePair
  <2> SUFFICES ASSUME NEW k \in 1 .. (time + 126) \div 127
               PROVE  (IF k * 127 <= time THEN 127 ELSE time % 127) \in Byte /\ by % 256 \in Byte
    BY DEF BytePair
  <2> QED
    BY DEF Byte
<1> QED
  BY <1>1, <1>2 DEF PulseRun

\* A distance takes as many whole steps as fit.
LEMMA StepsTaken ==
  ASSUME NEW d \in Int, NEW s \in Nat, s > 0
  PROVE  (IF d > 0 THEN d \div s ELSE 0) \in Nat
OBVIOUS

\* A pulse program is a setting, three runs and a jump to the first or the second run.
PulseParts(p, at1, set, rise, fall, back, up, home) ==
  PulseProgram(p, at1) =
    <<set>> \o PulseRun(rise, up) \o PulseRun(fall, -up) \o PulseRun(back, up)
      \o <<<<TABLEJUMP, LoopRow(at1, PulseRun(rise, up), home)>>>>

LEMMA PulseInParts ==
  ASSUME NEW p \in OldInstrument1, p.add # 0, NEW at1 \in Nat
  PROVE  \E set \in BytePair, rise \in Nat, fall \in Nat, back \in Nat, up \in Int, home \in BOOLEAN :
           PulseParts(p, at1, set, rise, fall, back, up, home)
<1> DEFINE start == 16 * (p.pulse - (p.pulse % 2))
           width == start \div 16
           set == <<128 + width \div 16, (width * 16) % 256>>
           Times(dist) == IF dist > 0 THEN dist \div p.add ELSE 0
           rise == Times(16 * p.high - start)
           top == start + rise * p.add
           fall == Times(top - 16 * p.low)
           bottom == top - fall * p.add
           home == start < 16 * p.high /\ start > bottom
           back == Times((IF home THEN start ELSE 16 * p.high) - bottom)
           up == p.add \div 2
<1>1. /\ p.add \in Nat /\ p.add > 0 /\ p.pulse \in 0 .. 255 /\ p.high \in Nat /\ p.low \in Nat
  <2>1. p.add \in Byte /\ p.pulse \in Byte /\ p.high \in Byte /\ p.low \in Byte
    BY DEF OldInstrument1
  <2> QED
    BY <2>1 DEF Byte
<1>2. start \in Int /\ width \in 0 .. 255
  BY <1>1
<1>3. set \in BytePair
  <2> HIDE DEF width
  <2> QED
    BY <1>2 DEF BytePair, Byte
<1>4. up \in Int
  BY <1>1
<1>5. \A d \in Int : Times(d) \in Nat
  BY <1>1, StepsTaken
<1> HIDE DEF Times, start
<1>6. rise \in Nat /\ top \in Int
  BY <1>1, <1>2, <1>5
<1> HIDE DEF rise, top
<1>7. fall \in Nat /\ bottom \in Int
  BY <1>1, <1>5, <1>6
<1> HIDE DEF fall, bottom
<1>8. back \in Nat /\ home \in BOOLEAN
  BY <1>1, <1>2, <1>5, <1>7
<1>9. PulseParts(p, at1, set, rise, fall, back, up, home)
  BY <1>1 DEF PulseParts, PulseProgram, Times, start, rise, top, fall, bottom
<1> HIDE DEF back, home, up, set
<1> QED
  BY <1>3, <1>4, <1>6, <1>7, <1>8, <1>9

\* Rows of bytes are rows of numbers.
LEMMA WiderRows ==
  /\ \A r \in BytePair : r \in Byte \X Nat /\ r[1] \in Byte /\ r[2] \in Byte
  /\ Seq(BytePair) \subseteq Seq(Byte \X Nat)
<1>1. Byte \subseteq Nat
  BY DEF Byte
<1>2. \A r \in BytePair : r \in Byte \X Nat /\ r[1] \in Byte /\ r[2] \in Byte
  BY <1>1 DEF BytePair
<1>3. BytePair \subseteq Byte \X Nat
  BY <1>2
<1> QED
  BY <1>2, <1>3, SeqMonotonic

\* Every row is of bytes, or a jump no further than itself.
NearRow(r, k) == r \in Byte \X Nat /\ (r[2] \in Byte \/ r[2] <= k)
NearRows(rows, at1) ==
  rows \in Seq(Byte \X Nat) /\ \A k \in 1 .. Len(rows) : NearRow(rows[k], at1 + k - 1)

LEMMA NearBytes ==
  ASSUME NEW rows \in Seq(BytePair), NEW at1
  PROVE  NearRows(rows, at1)
<1>1. \A k \in 1 .. Len(rows) : rows[k] \in Byte \X Nat /\ rows[k][2] \in Byte
  BY WiderRows
<1>2. rows \in Seq(Byte \X Nat)
  BY WiderRows
<1> QED
  BY <1>1, <1>2 DEF NearRows, NearRow

LEMMA PulseNear ==
  ASSUME NEW p \in OldInstrument1, NEW at1 \in Nat \ {0}
  PROVE  NearRows(PulseProgram(p, at1), at1) /\ Len(PulseProgram(p, at1)) >= 1
<1>1. CASE p.add = 0
  <2> DEFINE width == (16 * (p.pulse - (p.pulse % 2))) \div 16
             set == <<128 + width \div 16, (width * 16) % 256>>
  <2>1. p.pulse \in 0 .. 255
    BY DEF OldInstrument1, Byte
  <2>2. width \in 0 .. 255
    BY <2>1
  <2>3. PulseProgram(p, at1) = <<set, <<TABLEJUMP, 0>>>>
    BY <1>1 DEF PulseProgram
  <2>4. set \in BytePair /\ <<TABLEJUMP, 0>> \in BytePair
    <3> HIDE DEF width
    <3> QED
      BY <2>2 DEF BytePair, Byte, TABLEJUMP
  <2> HIDE DEF set
  <2>5. PulseProgram(p, at1) \in Seq(BytePair) /\ Len(PulseProgram(p, at1)) = 2
    BY <2>3, <2>4
  <2> QED
    BY <2>5, NearBytes
<1>2. CASE p.add # 0
  <2>1. PICK set \in BytePair, rise \in Nat, fall \in Nat, back \in Nat, up \in Int, home \in BOOLEAN :
          PulseParts(p, at1, set, rise, fall, back, up, home)
    BY <1>2, PulseInParts
  <2> DEFINE r == PulseRun(rise, up)
             f == PulseRun(fall, -up)
             b == PulseRun(back, up)
             a1 == <<set>> \o r
             a2 == a1 \o f
             a3 == a2 \o b
             loop == LoopRow(at1, r, home)
             all == a3 \o <<<<TABLEJUMP, loop>>>>
  <2>2. PulseProgram(p, at1) = all
    BY <2>1 DEF PulseParts
  <2>3. r \in Seq(BytePair) /\ f \in Seq(BytePair) /\ b \in Seq(BytePair)
    <3>1. -up \in Int
      OBVIOUS
    <3> QED
      BY <3>1, PulseRunBytes
  <2>4. <<set>> \in Seq(BytePair) /\ Len(<<set>>) = 1
    OBVIOUS
  <2> HIDE DEF r, f, b
  <2>5. a1 \in Seq(BytePair) /\ Len(a1) = 1 + Len(r)
    BY <2>3, <2>4, ConcatProperties
  <2> HIDE DEF a1
  <2>6. a2 \in Seq(BytePair) /\ Len(a2) = 1 + Len(r) + Len(f)
    BY <2>3, <2>5, ConcatProperties
  <2> HIDE DEF a2
  <2>7. a3 \in Seq(BytePair) /\ Len(a3) = 1 + Len(r) + Len(f) + Len(b)
    BY <2>3, <2>6, ConcatProperties
  <2> HIDE DEF a3
  <2>8. Len(r) \in Nat /\ Len(f) \in Nat /\ Len(b) \in Nat /\ Len(a3) \in Nat
    BY <2>3, <2>7
  <2>9. loop \in Nat /\ loop <= at1 + Len(a3)
    BY <2>7, <2>8 DEF LoopRow
  <2> HIDE DEF loop
  <2>10. a3 \in Seq(Byte \X Nat) /\ <<<<TABLEJUMP, loop>>>> \in Seq(Byte \X Nat)
    <3>1. <<TABLEJUMP, loop>> \in Byte \X Nat
      BY <2>9 DEF Byte, TABLEJUMP
    <3>2. <<<<TABLEJUMP, loop>>>> \in Seq(Byte \X Nat)
      BY <3>1
    <3> QED
      BY <2>7, <3>2, WiderRows
  <2>11. /\ all \in Seq(Byte \X Nat) /\ Len(all) = Len(a3) + 1
         /\ \A k \in 1 .. Len(a3) + 1 :
              all[k] = IF k <= Len(a3) THEN a3[k] ELSE <<<<TABLEJUMP, loop>>>>[k - Len(a3)]
    <3>1. Len(<<<<TABLEJUMP, loop>>>>) = 1
      OBVIOUS
    <3> QED
      BY <2>10, <3>1, ConcatProperties
  <2> HIDE DEF all
  <2>12. ASSUME NEW k \in 1 .. Len(all) PROVE NearRow(all[k], at1 + k - 1)
    <3>1. CASE k <= Len(a3)
      <4>1. all[k] = a3[k] /\ a3[k] \in BytePair
        BY <2>7, <2>8, <2>11, <3>1
      <4> QED
        BY <4>1, WiderRows DEF NearRow
    <3>2. CASE ~ (k <= Len(a3))
      <4>1. k = Len(a3) + 1 /\ k - Len(a3) = 1
        BY <2>8, <2>11, <3>2
      <4>2. all[k] = <<TABLEJUMP, loop>>
        BY <2>8, <2>11, <3>2, <4>1
      <4>3. loop <= at1 + k - 1
        BY <2>8, <2>9, <4>1
      <4> QED
        BY <2>9, <4>2, <4>3 DEF NearRow, Byte, TABLEJUMP
    <3> QED
      BY <3>1, <3>2
  <2> QED
    BY <2>2, <2>8, <2>11, <2>12 DEF NearRows
<1> QED
  BY <1>1, <1>2

\* As many rows of a pulse program as there is room for are rows of bytes.
LEMMA NearExtended ==
  ASSUME NEW table, ByteTable(table), NEW rows, NearRows(rows, Len(table) + 1)
  PROVE  ByteTable(Extended(table, rows)) /\ IsExtended(Extended(table, rows), table, rows)
<1> DEFINE new == Extended(table, rows)
<1>1. table \in Seq(Byte \X Nat) /\ rows \in Seq(Byte \X Nat) /\ Len(table) <= TableMax
      /\ Len(table) \in Nat
  BY WiderRows DEF ByteTable, NearRows
<1>2. new \in Seq(Byte \X Nat) /\ IsExtended(new, table, rows)
  BY <1>1, ExtendedIs
<1> HIDE DEF new
<1>3. /\ Len(new) \in Nat /\ Len(new) <= TableMax /\ Len(rows) \in Nat /\ TableMax \in Nat
      /\ DOMAIN new = 1 .. Len(new)
  BY <1>1, <1>2, TableMaxAssumption DEF IsExtended
<1>4. ASSUME NEW i \in 1 .. Len(new) PROVE new[i] \in BytePair
  <2>1. CASE i <= Len(table)
    <3>1. i \in 1 .. Len(table) /\ new[i] = table[i]
      BY <1>1, <1>2, <2>1 DEF IsExtended
    <3>2. table[i] \in BytePair
      BY <3>1 DEF ByteTable
    <3> QED
      BY <3>1, <3>2
  <2>2. CASE ~ (i <= Len(table))
    <3> DEFINE j == i - Len(table)
    <3>1. i \in Len(table) + 1 .. Len(new) /\ j \in 1 .. Len(rows)
      BY <1>1, <1>2, <1>3, <2>2 DEF IsExtended, Room
    <3>2. new[i] = rows[j]
      BY <1>2, <3>1 DEF IsExtended
    <3>3. NearRow(rows[j], (Len(table) + 1) + j - 1)
      BY <3>1 DEF NearRows
    <3>4. (Len(table) + 1) + j - 1 = i
      BY <1>1
    <3>5. new[i] \in Byte \X Nat /\ (new[i][2] \in Byte \/ new[i][2] <= i)
      BY <3>2, <3>3, <3>4 DEF NearRow
    <3>6. new[i][2] \in Nat /\ new[i][1] \in Byte /\ new[i] = <<new[i][1], new[i][2]>>
      BY <3>5
    <3>7. new[i][2] <= i => new[i][2] \in Byte
      <4>1. i \in Nat /\ i <= TableMax
        BY <1>3
      <4> QED
        BY <3>6, <4>1, PositionByte
    <3> QED
      BY <3>5, <3>6, <3>7 DEF BytePair
  <2> QED
    BY <2>1, <2>2
<1>5. new \in Seq(BytePair)
  BY <1>2, <1>3, <1>4
<1> QED
  BY <1>2, <1>3, <1>5 DEF ByteTable, new

\* A pointer shared or new is in the pulse table.
LEMMA PulseOfBytes ==
  ASSUME ByteTable(pulse), InstrumentsOK, InLimits1(old),
         NEW n \in 1 .. Len(old.instruments), n \in 1 .. InstrMax - 1, NEW got, got = PulseOf(n)
  PROVE  /\ ByteTable(got.table) /\ Len(got.table) >= Len(pulse)
         /\ got.ptr \in Byte /\ got.ptr <= Len(got.table)
<1> DEFINE p == old.instruments[n]
           same == {k \in 1 .. n - 1 : SamePulse(old.instruments[k], p)}
           program == PulseProgram(p, Len(pulse) + 1)
           new == Extended(pulse, program)
<1>1. /\ Len(pulse) \in Nat /\ Len(pulse) <= TableMax /\ TableMax \in Nat
      /\ p \in OldInstrument1
  <2>1. old.instruments \in Seq(OldInstrument1)
    BY DEF InLimits1
  <2> QED
    BY <2>1, TableMaxAssumption DEF ByteTable
<1>6. p.pulse \in Nat
  <2>1. p.pulse \in Byte
    BY <1>1 DEF OldInstrument1
  <2> QED
    BY <2>1, BytesAreNumbers
<1>2. CASE p.pulse < 2
  <2>1. got = [ptr |-> 0, table |-> pulse]
    <3>1. ~ (p.pulse >= 2)
      BY <1>2, <1>6
    <3> QED
      BY <1>2, <3>1 DEF PulseOf
  <2> QED
    BY <1>1, <2>1 DEF Byte
<1>3. CASE p.pulse >= 2 /\ same # {}
  <2>1. got = [ptr |-> instruments[Min(same)].pulse, table |-> pulse]
    <3>1. ~ (p.pulse < 2)
      BY <1>3, <1>6
    <3> QED
      BY <1>3, <3>1 DEF PulseOf
  <2>2. Min(same) \in 1 .. InstrMax - 1
    <3>1. same \subseteq Nat /\ same \subseteq 1 .. InstrMax - 1
      BY InstrMaxAssumption
    <3> QED
      BY <1>3, <3>1, FirstIn
  <2>3. instruments[Min(same)] \in Instrument /\ PointsWell(instruments[Min(same)])
    <3> HIDE DEF same
    <3> QED
      BY <2>2 DEF InstrumentsOK
  <2> QED
    BY <1>1, <2>1, <2>3 DEF Instrument, PointsWell
<1>4. CASE ~ (p.pulse < 2) /\ ~ (p.pulse >= 2 /\ same # {}) /\ Room(pulse) = 0
  <2>1. got = [ptr |-> 0, table |-> pulse]
    BY <1>4 DEF PulseOf
  <2> QED
    BY <1>1, <2>1 DEF Byte
<1>5. CASE ~ (p.pulse < 2) /\ ~ (p.pulse >= 2 /\ same # {}) /\ Room(pulse) # 0
  <2>1. got = [ptr |-> Len(pulse) + 1, table |-> new]
    BY <1>5 DEF PulseOf
  <2>2. NearRows(program, Len(pulse) + 1) /\ Len(program) >= 1
    <3>1. Len(pulse) + 1 \in Nat \ {0}
      BY <1>1
    <3> QED
      BY <1>1, <3>1, PulseNear
  <2>3. Len(program) \in Nat
    BY <2>2 DEF NearRows
  <2> HIDE DEF program
  <2>4. ByteTable(new) /\ IsExtended(new, pulse, program)
    BY <2>2, NearExtended
  <2> HIDE DEF new
  <2>5. Len(new) \in Nat /\ Len(new) <= TableMax /\ Len(new) >= Len(pulse)
    BY <2>4 DEF ByteTable, IsExtended
  <2>6. Len(pulse) + 1 <= Len(new)
    <3>1. Len(new) = IF Len(program) <= Room(pulse) THEN Len(pulse) + Len(program) ELSE TableMax
      BY <2>4 DEF IsExtended
    <3>2. TableMax - Len(pulse) # 0
      BY <1>5 DEF Room
    <3> QED
      BY <1>1, <2>2, <2>3, <3>1, <3>2
  <2>7. Len(pulse) + 1 \in Byte
    <3>1. Len(pulse) + 1 \in Nat
      BY <1>1
    <3> QED
      BY <2>5, <2>6, <3>1, PositionByte
  <2> QED
    BY <2>1, <2>4, <2>5, <2>6, <2>7
<1> QED
  BY <1>2, <1>3, <1>4, <1>5

\* Longer tables hold what pointers named before.
LEMMA PointsOn ==
  ASSUME InstrumentsOK, ByteTable(wave), ByteTable(pulse), ByteTable(speed),
         ByteTable(wave'), ByteTable(pulse'), ByteTable(speed'),
         Len(wave') >= Len(wave), Len(pulse') >= Len(pulse), Len(speed') >= Len(speed),
         NEW k \in 1 .. InstrMax - 1
  PROVE  instruments[k].wave <= Len(wave') /\ instruments[k].pulse <= Len(pulse')
         /\ instruments[k].vib <= Len(speed')
<1>1. instruments[k] \in Instrument /\ PointsWell(instruments[k])
  BY DEF InstrumentsOK
<1>2. /\ Len(wave) \in Nat /\ Len(pulse) \in Nat /\ Len(speed) \in Nat
      /\ Len(wave') \in Nat /\ Len(pulse') \in Nat /\ Len(speed') \in Nat
  BY DEF ByteTable
<1>3. instruments[k].wave \in Byte /\ instruments[k].pulse \in Byte /\ instruments[k].vib \in Byte
  BY <1>1 DEF Instrument
<1>4. instruments[k].wave \in Nat /\ instruments[k].pulse \in Nat /\ instruments[k].vib \in Nat
  BY <1>3, BytesAreNumbers
<1>5. instruments[k].wave <= Len(wave) /\ instruments[k].pulse <= Len(pulse)
      /\ instruments[k].vib <= Len(speed)
  BY <1>1 DEF PointsWell
<1> QED
  BY <1>2, <1>4, <1>5

\* What a GoatTracker 1 instrument becomes.
Given(made, base, a, s, v, u, f, g) ==
  made = [base EXCEPT !.ad = a, !.sr = s, !.wave = v, !.pulse = u, !.filter = f, !.gate = @ + g]

LEMMA InstrumentGiven ==
  ASSUME NEW base \in Instrument, NEW a \in Byte, NEW s \in Byte, NEW v \in Byte,
         NEW u \in Byte, NEW f \in Byte, NEW g, base.gate + g \in Byte,
         NEW made, Given(made, base, a, s, v, u, f, g)
  PROVE  /\ made \in Instrument
         /\ made.wave = v /\ made.pulse = u /\ made.vib = base.vib /\ made.filter = f
<1> DEFINE b == [base EXCEPT !.ad = a, !.sr = s, !.wave = v, !.pulse = u, !.filter = f]
<1>1. b \in Instrument /\ b.gate = base.gate
  BY DEF Instrument
<1> HIDE DEF b
<1>2. [b EXCEPT !.gate = @ + g] = [b EXCEPT !.gate = base.gate + g]
  BY <1>1 DEF Instrument
<1>3. made = [b EXCEPT !.gate = @ + g]
  BY DEF b, Given
<1>4. [b EXCEPT !.gate = base.gate + g]
        = [base EXCEPT !.ad = a, !.sr = s, !.wave = v, !.pulse = u, !.filter = f,
                       !.gate = base.gate + g]
  BY DEF b
<1>5. PICK h \in Byte : h = base.gate + g
  OBVIOUS
<1>6. made = [base EXCEPT !.ad = a, !.sr = s, !.wave = v, !.pulse = u, !.filter = f, !.gate = h]
  BY <1>2, <1>3, <1>4, <1>5
<1> QED
  BY <1>6 DEF Instrument

LEMMA ReadOldInstrumentTyped ==
  ASSUME WithinLimits, TInv, ReadOldInstrument
  PROVE  TInv'
<1> DEFINE p == old.instruments[at]
           w == WaveOf(p.wave)
           u == PulseOf(at)
           ins == [Blank EXCEPT !.ad = p.ad, !.sr = p.sr, !.wave = w.ptr,
                                !.pulse = u.ptr, !.filter = p.filter,
                                !.gate = @ + IF p.pulse % 2 = 1 THEN 128 ELSE 0]
<1>1. /\ stage = "instruments" /\ old.format = "GTS!"
      /\ instruments' = [instruments EXCEPT ![at] = ins]
      /\ wave' = w.table /\ pulse' = u.table
      /\ IF at < Len(old.instruments) THEN at' = at + 1 /\ stage' = stage
         ELSE at' = 1 /\ stage' = "patterns"
      /\ UNCHANGED <<old, filter, speed, patterns, filtermap, clones, free, asked>>
  BY DEF ReadOldInstrument
<1>2. /\ old \in OldSongs /\ TablesOK /\ InstrumentsOK /\ StepsNamed /\ clones = <<>>
      /\ filtermap \in [0 .. FilterSteps - 1 -> Byte] /\ free \in 0 .. InstrMax
      /\ at \in 1 .. Len(old.instruments)
  BY <1>1 DEF TInv, ReadingOK
<1>3. InLimits1(old) /\ Len(old.instruments) \in 1 .. InstrMax - 1
  BY <1>1, <1>2 DEF WithinLimits, InLimits
<1>4. InstrMax \in 2 .. 64 /\ at \in 1 .. InstrMax - 1
  BY <1>2, <1>3, InstrMaxAssumption
<1>5. p \in OldInstrument1
  BY <1>2, <1>3 DEF InLimits1
<1>6. p.wave \in Seq(BytePair) /\ p.ad \in Byte /\ p.sr \in Byte /\ p.filter \in Byte
  BY <1>5 DEF OldInstrument1
<1>7. /\ ByteTable(wave') /\ Len(wave') >= Len(wave) /\ w.ptr \in Byte /\ w.ptr <= Len(wave')
  <2>1. ByteTable(wave)
    BY <1>2 DEF TablesOK
  <2> HIDE DEF p
  <2>2. ByteTable(w.table) /\ Len(w.table) >= Len(wave) /\ w.ptr \in Byte /\ w.ptr <= Len(w.table)
    BY <1>6, <2>1, WaveOfBytes
  <2> HIDE DEF w
  <2> QED
    BY <1>1, <2>2
<1>8. /\ ByteTable(pulse') /\ Len(pulse') >= Len(pulse) /\ u.ptr \in Byte /\ u.ptr <= Len(pulse')
  <2>1. ByteTable(pulse)
    BY <1>2 DEF TablesOK
  <2>2. ByteTable(u.table) /\ Len(u.table) >= Len(pulse) /\ u.ptr \in Byte /\ u.ptr <= Len(u.table)
    BY <1>2, <1>3, <1>4, <2>1, PulseOfBytes
  <2> HIDE DEF u
  <2> QED
    BY <1>1, <2>2
<1> HIDE DEF w, u, p
<1>9. /\ ins \in Instrument /\ ins.wave = w.ptr /\ ins.pulse = u.ptr /\ ins.vib = 0
      /\ ins.filter = p.filter
  <2>1. Blank \in Instrument /\ Blank.vib = 0 /\ Blank.gate = 2
    BY DEF Blank, Instrument, Byte
  <2>2. 2 + (IF p.pulse % 2 = 1 THEN 128 ELSE 0) \in Byte
    BY DEF Byte
  <2>3. PICK more : more = (IF p.pulse % 2 = 1 THEN 128 ELSE 0)
    OBVIOUS
  <2>4. Given(ins, Blank, p.ad, p.sr, w.ptr, u.ptr, p.filter, more)
    BY <2>3 DEF Given
  <2>5. Blank.gate + more \in Byte
    BY <2>1, <2>2, <2>3
  <2> HIDE DEF ins, Blank
  <2>6. /\ ins \in Instrument
        /\ ins.wave = w.ptr /\ ins.pulse = u.ptr /\ ins.vib = Blank.vib /\ ins.filter = p.filter
    <3>1. p.ad \in Byte /\ p.sr \in Byte /\ w.ptr \in Byte /\ u.ptr \in Byte /\ p.filter \in Byte
      BY <1>6, <1>7, <1>8
    <3>2. PICK base, a, s, v, z, f :
            base = Blank /\ a = p.ad /\ s = p.sr /\ v = w.ptr /\ z = u.ptr /\ f = p.filter
      OBVIOUS
    <3>3. /\ base \in Instrument /\ a \in Byte /\ s \in Byte /\ v \in Byte /\ z \in Byte /\ f \in Byte
          /\ base.gate + more \in Byte /\ Given(ins, base, a, s, v, z, f, more)
      BY <2>1, <2>4, <2>5, <3>1, <3>2
    <3>4. ins \in Instrument /\ ins.wave = v /\ ins.pulse = z /\ ins.vib = base.vib /\ ins.filter = f
      BY <3>3, InstrumentGiven
    <3> QED
      BY <3>2, <3>4
  <2> QED
    BY <2>1, <2>6
<1> HIDE DEF ins
<1>10. TablesOK'
  BY <1>1, <1>2, <1>7, <1>8 DEF TablesOK, ByteTable
<1>11. instruments' \in [1 .. InstrMax - 1 -> Instrument]
  BY <1>1, <1>2, <1>9 DEF InstrumentsOK
<1>12. ASSUME NEW k \in 1 .. InstrMax - 1
       PROVE  PointsWell(instruments[k])' /\ instruments'[k].filter = IF k = at THEN p.filter
                                                                       ELSE instruments[k].filter
  <2>1. ByteTable(wave) /\ ByteTable(pulse) /\ ByteTable(speed) /\ Len(speed) \in Nat
        /\ instruments \in [1 .. InstrMax - 1 -> Instrument]
    BY <1>2 DEF TablesOK, ByteTable, InstrumentsOK
  <2>2. CASE k = at
    <3>1. instruments'[k] = ins
      BY <1>1, <2>1, <2>2
    <3>2. 0 <= Len(speed') /\ speed' = speed
      BY <1>1, <2>1
    <3> QED
      BY <1>7, <1>8, <1>9, <2>2, <3>1, <3>2 DEF PointsWell
  <2>3. CASE k # at
    <3>1. instruments'[k] = instruments[k]
      BY <1>1, <2>1, <2>3
    <3>2. speed' = speed /\ ByteTable(speed') /\ Len(speed') >= Len(speed)
      BY <1>1, <2>1
    <3>3. instruments[k].wave <= Len(wave') /\ instruments[k].pulse <= Len(pulse')
          /\ instruments[k].vib <= Len(speed')
      BY <1>2, <1>7, <1>8, <2>1, <3>2, PointsOn
    <3> QED
      BY <2>3, <3>1, <3>3 DEF PointsWell
  <2> QED
    BY <2>2, <2>3
<1>13. InstrumentsOK'
  BY <1>11, <1>12 DEF InstrumentsOK
<1>14. StepsNamed'
  <2> SUFFICES ASSUME NEW k \in 1 .. InstrMax - 1,
                      instruments'[k].filter \in 1 .. FilterSteps - 1
               PROVE  MakesRows(old.filter, instruments'[k].filter)
    BY <1>1 DEF StepsNamed
  <2>1. CASE k = at
    <3>1. instruments'[k].filter = old.instruments[at].filter /\ at \in DOMAIN old.instruments
      <4>1. DOMAIN old.instruments = 1 .. Len(old.instruments)
        BY <1>3 DEF InLimits1
      <4> QED
        BY <1>2, <1>12, <2>1, <4>1 DEF p
    <3> QED
      BY <1>3, <3>1 DEF InLimits1
  <2>2. CASE k # at
    BY <1>2, <1>12, <2>2 DEF StepsNamed
  <2> QED
    BY <2>1, <2>2
<1>15. CASE at < Len(old.instruments)
  <2>1. /\ at' = at + 1 /\ stage' = "instruments" /\ at + 1 \in 1 .. Len(old.instruments)
    BY <1>1, <1>2, <1>3, <1>15
  <2>2. ReadingOK'
    BY <1>1, <2>1 DEF ReadingOK
  <2> QED
    BY <1>1, <1>2, <1>10, <1>13, <1>14, <2>1, <2>2 DEF TInv
<1>16. CASE ~ (at < Len(old.instruments))
  <2>1. stage' = "patterns"
    BY <1>1, <1>16
  <2> QED
    BY <1>1, <1>2, <1>10, <1>13, <1>14, <2>1 DEF TInv
<1> QED
  BY <1>15, <1>16

-----------------------------------------------------------------------------
(* Patterns of GoatTracker 1.                                              *)

LEMMA TwoAndTwo ==
  ASSUME NEW a, NEW b, NEW c, NEW d
  PROVE  <<a, b>> \o <<c, d>> = <<a, b, c, d>>
<1> DEFINE s == <<a, b>>
           t == <<c, d>>
           S == {a, b, c, d}
<1>1. s \in Seq(S) /\ t \in Seq(S) /\ Len(s) = 2 /\ Len(t) = 2
  OBVIOUS
<1>2. s[1] = a /\ s[2] = b /\ t[1] = c /\ t[2] = d
  OBVIOUS
<1> HIDE DEF s, t, S
<1>3. s \o t \in Seq(S) /\ Len(s \o t) = 4
  <2>1. s \o t \in Seq(S)
    BY <1>1
  <2>2. Len(s \o t) = Len(s) + Len(t)
    BY <1>1, ConcatProperties
  <2> QED
    BY <1>1, <2>1, <2>2
<1>4. (s \o t)[1] = a /\ (s \o t)[2] = b /\ (s \o t)[3] = c /\ (s \o t)[4] = d
  BY <1>1, <1>2, <1>3, ConcatProperties
<1> DEFINE u == s \o t
           v == <<a, b, c, d>>
<1>5. v \in Seq(S) /\ Len(v) = 4 /\ v[1] = a /\ v[2] = b /\ v[3] = c /\ v[4] = d
  BY DEF S
<1> HIDE DEF u, v
<1>6. u \in Seq(S) /\ Len(u) = 4 /\ u[1] = a /\ u[2] = b /\ u[3] = c /\ u[4] = d
  BY <1>3, <1>4 DEF u
<1>7. \A k \in 1 .. 4 : u[k] = v[k]
  BY <1>5, <1>6
<1>8. u = v
  BY <1>5, <1>6, <1>7, SeqEqual
<1> QED
  BY <1>8 DEF u, v, s, t

LEMMA NoteOfTyped ==
  ASSUME NEW note \in Byte
  PROVE  /\ NoteOf(note) \in (FIRSTNOTE .. KEYON) \cup {ENDPATT}
         /\ note # ENDPATT => NoteOf(note) # ENDPATT
<1>1. CASE note = OLDKEYOFF
  BY <1>1 DEF NoteOf, OLDKEYOFF, OLDREST, KEYOFF, FIRSTNOTE, KEYON, ENDPATT
<1>2. CASE note = OLDREST
  BY <1>2 DEF NoteOf, OLDKEYOFF, OLDREST, REST, FIRSTNOTE, KEYON, ENDPATT
<1>3. CASE note = ENDPATT
  BY <1>3 DEF NoteOf, OLDKEYOFF, OLDREST, ENDPATT
<1>4. CASE note # OLDKEYOFF /\ note # OLDREST /\ note # ENDPATT
  <2>1. NoteOf(note) = IF note + FIRSTNOTE > LASTNOTE THEN REST ELSE note + FIRSTNOTE
    BY <1>4 DEF NoteOf
  <2> QED
    BY <2>1, BytesAreNumbers DEF FIRSTNOTE, LASTNOTE, REST, KEYON, ENDPATT
<1> QED
  BY <1>1, <1>2, <1>3, <1>4

LEMMA RowOfTyped ==
  ASSUME NEW r \in Byte \X Byte \X Byte, r[2] \div 8 < InstrMax
  PROVE  RowOf(r) \in NewRow /\ (r[1] # ENDPATT => RowOf(r)[1] # ENDPATT)
<1> DEFINE fx == r[2] % 8
           n == NoteOf(r[1])
           i == r[2] \div 8
<1>1. r[1] \in Byte /\ r[2] \in Byte /\ r[3] \in Byte
  OBVIOUS
<1>2. PICK c \in 0 .. CMD_SETTEMPO, d \in Byte : RowOf(r) = <<n, i>> \o <<c, d>>
  <2>1. fx \in 0 .. 7
    BY <1>1, BytesAreNumbers
  <2>2. CASE fx = 5
    <3>1. RowOf(r) = <<n, i>> \o <<10, r[3]>>
      BY <2>2 DEF RowOf
    <3>2. 10 \in 0 .. CMD_SETTEMPO
      BY DEF CMD_SETTEMPO
    <3> QED
      BY <1>1, <3>1, <3>2
  <2>3. CASE fx = 7 /\ r[3] < 240
    <3>1. RowOf(r) = <<n, i>> \o <<15, r[3]>>
      BY <2>3 DEF RowOf
    <3>2. 15 \in 0 .. CMD_SETTEMPO
      BY DEF CMD_SETTEMPO
    <3> QED
      BY <1>1, <3>1, <3>2
  <2>4. CASE fx = 7 /\ ~ (r[3] < 240)
    <3>1. RowOf(r) = <<n, i>> \o <<13, r[3] % 16>>
      BY <2>4 DEF RowOf
    <3>2. r[3] % 16 \in Byte
      BY <1>1 DEF Byte
    <3>3. 13 \in 0 .. CMD_SETTEMPO
      BY DEF CMD_SETTEMPO
    <3> QED
      BY <1>1, <3>1, <3>2, <3>3
  <2>5. CASE fx # 5 /\ fx # 7
    <3>1. RowOf(r) = <<n, i>> \o <<fx, r[3]>>
      BY <2>5 DEF RowOf
    <3>2. fx \in 0 .. CMD_SETTEMPO
      BY <2>1 DEF CMD_SETTEMPO
    <3> QED
      BY <1>1, <3>1, <3>2
  <2> QED
    BY <2>2, <2>3, <2>4, <2>5
<1>3. RowOf(r) = <<n, i, c, d>>
  BY <1>2, TwoAndTwo
<1>4. n \in (FIRSTNOTE .. KEYON) \cup {ENDPATT} /\ (r[1] # ENDPATT => n # ENDPATT)
  BY <1>1, NoteOfTyped
<1>5. i \in 0 .. InstrMax - 1
  <2>1. r[2] \in Nat
    BY <1>1, BytesAreNumbers
  <2>2. r[2] \div 8 \in Nat
    BY <2>1
  <2> QED
    BY <2>2, InstrMaxAssumption
<1> HIDE DEF n, i
<1>6. <<n, i, c, d>> \in NewRow
  BY <1>2, <1>4, <1>5 DEF NewRow
<1> QED
  BY <1>3, <1>4, <1>6

LEMMA ReadOldPatternsTyped ==
  ASSUME WithinLimits, TInv, ReadOldPatterns
  PROVE  TInv'
<1>1. /\ stage = "patterns" /\ stage' = "filter"
      /\ patterns' = [k \in DOMAIN old.patterns |->
                        [r \in DOMAIN old.patterns[k] |-> RowOf(old.patterns[k][r])]]
      /\ UNCHANGED <<old, instruments, wave, pulse, filter, speed, filtermap, clones, free, at, asked>>
  BY DEF ReadOldPatterns
<1>2. /\ old \in OldSongs /\ TablesOK /\ InstrumentsOK /\ StepsNamed /\ clones = <<>>
      /\ filtermap \in [0 .. FilterSteps - 1 -> Byte] /\ free \in 0 .. InstrMax
      /\ old.format = "GTS!"
  BY <1>1 DEF TInv
<1>3. InLimits1(old) /\ PatternsFit(old.patterns)
  BY <1>2 DEF WithinLimits, InLimits
<1>4. /\ old.patterns \in Seq(Seq(Byte \X Byte \X Byte)) /\ Len(old.patterns) \in Nat
      /\ DOMAIN old.patterns = 1 .. Len(old.patterns)
  BY <1>3 DEF InLimits1
<1>5. ASSUME NEW k \in DOMAIN old.patterns
      PROVE  /\ patterns'[k] \in Seq(NewRow) /\ Len(patterns'[k]) = Len(old.patterns[k])
             /\ patterns'[k][1][1] # ENDPATT
  <2> DEFINE p == old.patterns[k]
  <2>1. /\ p \in Seq(Byte \X Byte \X Byte) /\ Len(p) \in 1 .. MAX_PATTROWS
        /\ p[1][1] # ENDPATT /\ \A r \in DOMAIN p : p[r][2] \div 8 < InstrMax
    BY <1>3, <1>4 DEF InLimits1, PatternsFit
  <2>2. patterns'[k] = [r \in DOMAIN p |-> RowOf(p[r])]
    BY <1>1
  <2> HIDE DEF p
  <2>3. DOMAIN p = 1 .. Len(p) /\ Len(p) \in Nat /\ 1 \in DOMAIN p
    BY <2>1
  <2>4. \A r \in DOMAIN p : RowOf(p[r]) \in NewRow /\ (p[r][1] # ENDPATT => RowOf(p[r])[1] # ENDPATT)
    <3> SUFFICES ASSUME NEW r \in DOMAIN p
                 PROVE  RowOf(p[r]) \in NewRow /\ (p[r][1] # ENDPATT => RowOf(p[r])[1] # ENDPATT)
      OBVIOUS
    <3>1. p[r] \in Byte \X Byte \X Byte /\ p[r][2] \div 8 < InstrMax
      BY <2>1
    <3> QED
      BY <3>1, RowOfTyped
  <2>5. [r \in 1 .. Len(p) |-> RowOf(p[r])] \in Seq(NewRow)
    BY <2>3, <2>4
  <2>6. patterns'[k] = [r \in 1 .. Len(p) |-> RowOf(p[r])]
    BY <2>2, <2>3
  <2>7. patterns'[k] \in Seq(NewRow) /\ Len(patterns'[k]) = Len(p)
    BY <2>3, <2>5, <2>6
  <2>8. patterns'[k][1] = RowOf(p[1])
    BY <2>3, <2>6
  <2> QED
    BY <2>1, <2>3, <2>4, <2>7, <2>8 DEF p
<1>6. /\ patterns' \in Seq(Seq(NewRow)) /\ Len(patterns') = Len(old.patterns)
      /\ DOMAIN patterns' = DOMAIN old.patterns
  <2> DEFINE f(k) == [r \in DOMAIN old.patterns[k] |-> RowOf(old.patterns[k][r])]
  <2>1. patterns' = [k \in 1 .. Len(old.patterns) |-> f(k)]
    BY <1>1, <1>4
  <2>2. \A k \in 1 .. Len(old.patterns) : f(k) \in Seq(NewRow)
    BY <1>4, <1>5, <2>1
  <2> HIDE DEF f
  <2> QED
    BY <1>4, <2>1, <2>2
<1>7. PatternsFit(patterns')
  BY <1>3, <1>5, <1>6 DEF PatternsFit
<1>8. PatternsOK'
  <2>1. \A k \in DOMAIN patterns' : patterns'[k][1][1] # ENDPATT
    BY <1>5, <1>6
  <2>2. \A r : RowKept(r)'
    BY <1>1, <1>2 DEF RowKept
  <2> QED
    BY <1>1, <1>6, <1>7, <2>1, <2>2 DEF PatternsOK
<1>9. TablesOK' /\ InstrumentsOK' /\ StepsNamed'
  BY <1>1, <1>2 DEF TablesOK, InstrumentsOK, StepsNamed, PointsWell
<1> QED
  BY <1>1, <1>2, <1>8, <1>9 DEF TInv

-----------------------------------------------------------------------------
(* The filter table.                                                       *)

OldFilter(table) == table \in Seq(Byte \X Byte \X Byte \X Byte) /\ Len(table) = FilterSteps

\* A run of a length that is a byte takes three rows at most.
LEMMA ShortRun ==
  ASSUME NEW time \in Byte, NEW by \in Byte
  PROVE  /\ PulseRun(time, by) \in Seq(BytePair) /\ Len(PulseRun(time, by)) \in 0 .. 3
         /\ time # 0 => Len(PulseRun(time, by)) >= 1
<1>1. time \in Nat /\ time <= 255 /\ by \in Int
  BY BytesAreNumbers
<1>2. PulseRun(time, by) \in Seq(BytePair)
  BY <1>1, PulseRunBytes
<1>3. (time + 126) \div 127 \in 0 .. 3 /\ (time # 0 => (time + 126) \div 127 >= 1)
  BY <1>1
<1>4. DOMAIN PulseRun(time, by) = 1 .. (time + 126) \div 127
  BY DEF PulseRun
<1>5. Len(PulseRun(time, by)) = (time + 126) \div 127
  BY <1>2, <1>3, <1>4
<1> QED
  BY <1>2, <1>3, <1>5

LEMMA FilterRowsTyped ==
  ASSUME OldFilter(old.filter), NEW n \in 0 .. FilterSteps - 1
  PROVE  /\ FilterRows(n) \in Seq(BytePair) /\ Len(FilterRows(n)) \in 0 .. 4
         /\ MakesRows(old.filter, n) => Len(FilterRows(n)) >= 1
<1> DEFINE s == old.filter[n + 1]
           set == <<128 + ((s[2] \div 16) % 8) * 16, s[1]>>
           more == IF s[3] # 0 THEN <<<<0, s[3]>>>> ELSE <<>>
           moves == IF s[1] # 0 THEN <<set>> \o more ELSE PulseRun(s[2], s[3])
           jump == IF s[4] # n + 1 THEN <<<<TABLEJUMP, s[4]>>>> ELSE <<>>
<1>1. s[1] \in Byte /\ s[2] \in Byte /\ s[3] \in Byte /\ s[4] \in Byte
  <2>1. n + 1 \in 1 .. Len(old.filter)
    BY FilterStepsAssumption DEF OldFilter
  <2>2. old.filter[n + 1] \in Byte \X Byte \X Byte \X Byte
    BY <2>1 DEF OldFilter
  <2> QED
    BY <2>2
<1>2. FilterRows(n) = IF s = <<0, 0, 0, 0>> THEN <<>> ELSE moves \o jump
  BY DEF FilterRows, FilterStep
<1>3. MakesRows(old.filter, n) <=> s[1] # 0 \/ s[2] # 0 \/ (s # <<0, 0, 0, 0>> /\ s[4] # n + 1)
  BY DEF MakesRows
<1> HIDE DEF s
<1>4. set \in BytePair
  <2>1. 128 + ((s[2] \div 16) % 8) * 16 \in Byte
    <3>1. \A a \in Nat : 128 + (a % 8) * 16 \in 0 .. 255
      OBVIOUS
    <3>2. s[2] \div 16 \in Nat
      BY <1>1, BytesAreNumbers
    <3> QED
      BY <3>1, <3>2 DEF Byte
  <2> QED
    BY <1>1, <2>1 DEF BytePair
<1>5. more \in Seq(BytePair) /\ Len(more) \in 0 .. 1
  <2>1. <<0, s[3]>> \in BytePair
    BY <1>1 DEF BytePair, Byte
  <2> QED
    BY <2>1
<1>6. jump \in Seq(BytePair) /\ Len(jump) \in 0 .. 1 /\ (s[4] # n + 1 => Len(jump) = 1)
  <2>1. <<TABLEJUMP, s[4]>> \in BytePair
    BY <1>1 DEF BytePair, Byte, TABLEJUMP
  <2> QED
    BY <2>1
<1> HIDE DEF set, more, jump
<1>7. /\ moves \in Seq(BytePair) /\ Len(moves) \in 0 .. 3
      /\ s[1] # 0 \/ s[2] # 0 => Len(moves) >= 1
  <2>1. CASE s[1] # 0
    <3>1. <<set>> \in Seq(BytePair) /\ Len(<<set>>) = 1
      BY <1>4
    <3>2. <<set>> \o more \in Seq(BytePair) /\ Len(<<set>> \o more) = 1 + Len(more)
      BY <1>5, <3>1, ConcatProperties
    <3>3. moves = <<set>> \o more
      BY <2>1
    <3> HIDE DEF moves
    <3>4. Len(moves) = 1 + Len(more) /\ moves \in Seq(BytePair)
      BY <3>2, <3>3
    <3>5. Len(moves) \in 0 .. 3 /\ Len(moves) >= 1
      <4>1. PICK a : a = Len(more)
        OBVIOUS
      <4>2. a \in 0 .. 1 /\ Len(moves) = 1 + a
        BY <1>5, <3>4, <4>1
      <4> QED
        BY <4>2
    <3> QED
      BY <3>4, <3>5
  <2>2. CASE ~ (s[1] # 0)
    BY <1>1, <2>2, ShortRun
  <2> QED
    BY <2>1, <2>2
<1> HIDE DEF moves
<1>8. moves \o jump \in Seq(BytePair) /\ Len(moves \o jump) = Len(moves) + Len(jump)
  BY <1>6, <1>7, ConcatProperties
<1>9. CASE s = <<0, 0, 0, 0>>
  <2>1. s[1] = 0 /\ s[2] = 0
    BY <1>9
  <2> QED
    BY <1>2, <1>3, <1>9, <2>1
<1>10. CASE s # <<0, 0, 0, 0>>
  <2>1. FilterRows(n) = moves \o jump
    BY <1>2, <1>10
  <2>2. PICK a, b : a = Len(moves) /\ b = Len(jump)
    OBVIOUS
  <2>3. a \in 0 .. 3 /\ b \in 0 .. 1 /\ (s[1] # 0 \/ s[2] # 0 => a >= 1) /\ (s[4] # n + 1 => b = 1)
    BY <1>6, <1>7, <2>2
  <2>4. FilterRows(n) \in Seq(BytePair) /\ Len(FilterRows(n)) = a + b
    BY <1>8, <2>1, <2>2
  <2>5. MakesRows(old.filter, n) => a >= 1 \/ b = 1
    BY <1>3, <2>3
  <2> QED
    BY <2>3, <2>4, <2>5
<1> QED
  BY <1>9, <1>10

\* The rows of the first n steps: each step's are where those before it end.
RowsAt(off) ==
  /\ off \in [0 .. FilterSteps - 1 -> Nat] /\ off[0] = 0
  /\ \A k \in 1 .. FilterSteps - 1 : off[k] = off[k - 1] + Len(FilterRows(k))

LEMMA RowsLaid ==
  ASSUME OldFilter(old.filter)
  PROVE  \E off : /\ RowsAt(off)
                  /\ \A n \in 0 .. FilterSteps - 1 :
                       /\ RowsUpTo(n) \in Seq(BytePair) /\ Len(RowsUpTo(n)) = off[n]
                       /\ off[n] <= 4 * n
                       /\ \A k \in 0 .. n : off[k] <= off[n]
<1> DEFINE N == FilterSteps - 1
           rows(n) == [k \in 1 .. n |-> FilterRows(k)]
           all == rows(N)
<1>1. N \in Nat
  BY FilterStepsAssumption
<1>2. ASSUME NEW n \in 0 .. N
      PROVE  /\ rows(n) \in Seq(Seq(BytePair)) /\ Len(rows(n)) = n /\ n \in Nat
             /\ \A k \in 1 .. n : rows(n)[k] = FilterRows(k)
  <2>1. \A k \in 1 .. n : FilterRows(k) \in Seq(BytePair)
    BY <1>1, FilterRowsTyped
  <2> QED
    BY <1>1, <2>1
<1>3. \A n \in 0 .. N : RowsUpTo(n) = FlattenSeq(rows(n))
  BY DEF RowsUpTo
<1>4. /\ all \in Seq(Seq(BytePair)) /\ Len(all) = N
      /\ \A k \in 1 .. N : all[k] = FilterRows(k)
  BY <1>1, <1>2
<1> HIDE DEF all, rows
<1>5. PICK off : Offsets(off, all)
  BY <1>4, OffsetsExist
<1>6. /\ off \in [0 .. N -> Nat] /\ off[0] = 0
      /\ \A k \in 1 .. N : off[k] = off[k - 1] + Len(FilterRows(k))
  BY <1>4, <1>5 DEF Offsets
<1>7. ASSUME NEW n \in 0 .. N
      PROVE  RowsUpTo(n) \in Seq(BytePair) /\ Len(RowsUpTo(n)) = off[n]
  <2> DEFINE short == [k \in 0 .. n |-> off[k]]
  <2>1. /\ short \in [0 .. n -> Nat] /\ short[0] = 0
        /\ \A k \in 1 .. n : short[k] = short[k - 1] + Len(FilterRows(k))
    <3>1. n \in Nat /\ \A k \in 0 .. n : k \in 0 .. N
      BY <1>1
    <3>2. short \in [0 .. n -> Nat] /\ \A k \in 0 .. n : short[k] = off[k]
      BY <1>6, <3>1
    <3>3. \A k \in 1 .. n : k \in 0 .. n /\ k - 1 \in 0 .. n /\ k \in 1 .. N
      BY <1>1, <3>1
    <3> HIDE DEF short
    <3>4. \A k \in 1 .. n : short[k] = short[k - 1] + Len(FilterRows(k))
      BY <1>6, <3>2, <3>3
    <3>5. 0 \in 0 .. n
      BY <3>1
    <3> QED
      BY <1>6, <3>2, <3>4, <3>5
  <2>2. short[n] = off[n]
    BY <1>1
  <2> HIDE DEF short
  <2>3. Offsets(short, rows(n))
    BY <1>2, <2>1 DEF Offsets
  <2>4. FlattenSeq(rows(n)) \in Seq(BytePair) /\ Laid(FlattenSeq(rows(n)), short, rows(n), n)
    BY <1>2, <2>3, FlattenLaid
  <2> QED
    BY <1>3, <2>2, <2>4 DEF Laid
<1>8. \A n \in 0 .. N : off[n] <= 4 * n
  <2> DEFINE far == {n \in 0 .. N : off[n] > 4 * n}
  <2>1. SUFFICES ASSUME far # {} PROVE FALSE
    BY <1>6
  <2>2. PICK n \in far : \A m \in far : n <= m
    <3>1. far \subseteq Nat
      OBVIOUS
    <3> HIDE DEF far
    <3> QED
      BY <2>1, <3>1, LeastOf
  <2>3. n \in 0 .. N /\ off[n] > 4 * n
    OBVIOUS
  <2>4. n # 0
    BY <1>6, <2>3
  <2>5. n \in 1 .. N /\ n - 1 \in 0 .. N
    BY <1>1, <2>3, <2>4
  <2>6. off[n - 1] <= 4 * (n - 1)
    <3>1. n - 1 \notin far
      BY <2>2, <2>3
    <3> QED
      BY <1>6, <2>5, <3>1
  <2>7. off[n] = off[n - 1] + Len(FilterRows(n)) /\ Len(FilterRows(n)) \in 0 .. 4
    BY <1>6, <2>5, FilterRowsTyped
  <2>8. off[n - 1] \in Nat
    BY <1>6, <2>5
  <2>9. PICK a, b, l : a = off[n] /\ b = off[n - 1] /\ l = Len(FilterRows(n))
    OBVIOUS
  <2>10. a > 4 * n /\ n \in Nat /\ b <= 4 * (n - 1) /\ a = b + l /\ l \in 0 .. 4 /\ b \in Nat
    <3>1. n \in Nat
      BY <1>1, <2>3
    <3> QED
      BY <2>3, <2>6, <2>7, <2>8, <2>9, <3>1
  <2> QED
    BY <2>10
<1>9. ASSUME NEW n \in 0 .. N, NEW k \in 0 .. n PROVE off[k] <= off[n]
  <2>1. k \in 0 .. Len(all) /\ n \in k .. Len(all)
    BY <1>1, <1>4
  <2> QED
    BY <1>4, <1>5, <2>1, OffsetsRise
<1> QED
  BY <1>6, <1>7, <1>8, <1>9 DEF RowsAt

LEMMA HighestStepBound ==
  ASSUME OldFilter(old.filter), old.instruments \in Seq(OldInstrument1),
         patterns \in Seq(Seq(NewRow))
  PROVE  HighestStep \in 0 .. FilterSteps - 1
<1> DEFINE a == {p.filter : p \in Range(old.instruments)}
           b == {FilterStep(n)[4] : n \in 0 .. FilterSteps - 1}
           c == {r[4] : r \in {row \in UNION {Range(p) : p \in Range(patterns)} : row[3] = 10}}
           named == a \cup b \cup c \cup {0}
           F == FilterSteps - 1
<1>1. a \subseteq Byte
  <2> SUFFICES ASSUME NEW p \in Range(old.instruments) PROVE p.filter \in Byte
    OBVIOUS
  <2>1. p \in OldInstrument1
    BY DEF Range
  <2> QED
    BY <2>1 DEF OldInstrument1
<1>2. b \subseteq Byte
  <2> SUFFICES ASSUME NEW n \in 0 .. FilterSteps - 1 PROVE FilterStep(n)[4] \in Byte
    OBVIOUS
  <2>1. n + 1 \in 1 .. Len(old.filter)
    BY FilterStepsAssumption DEF OldFilter
  <2>2. old.filter[n + 1] \in Byte \X Byte \X Byte \X Byte
    BY <2>1 DEF OldFilter
  <2> QED
    BY <2>2 DEF FilterStep
<1>3. c \subseteq Byte
  <2> SUFFICES ASSUME NEW p \in Range(patterns), NEW r \in Range(p) PROVE r[4] \in Byte
    OBVIOUS
  <2>1. p \in Seq(NewRow)
    BY DEF Range
  <2>2. r \in NewRow
    BY <2>1 DEF Range
  <2> QED
    BY <2>2 DEF NewRow
<1>4. F \in Nat /\ HighestStep = Min({Max(named), F})
  BY FilterStepsAssumption DEF HighestStep
<1> HIDE DEF a, b, c, F
<1>5. named \subseteq 0 .. 255 /\ named # {}
  BY <1>1, <1>2, <1>3 DEF Byte
<1> HIDE DEF named
<1>6. Max(named) \in Nat
  <2>1. Max(named) \in named
    <3>1. PICK top \in Nat : top = 255
      OBVIOUS
    <3>2. named \subseteq 0 .. top
      BY <1>5, <3>1
    <3> QED
      BY <1>5, <3>2, LastIn
  <2>2. \A x \in named : x \in Nat
    BY <1>5
  <2> QED
    BY <2>1, <2>2
<1>7. HighestStep = IF Max(named) <= F THEN Max(named) ELSE F
  BY <1>4, <1>6, MinOfTwo
<1> QED
  BY <1>4, <1>6, <1>7 DEF F

\* Where an old filter step begins: in the table, if it makes rows.
LEMMA StepsPoint ==
  ASSUME OldFilter(old.filter), 4 * (FilterSteps - 1) <= TableMax, NEW h \in 0 .. FilterSteps - 1
  PROVE  /\ RowsUpTo(h) \in Seq(BytePair) /\ Len(RowsUpTo(h)) <= TableMax
         /\ StepsFrom(h) \in [0 .. FilterSteps - 1 -> Byte]
         /\ \A n \in Byte :
              /\ Mapped(StepsFrom(h), n) \in Byte
              /\ (n \in 1 .. FilterSteps - 1 => MakesRows(old.filter, n))
                   => Mapped(StepsFrom(h), n) <= Len(RowsUpTo(h))
<1>1. /\ FilterSteps \in Nat /\ FilterSteps >= 2 /\ TableMax \in Nat /\ TableMax <= 255
      /\ h \in Nat /\ h <= FilterSteps - 1
  BY FilterStepsAssumption, TableMaxAssumption
<1>2. PICK off : /\ RowsAt(off)
                 /\ \A n \in 0 .. FilterSteps - 1 :
                      /\ RowsUpTo(n) \in Seq(BytePair) /\ Len(RowsUpTo(n)) = off[n]
                      /\ off[n] <= 4 * n
                      /\ \A k \in 0 .. n : off[k] <= off[n]
  BY RowsLaid
<1>3. \A n \in 0 .. FilterSteps - 1 : off[n] \in Nat
  BY <1>2 DEF RowsAt
<1>4. RowsUpTo(h) \in Seq(BytePair) /\ Len(RowsUpTo(h)) = off[h] /\ off[h] <= TableMax
  <2>1. off[h] <= 4 * h /\ off[h] \in Nat
    BY <1>2, <1>3
  <2>2. 4 * h <= 4 * (FilterSteps - 1)
    BY <1>1
  <2>3. 4 * (FilterSteps - 1) \in Nat
    BY <1>1
  <2>4. off[h] <= TableMax
    BY <1>1, <2>1, <2>2, <2>3
  <2> QED
    BY <1>2, <2>4
<1>5. ASSUME NEW n \in 1 .. h
      PROVE  /\ StepsFrom(h)[n] = off[n - 1] + 1 /\ StepsFrom(h)[n] \in Byte
             /\ MakesRows(old.filter, n) => StepsFrom(h)[n] <= off[h]
  <2>1. n \in 0 .. FilterSteps - 1 /\ n - 1 \in 0 .. FilterSteps - 1 /\ n \in 1 .. FilterSteps - 1
    BY <1>1
  <2>2. StepsFrom(h)[n] = off[n - 1] + 1
    <3>1. StepsFrom(h)[n] = Len(RowsUpTo(n - 1)) + 1
      BY <2>1 DEF StepsFrom
    <3> QED
      BY <1>2, <2>1, <3>1
  <2>3. off[n - 1] \in Nat /\ off[n - 1] <= 4 * (n - 1)
    BY <1>2, <1>3, <2>1
  <2>4. off[n - 1] + 1 \in Byte
    <3>1. PICK o \in Nat : o = off[n - 1]
      BY <2>3
    <3>2. o <= 4 * (n - 1) /\ n <= FilterSteps - 1 /\ n \in Nat /\ 4 * (FilterSteps - 1) <= 255
      BY <1>1, <2>1, <2>3, <3>1
    <3>3. o + 1 \in 0 .. 255
      BY <1>1, <3>2
    <3> QED
      BY <3>1, <3>3 DEF Byte
  <2>5. ASSUME MakesRows(old.filter, n) PROVE off[n - 1] + 1 <= off[h]
    <3>1. off[n] = off[n - 1] + Len(FilterRows(n)) /\ Len(FilterRows(n)) \in 0 .. 4
          /\ Len(FilterRows(n)) >= 1
      BY <1>2, <2>1, <2>5, FilterRowsTyped DEF RowsAt
    <3>2. off[n] <= off[h] /\ off[n] \in Nat /\ off[h] \in Nat
      BY <1>1, <1>2, <1>3, <2>1
    <3>3. PICK x, y, z, l : x = off[n - 1] /\ y = off[n] /\ z = off[h] /\ l = Len(FilterRows(n))
      OBVIOUS
    <3>4. x \in Nat /\ y \in Nat /\ z \in Nat /\ l \in 0 .. 4 /\ l >= 1 /\ y = x + l /\ y <= z
      BY <2>3, <3>1, <3>2, <3>3
    <3>5. x + 1 <= z
      BY <3>4
    <3> QED
      BY <3>3, <3>5
  <2> QED
    BY <2>2, <2>4, <2>5
<1>6. \A n \in 0 .. FilterSteps - 1 : n \notin 1 .. h => StepsFrom(h)[n] = 0
  BY DEF StepsFrom
<1>7. StepsFrom(h) \in [0 .. FilterSteps - 1 -> Byte]
  <2>1. \A n \in 0 .. FilterSteps - 1 : StepsFrom(h)[n] \in Byte
    BY <1>5, <1>6 DEF Byte
  <2>2. StepsFrom(h) = [n \in 0 .. FilterSteps - 1 |-> StepsFrom(h)[n]]
    BY DEF StepsFrom
  <2> HIDE DEF StepsFrom
  <2> QED
    BY <2>1, <2>2
<1>8. ASSUME NEW n \in Byte
      PROVE  /\ Mapped(StepsFrom(h), n) \in Byte
             /\ (n \in 1 .. FilterSteps - 1 => MakesRows(old.filter, n))
                   => Mapped(StepsFrom(h), n) <= off[h]
  <2>1. n \in Nat /\ off[h] \in Nat
    BY <1>3, BytesAreNumbers
  <2>2. CASE n \in 1 .. h
    <3>1. n < FilterSteps /\ n \in 1 .. FilterSteps - 1
      BY <1>1, <2>2
    <3>2. Mapped(StepsFrom(h), n) = StepsFrom(h)[n]
      BY <3>1 DEF Mapped
    <3> QED
      BY <1>5, <2>2, <3>1, <3>2
  <2>3. CASE n \notin 1 .. h
    <3>1. Mapped(StepsFrom(h), n) = 0
      <4>1. n < FilterSteps => n \in 0 .. FilterSteps - 1
        BY <1>1, <2>1
      <4> QED
        BY <1>6, <2>3, <4>1 DEF Mapped
    <3> QED
      BY <2>1, <3>1 DEF Byte
  <2> QED
    BY <2>2, <2>3
<1> QED
  BY <1>4, <1>7, <1>8

LEMMA ConvertFilterTyped ==
  ASSUME WithinLimits, TInv, ConvertFilter
  PROVE  TInv'
<1> DEFINE map == StepsFrom(HighestStep)
           rows == RowsUpTo(HighestStep)
           row(k) == IF rows[k][1] = TABLEJUMP THEN <<TABLEJUMP, Mapped(map, rows[k][2])>>
                     ELSE rows[k]
<1>1. /\ stage = "filter" /\ filtermap' = map /\ filter' = [k \in DOMAIN rows |-> row(k)]
      /\ instruments' = [n \in DOMAIN instruments |->
                           [instruments[n] EXCEPT !.filter = Mapped(map, @)]]
      /\ stage' = "fix" /\ at' = <<1, 1, 0>>
      /\ UNCHANGED <<old, wave, pulse, speed, patterns, clones, free, asked>>
  BY DEF ConvertFilter
<1>2. /\ old \in OldSongs /\ TablesOK /\ InstrumentsOK /\ StepsNamed /\ clones = <<>>
      /\ free \in 0 .. InstrMax /\ PatternsOK /\ old.format = "GTS!"
  BY <1>1 DEF TInv
<1>3. InLimits1(old) /\ 4 * (FilterSteps - 1) <= TableMax
  BY <1>2 DEF WithinLimits, InLimits
<1>4. OldFilter(old.filter)
  BY <1>3 DEF InLimits1, OldFilter
<1>5. HighestStep \in 0 .. FilterSteps - 1
  BY <1>2, <1>3, <1>4, HighestStepBound DEF InLimits1, PatternsOK
<1>6. /\ rows \in Seq(BytePair) /\ Len(rows) <= TableMax
      /\ map \in [0 .. FilterSteps - 1 -> Byte]
      /\ \A n \in Byte :
           /\ Mapped(map, n) \in Byte
           /\ (n \in 1 .. FilterSteps - 1 => MakesRows(old.filter, n))
                => Mapped(map, n) <= Len(rows)
  <2>1. PICK h : h = HighestStep
    OBVIOUS
  <2>2. h \in 0 .. FilterSteps - 1 /\ map = StepsFrom(h) /\ rows = RowsUpTo(h)
    BY <1>5, <2>1
  <2> HIDE DEF map, rows
  <2> QED
    BY <1>3, <1>4, <2>2, StepsPoint
<1> HIDE DEF map, rows
<1>7. ByteTable(filter') /\ Len(filter') = Len(rows)
  <2>1. \A k \in 1 .. Len(rows) : row(k) \in BytePair
    <3> SUFFICES ASSUME NEW k \in 1 .. Len(rows) PROVE row(k) \in BytePair
      OBVIOUS
    <3>1. rows[k] \in BytePair
      BY <1>6
    <3>2. rows[k][2] \in Byte
      BY <3>1 DEF BytePair
    <3>3. Mapped(map, rows[k][2]) \in Byte
      BY <1>6, <3>2
    <3>4. <<TABLEJUMP, Mapped(map, rows[k][2])>> \in BytePair
      BY <3>3 DEF BytePair, TABLEJUMP, Byte
    <3> QED
      BY <3>1, <3>4
  <2>2. filter' = [k \in 1 .. Len(rows) |-> row(k)] /\ Len(rows) \in Nat
    BY <1>1, <1>6
  <2> HIDE DEF row
  <2>3. filter' \in Seq(BytePair) /\ Len(filter') = Len(rows)
    BY <2>1, <2>2
  <2> QED
    BY <1>6, <2>3 DEF ByteTable
<1>8. TablesOK'
  BY <1>1, <1>2, <1>7 DEF TablesOK, ByteTable
<1>9. ASSUME NEW k \in 1 .. InstrMax - 1
      PROVE  /\ instruments'[k] \in Instrument /\ PointsWell(instruments[k])'
             /\ instruments'[k].filter <= Len(filter')
  <2>1. /\ instruments[k] \in Instrument /\ PointsWell(instruments[k])
        /\ k \in DOMAIN instruments
    BY <1>2 DEF InstrumentsOK
  <2>2. PICK i : i = instruments[k]
    OBVIOUS
  <2>3. i \in Instrument /\ i.filter \in Byte
    BY <2>1, <2>2 DEF Instrument
  <2>4. PICK v \in Byte : v = Mapped(map, i.filter)
    BY <1>6, <2>3
  <2>5. instruments'[k] = [i EXCEPT !.filter = v]
    BY <1>1, <2>1, <2>2, <2>4
  <2>6. v <= Len(rows)
    <3>1. i.filter \in 1 .. FilterSteps - 1 => MakesRows(old.filter, i.filter)
      BY <1>2, <2>2 DEF StepsNamed
    <3> QED
      BY <1>6, <2>3, <2>4, <3>1
  <2>7. /\ [i EXCEPT !.filter = v] \in Instrument /\ [i EXCEPT !.filter = v].filter = v
        /\ [i EXCEPT !.filter = v].wave = i.wave /\ [i EXCEPT !.filter = v].pulse = i.pulse
        /\ [i EXCEPT !.filter = v].vib = i.vib
    BY <2>3 DEF Instrument
  <2>8. i.wave <= Len(wave') /\ i.pulse <= Len(pulse') /\ i.vib <= Len(speed')
    BY <1>1, <2>1, <2>2 DEF PointsWell
  <2>9. PointsWell(instruments[k])'
    BY <2>5, <2>7, <2>8 DEF PointsWell
  <2> QED
    BY <1>7, <2>5, <2>6, <2>7, <2>9
<1>10. InstrumentsOK'
  <2>1. instruments' = [n \in 1 .. InstrMax - 1 |-> [instruments[n] EXCEPT !.filter = Mapped(map, @)]]
    BY <1>1, <1>2 DEF InstrumentsOK
  <2>2. instruments' \in [1 .. InstrMax - 1 -> Instrument]
    BY <1>9, <2>1
  <2> QED
    BY <1>9, <2>2 DEF InstrumentsOK
<1>11. FiltersPoint'
  BY <1>9 DEF FiltersPoint
<1>12. PatternsOK'
  <2>1. \A r : RowKept(r)' <=> RowKept(r)
    BY <1>1 DEF RowKept
  <2> QED
    BY <1>1, <1>2, <2>1 DEF PatternsOK
<1>13. ClonesOK' /\ at' \in Nat \X Nat \X (0 .. InstrMax - 1)
  <2>1. DOMAIN clones' = {}
    BY <1>1, <1>2
  <2>2. 0 \in 0 .. InstrMax - 1
    BY InstrMaxAssumption
  <2> QED
    BY <1>1, <2>1, <2>2 DEF ClonesOK
<1> QED
  BY <1>1, <1>2, <1>6, <1>8, <1>10, <1>11, <1>12, <1>13 DEF TInv

-----------------------------------------------------------------------------
(* Early GoatTracker 2 songs.                                              *)

\* A row of an early GoatTracker 2 song and the row it becomes.
NewNote(r) == IF old.beta THEN [r EXCEPT ![1] = BetaNote(@)] ELSE r

LEMMA NewNoteTyped ==
  ASSUME NEW r \in Byte \X Byte \X (0 .. CMD_SETTEMPO) \X Byte,
         (IF old.beta THEN BetaNote(r[1]) ELSE r[1]) \in FIRSTNOTE .. KEYON,
         NEW n \in Nat, n <= InstrMax - 1, r[2] <= n
  PROVE  NewNote(r) \in NewRow /\ NewNote(r)[1] # ENDPATT /\ NewNote(r)[2] <= n
<1>1. PICK a, b, c, d : r = <<a, b, c, d>> /\ b \in Byte /\ c \in 0 .. CMD_SETTEMPO /\ d \in Byte
  OBVIOUS
<1>2. PICK x : x = IF old.beta THEN BetaNote(a) ELSE a
  OBVIOUS
<1>3. x \in FIRSTNOTE .. KEYON
  BY <1>1, <1>2
<1>4. NewNote(r) = <<x, b, c, d>>
  <2>1. CASE old.beta
    <3>1. NewNote(r) = [<<a, b, c, d>> EXCEPT ![1] = BetaNote(a)]
      BY <1>1, <2>1 DEF NewNote
    <3> QED
      BY <1>2, <2>1, <3>1
  <2>2. CASE ~ old.beta
    BY <1>1, <1>2, <2>2 DEF NewNote
  <2> QED
    BY <2>1, <2>2
<1>5. b \in 0 .. InstrMax - 1 /\ b <= n
  <2>1. b \in Nat /\ b <= n
    BY <1>1, BytesAreNumbers
  <2> QED
    BY <2>1, InstrMaxAssumption
<1>6. x # ENDPATT
  BY <1>3 DEF FIRSTNOTE, KEYON, ENDPATT
<1>7. <<x, b, c, d>> \in NewRow
  BY <1>1, <1>3, <1>5 DEF NewRow
<1> QED
  BY <1>4, <1>5, <1>6, <1>7

LEMMA NewNotesTyped ==
  ASSUME InLimits2(old), PatternsFit(old.patterns), Len(old.instruments) \in 1 .. InstrMax - 1,
         old.format = "GTS2",
         NEW pats, pats = [k \in DOMAIN old.patterns |->
                             [r \in DOMAIN old.patterns[k] |-> NewNote(old.patterns[k][r])]]
  PROVE  /\ pats \in Seq(Seq(NewRow)) /\ PatternsFit(pats) /\ Len(pats) = Len(old.patterns)
         /\ \A k \in DOMAIN pats :
              /\ pats[k][1][1] # ENDPATT
              /\ \A r \in DOMAIN pats[k] : RowKept(pats[k][r])
<1> DEFINE n == Len(old.instruments)
           OldRow == Byte \X Byte \X (0 .. CMD_SETTEMPO) \X Byte
<1>1. n \in Nat /\ n <= InstrMax - 1
  BY InstrMaxAssumption
<1>2. /\ old.patterns \in Seq(Seq(OldRow)) /\ Len(old.patterns) \in Nat
      /\ DOMAIN old.patterns = 1 .. Len(old.patterns)
  BY DEF InLimits2
<1>3. ASSUME NEW k \in DOMAIN old.patterns
      PROVE  /\ pats[k] \in Seq(NewRow) /\ Len(pats[k]) = Len(old.patterns[k])
             /\ Len(pats[k]) \in 1 .. MAX_PATTROWS
             /\ \A r \in DOMAIN pats[k] : pats[k][r][1] # ENDPATT /\ pats[k][r][2] <= n
  <2> DEFINE p == old.patterns[k]
  <2>1. /\ p \in Seq(OldRow) /\ Len(p) \in 1 .. MAX_PATTROWS
        /\ \A r \in DOMAIN p :
             /\ (IF old.beta THEN BetaNote(p[r][1]) ELSE p[r][1]) \in FIRSTNOTE .. KEYON
             /\ p[r][2] <= n
    BY <1>2 DEF InLimits2, PatternsFit
  <2>2. pats[k] = [r \in DOMAIN p |-> NewNote(p[r])]
    OBVIOUS
  <2> HIDE DEF p, n
  <2>3. \A r \in DOMAIN p : NewNote(p[r]) \in NewRow /\ NewNote(p[r])[1] # ENDPATT
                            /\ NewNote(p[r])[2] <= n
    <3> SUFFICES ASSUME NEW r \in DOMAIN p
                 PROVE  NewNote(p[r]) \in NewRow /\ NewNote(p[r])[1] # ENDPATT
                        /\ NewNote(p[r])[2] <= n
      OBVIOUS
    <3>1. p[r] \in OldRow
      BY <2>1
    <3>2. PICK row \in OldRow : row = p[r]
      BY <3>1
    <3>3. (IF old.beta THEN BetaNote(row[1]) ELSE row[1]) \in FIRSTNOTE .. KEYON /\ row[2] <= n
      BY <2>1, <3>2
    <3>4. NewNote(row) \in NewRow /\ NewNote(row)[1] # ENDPATT /\ NewNote(row)[2] <= n
      BY <1>1, <3>3, NewNoteTyped
    <3> QED
      BY <3>2, <3>4
  <2>4. pats[k] = [r \in 1 .. Len(p) |-> NewNote(p[r])] /\ Len(p) \in Nat /\ DOMAIN p = 1 .. Len(p)
    <3>1. Len(p) \in Nat /\ DOMAIN p = 1 .. Len(p)
      BY <2>1
    <3> QED
      BY <2>2, <3>1
  <2>5. pats[k] \in Seq(NewRow) /\ Len(pats[k]) = Len(p) /\ DOMAIN pats[k] = DOMAIN p
    BY <2>3, <2>4
  <2>6. \A r \in DOMAIN pats[k] : pats[k][r] = NewNote(p[r])
    BY <2>4, <2>5
  <2> QED
    BY <2>1, <2>3, <2>5, <2>6 DEF p
<1>4. pats \in Seq(Seq(NewRow)) /\ Len(pats) = Len(old.patterns) /\ DOMAIN pats = DOMAIN old.patterns
  <2>1. PICK l \in Nat : l = Len(old.patterns) /\ DOMAIN old.patterns = 1 .. l
    BY <1>2
  <2> DEFINE f(k) == [r \in DOMAIN old.patterns[k] |-> NewNote(old.patterns[k][r])]
  <2>2. pats = [k \in 1 .. l |-> f(k)]
    BY <2>1
  <2> HIDE DEF f
  <2>3. ASSUME NEW k \in 1 .. l PROVE f(k) \in Seq(NewRow)
    <3>1. pats[k] = f(k) /\ k \in DOMAIN old.patterns
      BY <2>1, <2>2
    <3> QED
      BY <1>3, <3>1
  <2>4. pats \in Seq(Seq(NewRow)) /\ Len(pats) = l /\ DOMAIN pats = 1 .. l
    BY <2>2, <2>3
  <2> QED
    BY <2>1, <2>4
<1>5. PatternsFit(pats)
  BY <1>3, <1>4 DEF PatternsFit
<1>6. ASSUME NEW k \in DOMAIN pats
      PROVE  pats[k][1][1] # ENDPATT /\ \A r \in DOMAIN pats[k] : RowKept(pats[k][r])
  <2>1. 1 \in DOMAIN pats[k]
    <3>1. pats[k] \in Seq(NewRow) /\ Len(pats[k]) \in 1 .. MAX_PATTROWS
      BY <1>3, <1>4, <1>6
    <3> QED
      BY <3>1
  <2> QED
    BY <1>3, <1>4, <1>6, <2>1 DEF RowKept
<1> QED
  BY <1>4, <1>5, <1>6

LEMMA ReadVibratoTyped ==
  ASSUME WithinLimits, TInv, ReadVibrato
  PROVE  TInv'
<1> DEFINE p == old.instruments[at]
           got == SpeedEntry(speed, p.vibrato, VibratoMode)
           ins == [Blank EXCEPT !.wave = p.wave, !.pulse = p.pulse, !.filter = p.filter,
                                !.vib = got.ptr, !.gate = p.gate, !.first = p.first]
<1>1. /\ stage = "instruments" /\ old.format = "GTS2" /\ speed' = got.table
      /\ instruments' = [instruments EXCEPT ![at] = ins]
      /\ wave' = old.wave /\ pulse' = old.pulse /\ filter' = old.filter
      /\ IF at < Len(old.instruments) THEN at' = at + 1 /\ stage' = stage
         ELSE at' = <<1, 1, 0>> /\ stage' = "fix"
      /\ UNCHANGED <<old, filtermap, clones, free>>
  BY DEF ReadVibrato, Asked
<1>2. patterns' = [k \in DOMAIN old.patterns |->
                     [r \in DOMAIN old.patterns[k] |-> NewNote(old.patterns[k][r])]]
  BY DEF ReadVibrato, NewNote
<1>3. /\ old \in OldSongs /\ TablesOK /\ InstrumentsOK /\ clones = <<>> /\ ReadingOK
      /\ filtermap \in [0 .. FilterSteps - 1 -> Byte] /\ free \in 0 .. InstrMax
      /\ at \in 1 .. Len(old.instruments)
  BY <1>1 DEF TInv, ReadingOK
<1>4. InLimits2(old) /\ Len(old.instruments) \in 1 .. InstrMax - 1 /\ PatternsFit(old.patterns)
  BY <1>1, <1>3 DEF WithinLimits, InLimits
<1>5. /\ p \in OldInstrument2 /\ InstrMax \in 2 .. 64 /\ at \in 1 .. InstrMax - 1
      /\ p.wave <= Len(old.wave) /\ p.pulse <= Len(old.pulse) /\ p.filter <= Len(old.filter)
  BY <1>3, <1>4, InstrMaxAssumption DEF InLimits2
<1>6. /\ p.wave \in Byte /\ p.pulse \in Byte /\ p.filter \in Byte /\ p.vibrato \in Byte
      /\ p.gate \in Byte /\ p.first \in Byte
  BY <1>5 DEF OldInstrument2
<1>7. ByteTable(wave') /\ ByteTable(pulse') /\ ByteTable(filter')
  BY <1>1, <1>4 DEF InLimits2, ByteTable
<1>8. /\ Len(wave') >= Len(wave) /\ Len(pulse') >= Len(pulse) /\ Len(filter') >= Len(filter)
  <2>1. Len(wave') \in Nat /\ Len(pulse') \in Nat /\ Len(filter') \in Nat
    BY <1>7 DEF ByteTable
  <2>2. Len(<<>>) = 0
    OBVIOUS
  <2> QED
    BY <1>1, <1>3, <2>1, <2>2 DEF ReadingOK
<1>9. /\ ByteTable(speed') /\ Len(speed') >= Len(speed) /\ got.ptr \in Byte
      /\ got.ptr <= Len(speed')
  <2>1. VibratoMode \in Modes
    BY DEF VibratoMode, Modes
  <2>2. ByteTable(speed)
    BY <1>3 DEF TablesOK
  <2> HIDE DEF p
  <2>3. ByteTable(got.table) /\ Len(got.table) >= Len(speed) /\ got.ptr \in Byte
        /\ got.ptr <= Len(got.table)
    BY <1>6, <2>1, <2>2, EntryOfBytes
  <2> HIDE DEF got
  <2> QED
    BY <1>1, <2>3
<1> HIDE DEF got, p
<1>10. /\ ins \in Instrument /\ ins.wave = p.wave /\ ins.pulse = p.pulse /\ ins.vib = got.ptr
       /\ ins.filter = p.filter
  <2>1. Blank \in Instrument
    BY DEF Blank, Instrument, Byte
  <2> QED
    BY <1>6, <1>9, <2>1 DEF Instrument
<1> HIDE DEF ins
<1>11. TablesOK'
  BY <1>7, <1>9 DEF TablesOK, ByteTable
<1>12. instruments' \in [1 .. InstrMax - 1 -> Instrument]
  BY <1>1, <1>3, <1>10 DEF InstrumentsOK
<1>13. ASSUME NEW k \in 1 .. InstrMax - 1
       PROVE  PointsWell(instruments[k])' /\ instruments'[k].filter <= Len(filter')
  <2>1. instruments \in [1 .. InstrMax - 1 -> Instrument]
    BY <1>3 DEF InstrumentsOK
  <2>2. CASE k = at
    <3>1. instruments'[k] = ins
      BY <1>1, <2>1, <2>2
    <3> QED
      BY <1>1, <1>5, <1>9, <1>10, <3>1 DEF PointsWell
  <2>3. CASE k # at
    <3>1. instruments'[k] = instruments[k]
      BY <1>1, <2>1, <2>3
    <3>2. instruments[k].wave <= Len(wave') /\ instruments[k].pulse <= Len(pulse')
          /\ instruments[k].vib <= Len(speed')
      <4>1. ByteTable(wave) /\ ByteTable(pulse) /\ ByteTable(speed)
        BY <1>3 DEF TablesOK
      <4> QED
        BY <1>3, <1>7, <1>8, <1>9, <4>1, PointsOn
    <3>3. instruments[k].filter <= Len(filter')
      <4>1. instruments[k] \in Instrument
        BY <2>1
      <4>2. instruments[k].filter \in Byte
        BY <4>1 DEF Instrument
      <4>3. instruments[k].filter \in Nat /\ instruments[k].filter <= Len(filter)
        BY <1>1, <1>3, <4>2, BytesAreNumbers DEF ReadingOK, FiltersPoint
      <4>4. Len(filter) \in Nat /\ Len(filter') \in Nat
        BY <1>3, <1>7 DEF TablesOK, ByteTable
      <4> QED
        BY <1>8, <4>3, <4>4
    <3> QED
      BY <3>1, <3>2, <3>3 DEF PointsWell
  <2> QED
    BY <2>2, <2>3
<1>14. InstrumentsOK' /\ FiltersPoint'
  BY <1>12, <1>13 DEF InstrumentsOK, FiltersPoint
<1>15. CASE at < Len(old.instruments)
  <2>1. /\ at' = at + 1 /\ stage' = "instruments" /\ at + 1 \in 1 .. Len(old.instruments)
    BY <1>1, <1>3, <1>4, <1>15
  <2>2. ReadingOK'
    BY <1>1, <1>14, <2>1 DEF ReadingOK
  <2> QED
    BY <1>1, <1>3, <1>11, <1>14, <2>1, <2>2 DEF TInv
<1>16. CASE ~ (at < Len(old.instruments))
  <2>1. stage' = "fix" /\ at' = <<1, 1, 0>>
    BY <1>1, <1>16
  <2>2. PatternsOK'
    <3>1. /\ patterns' \in Seq(Seq(NewRow)) /\ PatternsFit(patterns')
          /\ Len(patterns') = Len(old.patterns)
          /\ \A k \in DOMAIN patterns' :
               /\ patterns'[k][1][1] # ENDPATT
               /\ \A r \in DOMAIN patterns'[k] : RowKept(patterns'[k][r])
      BY <1>1, <1>2, <1>4, NewNotesTyped
    <3>2. \A r : RowKept(r)' <=> RowKept(r)
      BY <1>1 DEF RowKept
    <3> QED
      BY <1>1, <3>1, <3>2 DEF PatternsOK, RowKept
  <2>3. ClonesOK' /\ at' \in Nat \X Nat \X (0 .. InstrMax - 1)
    <3>1. DOMAIN clones' = {}
      BY <1>1, <1>3
    <3>2. 0 \in 0 .. InstrMax - 1
      BY InstrMaxAssumption
    <3> QED
      BY <2>1, <3>1, <3>2 DEF ClonesOK
  <2> QED
    BY <1>1, <1>3, <1>11, <1>14, <2>1, <2>2, <2>3 DEF TInv
<1> QED
  BY <1>15, <1>16

-----------------------------------------------------------------------------
(* Rows fixed one after the other.                                         *)

Position == Nat \X Nat \X (0 .. InstrMax - 1)

FixInv ==
  /\ old \in OldSongs /\ old.format \in {"GTS!", "GTS2"}
  /\ TablesOK /\ InstrumentsOK /\ FiltersPoint /\ ClonesOK /\ PatternsOK
  /\ filtermap \in [0 .. FilterSteps - 1 -> Byte] /\ free \in 0 .. InstrMax
  /\ at \in Position

LEMMA FixTInv == stage = "fix" => (TInv <=> FixInv)
BY DEF TInv, FixInv, Position

LEMMA FixTInvPrime == stage' = "fix" => (TInv' <=> FixInv')
BY DEF TInv, FixInv, Position

\* What a row is fixed to keeps its note.
RowFits(r) == r \in NewRow /\ RowKept(r) /\ r[1] = Here[1]

LEMMA HereTyped ==
  ASSUME PatternsOK, at \in Position, Fixing
  PROVE  /\ RowFits(Here) /\ Playing \in 0 .. InstrMax - 1
         /\ at[1] \in DOMAIN patterns /\ at[2] \in DOMAIN patterns[at[1]]
         /\ patterns[at[1]] \in Seq(NewRow)
<1>1. at[1] \in DOMAIN patterns /\ at[2] \in DOMAIN patterns[at[1]]
  BY DEF Fixing
<1>2. patterns[at[1]] \in Seq(NewRow)
  BY <1>1 DEF PatternsOK
<1>3. patterns[at[1]][at[2]] \in NewRow
  BY <1>1, <1>2
<1>4. RowFits(Here)
  BY <1>1, <1>3 DEF RowFits, Here, PatternsOK
<1>5. Here[2] \in 0 .. InstrMax - 1 /\ at[3] \in 0 .. InstrMax - 1
  BY <1>3 DEF Here, NewRow, Position
<1>6. Playing \in 0 .. InstrMax - 1
  BY <1>5 DEF Playing
<1> QED
  BY <1>1, <1>2, <1>4, <1>6

LEMMA PutRowTyped ==
  ASSUME PatternsOK, at \in Position, Fixing, old' = old, NEW r, RowFits(r), PutRow(r)
  PROVE  PatternsOK' /\ (at \in Position)'
<1> DEFINE a == at[1]
           b == at[2]
           p == patterns[a]
<1>1. /\ a \in DOMAIN patterns /\ b \in DOMAIN p /\ p \in Seq(NewRow)
      /\ Playing \in 0 .. InstrMax - 1 /\ RowFits(Here) /\ Here = p[b]
  BY HereTyped DEF Here
<1>2. patterns' = [patterns EXCEPT ![a] = [p EXCEPT ![b] = r]]
  BY DEF PutRow
<1>3. at' = IF b < Len(p) THEN <<a, b + 1, Playing>> ELSE <<a + 1, 1, 0>>
  BY DEF PutRow
<1>4. a \in Nat /\ b \in Nat
  BY DEF Position
<1>5. at' \in Nat \X Nat \X (0 .. InstrMax - 1)
  <2>1. 0 \in 0 .. InstrMax - 1
    BY InstrMaxAssumption
  <2>2. <<a, b + 1, Playing>> \in Nat \X Nat \X (0 .. InstrMax - 1)
    BY <1>1, <1>4
  <2>3. <<a + 1, 1, 0>> \in Nat \X Nat \X (0 .. InstrMax - 1)
    BY <1>4, <2>1
  <2> QED
    BY <1>3, <2>2, <2>3
<1> DEFINE q == [p EXCEPT ![b] = r]
<1>6. q \in Seq(NewRow) /\ Len(q) = Len(p) /\ DOMAIN q = DOMAIN p
      /\ \A k \in DOMAIN p : q[k] = IF k = b THEN r ELSE p[k]
  BY <1>1 DEF RowFits
<1>7. patterns \in Seq(Seq(NewRow))
  BY DEF PatternsOK
<1> HIDE DEF q, p, a, b
<1>8. /\ patterns' \in Seq(Seq(NewRow)) /\ Len(patterns') = Len(patterns)
      /\ DOMAIN patterns' = DOMAIN patterns
      /\ \A k \in DOMAIN patterns : patterns'[k] = IF k = a THEN q ELSE patterns[k]
  BY <1>1, <1>2, <1>6, <1>7 DEF q
<1>9. p = patterns[a]
  BY DEF p, a
<1>10. PatternsFit(patterns)'
  <2>1. Len(patterns') \in 1 .. MAX_PATT
    BY <1>8 DEF PatternsOK, PatternsFit
  <2>2. ASSUME NEW k \in DOMAIN patterns' PROVE Len(patterns'[k]) \in 1 .. MAX_PATTROWS
    <3>1. Len(patterns[k]) \in 1 .. MAX_PATTROWS /\ (k = a => Len(q) = Len(patterns[k]))
      BY <1>6, <1>8, <1>9 DEF PatternsOK, PatternsFit
    <3> QED
      BY <1>8, <3>1
  <2> QED
    BY <2>1, <2>2 DEF PatternsFit
<1>11. ASSUME NEW k \in DOMAIN patterns
       PROVE  /\ patterns'[k][1][1] # ENDPATT
              /\ \A j \in DOMAIN patterns'[k] : RowKept(patterns'[k][j])
  <2>1. /\ patterns[k][1][1] # ENDPATT
        /\ \A j \in DOMAIN patterns[k] : RowKept(patterns[k][j])
    BY DEF PatternsOK
  <2>2. CASE k = a
    <3>1. patterns'[k] = q
      BY <1>8, <2>2
    <3>2. 1 \in DOMAIN p
      <4>1. Len(p) \in 1 .. MAX_PATTROWS
        BY <1>9, <1>1 DEF PatternsOK, PatternsFit
      <4> QED
        BY <1>1, <4>1
    <3>3. q[1][1] # ENDPATT
      BY <1>1, <1>6, <1>9, <2>1, <2>2, <3>2 DEF RowFits
    <3>4. \A j \in DOMAIN q : RowKept(q[j])
      BY <1>6, <1>9, <2>1, <2>2 DEF RowFits
    <3> QED
      BY <3>1, <3>3, <3>4
  <2>3. CASE k # a
    BY <1>8, <2>1, <2>3
  <2> QED
    BY <2>2, <2>3
<1>12. \A x : RowKept(x)' <=> RowKept(x)
  BY DEF RowKept
<1>13. PatternsOK'
  <2>1. Len(patterns') = Len(old'.patterns)
    BY <1>8 DEF PatternsOK
  <2> QED
    BY <1>8, <1>10, <1>11, <1>12, <2>1 DEF PatternsOK, RowKept
<1> QED
  BY <1>5, <1>13 DEF Position

\* Instrument numbers in use.
LEMMA BeforeEndTyped ==
  ASSUME NEW S, NEW p \in Seq(S)
  PROVE  /\ BeforeEnd(p) \in Seq(S) /\ Len(BeforeEnd(p)) <= Len(p)
         /\ \A k \in 1 .. Len(BeforeEnd(p)) : BeforeEnd(p)[k] = p[k] /\ p[k][1] # ENDPATT
         /\ Len(p) >= 1 /\ p[1][1] # ENDPATT => Len(BeforeEnd(p)) >= 1
<1> DEFINE ends == {k \in DOMAIN p : p[k][1] = ENDPATT}
<1>1. DOMAIN p = 1 .. Len(p) /\ Len(p) \in Nat /\ ends \subseteq 1 .. Len(p)
  OBVIOUS
<1>2. CASE ends = {}
  <2>1. BeforeEnd(p) = p
    BY <1>2 DEF BeforeEnd
  <2>2. \A k \in DOMAIN p : p[k][1] # ENDPATT
    BY <1>2
  <2> QED
    BY <1>1, <2>1, <2>2
<1>3. CASE ends # {}
  <2>1. Min(ends) \in ends /\ \A y \in ends : Min(ends) <= y
    <3>1. ends \subseteq Nat
      BY <1>1
    <3> HIDE DEF ends
    <3> QED
      BY <1>3, <3>1, FirstIn
  <2>2. PICK m : m = Min(ends)
    OBVIOUS
  <2>3. BeforeEnd(p) = SubSeq(p, 1, m - 1)
    BY <1>3, <2>2 DEF BeforeEnd
  <2>4. m \in 1 .. Len(p) /\ p[m][1] = ENDPATT
    BY <1>1, <2>1, <2>2
  <2>5. \A k \in 1 .. m - 1 : k \in DOMAIN p /\ p[k][1] # ENDPATT
    <3> SUFFICES ASSUME NEW k \in 1 .. m - 1, p[k][1] = ENDPATT PROVE FALSE
      BY <1>1, <2>4
    <3>1. k \in ends
      BY <1>1, <2>4
    <3>2. m <= k
      BY <2>1, <2>2, <3>1
    <3> QED
      BY <2>4, <3>2
  <2> HIDE DEF ends
  <2>6. /\ SubSeq(p, 1, m - 1) \in Seq(S) /\ Len(SubSeq(p, 1, m - 1)) = m - 1
        /\ \A k \in 1 .. m - 1 : SubSeq(p, 1, m - 1)[k] = p[k]
    BY <1>1, <2>4
  <2>7. p[1][1] # ENDPATT => m # 1
    BY <2>4
  <2> QED
    BY <1>1, <2>3, <2>4, <2>5, <2>6, <2>7
<1> QED
  BY <1>2, <1>3

LEMMA UsedBound ==
  ASSUME patterns \in Seq(Seq(NewRow))
  PROVE  /\ HighestUsed \in 0 .. InstrMax - 1
         /\ \A p \in Range(patterns) : \A r \in Range(BeforeEnd(p)) : r[2] <= HighestUsed
<1> DEFINE used == {0} \cup {r[2] : r \in UNION {Range(BeforeEnd(p)) : p \in Range(patterns)}}
<1>1. ASSUME NEW p \in Range(patterns), NEW r \in Range(BeforeEnd(p))
      PROVE  r[2] \in 0 .. InstrMax - 1
  <2>1. p \in Seq(NewRow)
    BY DEF Range
  <2>2. BeforeEnd(p) \in Seq(NewRow)
    BY <2>1, BeforeEndTyped
  <2>3. r \in NewRow
    BY <2>2 DEF Range
  <2> QED
    BY <2>3 DEF NewRow
<1>2. used \subseteq 0 .. InstrMax - 1 /\ used # {} /\ InstrMax - 1 \in Nat
  BY <1>1, InstrMaxAssumption
<1>3. HighestUsed = Max(used)
  BY DEF HighestUsed
<1>4. \A p \in Range(patterns) : \A r \in Range(BeforeEnd(p)) : r[2] \in used
  OBVIOUS
<1> HIDE DEF used
<1>5. Max(used) \in used /\ \A y \in used : Max(used) >= y
  BY <1>2, LastIn
<1>6. \A y \in used : y \in Nat /\ y \in 0 .. InstrMax - 1
  BY <1>2
<1> QED
  BY <1>3, <1>4, <1>5, <1>6

LEMMA NextFreeBound ==
  ASSUME PatternsOK, free \in 0 .. InstrMax
  PROVE  NextFree \in 1 .. InstrMax
<1>1. HighestUsed \in 0 .. InstrMax - 1
  BY UsedBound DEF PatternsOK
<1> QED
  BY <1>1, InstrMaxAssumption DEF NextFree

\* A longer table keeps what points into it.
LEMMA FurtherPoints ==
  ASSUME FixInv, TablesOK', Len(wave') >= Len(wave), pulse' = pulse, filter' = filter,
         Len(speed') >= Len(speed), instruments' = instruments, clones' = clones
  PROVE  InstrumentsOK' /\ FiltersPoint' /\ ClonesOK'
<1>1. InstrumentsOK /\ FiltersPoint /\ ClonesOK /\ TablesOK
  BY DEF FixInv
<1>2. Len(pulse) \in Nat
  BY <1>1 DEF TablesOK, ByteTable
<1>3. ASSUME NEW k \in 1 .. InstrMax - 1 PROVE PointsWell(instruments[k])'
  <2>1. instruments[k].wave <= Len(wave') /\ instruments[k].pulse <= Len(pulse')
        /\ instruments[k].vib <= Len(speed')
    <3>1. ByteTable(wave) /\ ByteTable(pulse) /\ ByteTable(speed)
          /\ ByteTable(wave') /\ ByteTable(pulse') /\ ByteTable(speed')
      BY <1>1 DEF TablesOK, ByteTable
    <3>2. Len(pulse') >= Len(pulse)
      BY <1>2
    <3> QED
      BY <1>1, <3>1, <3>2, PointsOn
  <2> QED
    BY <2>1 DEF PointsWell
<1>4. InstrumentsOK'
  BY <1>1, <1>3 DEF InstrumentsOK
<1>5. FiltersPoint'
  BY <1>1 DEF FiltersPoint
<1>6. ClonesOK'
  <2> SUFFICES ASSUME NEW k \in DOMAIN clones, CloneOK(clones[k]) PROVE CloneOK(clones[k])'
    BY <1>1 DEF ClonesOK
  <2>1. Len(wave) \in Nat /\ Len(wave') \in Nat
    BY <1>1 DEF TablesOK, ByteTable
  <2> QED
    BY <2>1 DEF CloneOK
<1> QED
  BY <1>4, <1>5, <1>6

LEMMA RowFitsChanged ==
  ASSUME NEW r, RowFits(r), NEW d \in Byte
  PROVE  RowFits([r EXCEPT ![4] = d])
<1>1. PICK a, b, c, e : r = <<a, b, c, e>> /\ r \in NewRow
  BY DEF NewRow, RowFits
<1>2. [r EXCEPT ![4] = d] = <<a, b, c, d>>
  BY <1>1
<1>3. <<a, b, c, d>> \in NewRow
  BY <1>1 DEF NewRow
<1> QED
  BY <1>1, <1>2, <1>3 DEF RowFits, RowKept

\* A parameter that becomes a pointer of the speed table.
LEMMA AskingTyped ==
  ASSUME FixInv, NEW data \in Byte, NEW mode \in Modes, Fixing,
         NEW got, got = SpeedEntry(speed, data, mode), speed' = got.table,
         NEW r, RowFits(r), PutRow([r EXCEPT ![4] = got.ptr]),
         free' = NextFree, stage' = "fix",
         UNCHANGED <<old, instruments, wave, pulse, filter, filtermap, clones>>
  PROVE  TInv'
<1>1. /\ PatternsOK /\ at \in Position /\ free \in 0 .. InstrMax /\ ByteTable(speed)
      /\ old \in OldSongs /\ old.format \in {"GTS!", "GTS2"} /\ TablesOK
      /\ filtermap \in [0 .. FilterSteps - 1 -> Byte]
  BY DEF FixInv, TablesOK
<1>2. ByteTable(got.table) /\ Len(got.table) >= Len(speed) /\ got.ptr \in Byte
  BY <1>1, EntryOfBytes
<1>3. TablesOK' /\ Len(speed') >= Len(speed)
  BY <1>1, <1>2 DEF TablesOK, ByteTable
<1>4. InstrumentsOK' /\ FiltersPoint' /\ ClonesOK'
  <2>1. Len(wave) \in Nat
    BY <1>1 DEF TablesOK, ByteTable
  <2> QED
    BY <1>3, <2>1, FurtherPoints
<1>5. PICK p \in Byte : p = got.ptr
  BY <1>2
<1>6. RowFits([r EXCEPT ![4] = p])
  BY RowFitsChanged
<1>7. PutRow([r EXCEPT ![4] = p])
  BY <1>5
<1>8. PatternsOK' /\ (at \in Position)'
  BY <1>1, <1>6, <1>7, PutRowTyped
<1>9. free' \in 0 .. InstrMax
  <2>1. NextFree \in 1 .. InstrMax
    BY <1>1, NextFreeBound
  <2> QED
    BY <2>1, InstrMaxAssumption
<1>10. FixInv'
  BY <1>1, <1>3, <1>4, <1>8, <1>9 DEF FixInv
<1> QED
  BY <1>10, FixTInvPrime

LEMMA FixParameterTyped ==
  ASSUME TInv, FixParameter
  PROVE  TInv'
<1> DEFINE got == SpeedEntry(speed, Here[4], ModeOf(Here[3]))
<1>1. /\ stage = "fix" /\ Fixing /\ ModeOf(Here[3]) # "none"
      /\ speed' = got.table /\ PutRow([Here EXCEPT ![4] = got.ptr]) /\ free' = NextFree
      /\ UNCHANGED <<old, stage, instruments, wave, pulse, filter, filtermap, clones>>
  BY DEF FixParameter, Fixing, Asked
<1>2. FixInv
  BY <1>1, FixTInv
<1>3. RowFits(Here) /\ Here \in NewRow /\ Here[4] \in Byte
  <2>1. RowFits(Here)
    BY <1>1, <1>2, HereTyped DEF FixInv
  <2> QED
    BY <2>1 DEF RowFits, NewRow
<1>4. ModeOf(Here[3]) \in Modes
  BY <1>1 DEF ModeOf, VibratoMode, Modes
<1>5. PICK g, m, d : g = got /\ m = ModeOf(Here[3]) /\ d = Here[4]
  OBVIOUS
<1> HIDE DEF got
<1>7. g = SpeedEntry(speed, d, m) /\ d \in Byte /\ m \in Modes
  BY <1>3, <1>4, <1>5 DEF got
<1>8. speed' = g.table /\ PutRow([Here EXCEPT ![4] = g.ptr]) /\ stage' = "fix"
  BY <1>1, <1>5
<1> QED
  BY <1>1, <1>2, <1>3, <1>7, <1>8, AskingTyped

LEMMA FunkByte ==
  ASSUME OldFilter(old.filter)
  PROVE  Funk \in Byte
<1>1. 0 + 1 \in 1 .. Len(old.filter)
  BY FilterStepsAssumption DEF OldFilter
<1>2. old.filter[0 + 1] \in Byte \X Byte \X Byte \X Byte
  BY <1>1 DEF OldFilter
<1>3. PICK s \in Byte \X Byte \X Byte \X Byte : s = FilterStep(0)
  BY <1>2 DEF FilterStep
<1>4. PICK a \in Nat, b \in Nat : a = s[3] /\ b = s[4]
  BY BytesAreNumbers
<1>5. ((a * 16) % 256) + (b % 16) \in 0 .. 255
  <2>1. a % 16 \in 0 .. 15 /\ b % 16 \in 0 .. 15
    OBVIOUS
  <2>2. (a * 16) % 256 = (a % 16) * 16
    OBVIOUS
  <2> QED
    BY <2>1, <2>2
<1> QED
  BY <1>3, <1>4, <1>5 DEF Funk, Byte

LEMMA FixFunktempoTyped ==
  ASSUME WithinLimits, TInv, FixFunktempo
  PROVE  TInv'
<1> DEFINE got == SpeedEntry(speed, Funk, "funktempo")
<1>1. /\ stage = "fix" /\ Fixing /\ old.format = "GTS!"
      /\ speed' = got.table /\ PutRow([Here EXCEPT ![3] = 14, ![4] = got.ptr]) /\ free' = NextFree
      /\ UNCHANGED <<old, stage, instruments, wave, pulse, filter, filtermap, clones>>
  BY DEF FixFunktempo, Fixing, Asked
<1>2. FixInv
  BY <1>1, FixTInv
<1>3. Funk \in Byte /\ "funktempo" \in Modes
  <2>1. InLimits1(old)
    BY <1>1, <1>2 DEF FixInv, WithinLimits, InLimits
  <2>2. OldFilter(old.filter)
    BY <2>1 DEF InLimits1, OldFilter
  <2> QED
    BY <2>2, FunkByte DEF Modes
<1>4. RowFits(Here)
  BY <1>1, <1>2, HereTyped DEF FixInv
<1>5. PICK a, b, c, d : Here = <<a, b, c, d>> /\ <<a, b, c, d>> \in NewRow
  BY <1>4 DEF RowFits, NewRow
<1>6. PICK r : r = <<a, b, 14, d>>
  OBVIOUS
<1>7. RowFits(r)
  <2>1. <<a, b, 14, d>> \in NewRow
    BY <1>5 DEF NewRow, CMD_SETTEMPO
  <2> QED
    BY <1>4, <1>5, <1>6, <2>1 DEF RowFits, RowKept
<1>8. PICK g, m, d0 : g = got /\ m = "funktempo" /\ d0 = Funk
  OBVIOUS
<1>9. [Here EXCEPT ![3] = 14, ![4] = got.ptr] = [r EXCEPT ![4] = g.ptr]
  <2>1. PICK v : v = got.ptr
    OBVIOUS
  <2>2. [<<a, b, c, d>> EXCEPT ![3] = 14, ![4] = v] = <<a, b, 14, v>>
    OBVIOUS
  <2>3. [<<a, b, 14, d>> EXCEPT ![4] = v] = <<a, b, 14, v>>
    OBVIOUS
  <2>4. g.ptr = v
    BY <1>8, <2>1
  <2> HIDE DEF got
  <2> QED
    BY <1>5, <1>6, <2>1, <2>2, <2>3, <2>4
<1> HIDE DEF got
<1>10. g = SpeedEntry(speed, d0, m) /\ d0 \in Byte /\ m \in Modes
  BY <1>3, <1>8 DEF got
<1>11. speed' = g.table /\ PutRow([r EXCEPT ![4] = g.ptr]) /\ stage' = "fix"
  BY <1>1, <1>8, <1>9
<1> QED
  BY <1>1, <1>2, <1>7, <1>10, <1>11, AskingTyped

LEMMA SkipEmptyTyped ==
  ASSUME TInv, SkipEmpty
  PROVE  TInv'
<1>1. /\ stage = "fix" /\ at' = <<at[1] + 1, 1, 0>>
      /\ UNCHANGED <<old, stage, instruments, wave, pulse, filter, speed, patterns, filtermap,
                     clones, free>>
  BY DEF SkipEmpty
<1>2. FixInv
  BY <1>1, FixTInv
<1>3. at' \in Position
  <2>1. 0 \in 0 .. InstrMax - 1
    BY InstrMaxAssumption
  <2> QED
    BY <1>1, <1>2, <2>1 DEF FixInv, Position
<1>4. FixInv'
  <2>1. TablesOK' /\ InstrumentsOK' /\ FiltersPoint' /\ ClonesOK'
    BY <1>1, <1>2 DEF FixInv, TablesOK, InstrumentsOK, PointsWell, FiltersPoint, ClonesOK, CloneOK
  <2>2. \A r : RowKept(r)' <=> RowKept(r)
    BY <1>1 DEF RowKept
  <2>3. PatternsOK'
    BY <1>1, <1>2, <2>2 DEF FixInv, PatternsOK
  <2> QED
    BY <1>1, <1>2, <1>3, <2>1, <2>3 DEF FixInv
<1> QED
  BY <1>1, <1>4, FixTInvPrime

LEMMA FixOtherTyped ==
  ASSUME TInv, FixOther
  PROVE  TInv'
<1> DEFINE new == IF old.format = "GTS2" THEN Here
                  ELSE IF Here[3] = 10 THEN [Here EXCEPT ![4] = Mapped(filtermap, @)]
                  ELSE IF Here[3] = 0 THEN [Here EXCEPT ![4] = 0] ELSE Here
<1>1. /\ stage = "fix" /\ Fixing /\ PutRow(new) /\ free' = NextFree
      /\ UNCHANGED <<old, stage, instruments, wave, pulse, filter, speed, filtermap, clones>>
  BY DEF FixOther, Fixing
<1>2. FixInv
  BY <1>1, FixTInv
<1>3. RowFits(Here) /\ Here[4] \in Byte
  <2>1. RowFits(Here)
    BY <1>1, <1>2, HereTyped DEF FixInv
  <2> QED
    BY <2>1 DEF RowFits, NewRow
<1>4. RowFits(new)
  <2>1. Mapped(filtermap, Here[4]) \in Byte
    <3>1. filtermap \in [0 .. FilterSteps - 1 -> Byte] /\ Here[4] \in Nat
      BY <1>2, <1>3, BytesAreNumbers DEF FixInv
    <3>2. Here[4] < FilterSteps => Here[4] \in 0 .. FilterSteps - 1
      BY <3>1, FilterStepsAssumption
    <3>3. 0 \in Byte
      BY DEF Byte
    <3> QED
      BY <3>1, <3>2, <3>3 DEF Mapped
  <2>2. PICK m \in Byte : m = Mapped(filtermap, Here[4])
    BY <2>1
  <2>3. RowFits([Here EXCEPT ![4] = m]) /\ RowFits([Here EXCEPT ![4] = 0])
    <3>1. 0 \in Byte
      BY DEF Byte
    <3> QED
      BY <1>3, <3>1, RowFitsChanged
  <2>4. [Here EXCEPT ![4] = m] = [Here EXCEPT ![4] = Mapped(filtermap, @)]
    BY <2>2
  <2>5. new \in {Here, [Here EXCEPT ![4] = m], [Here EXCEPT ![4] = 0]}
    BY <2>4
  <2> QED
    BY <1>3, <2>3, <2>5
<1>5. PICK r : r = new
  OBVIOUS
<1> HIDE DEF new
<1>6. RowFits(r) /\ PutRow(r)
  BY <1>1, <1>4, <1>5
<1>7. PatternsOK' /\ (at \in Position)'
  BY <1>1, <1>2, <1>6, PutRowTyped DEF FixInv
<1>8. free' \in 0 .. InstrMax
  <2>1. NextFree \in 1 .. InstrMax
    BY <1>2, NextFreeBound DEF FixInv
  <2> QED
    BY <1>1, <2>1, InstrMaxAssumption
<1>9. TablesOK' /\ InstrumentsOK' /\ FiltersPoint' /\ ClonesOK'
  BY <1>1, <1>2 DEF FixInv, TablesOK, InstrumentsOK, PointsWell, FiltersPoint, ClonesOK, CloneOK
<1>10. FixInv'
  BY <1>1, <1>2, <1>7, <1>8, <1>9 DEF FixInv
<1> QED
  BY <1>1, <1>10, FixTInvPrime

-----------------------------------------------------------------------------
(* Arpeggios.                                                              *)

LEMMA WaveformsTyped ==
  ASSUME ByteTable(wave), NEW ptr \in Nat, ptr <= Len(wave)
  PROVE  Waveforms(ptr) \in Seq(BytePair)
<1> DEFINE rows == SubSeq(wave, ptr, Len(wave))
           jumps == {k \in DOMAIN rows : rows[k][1] = TABLEJUMP}
           n == IF jumps # {} THEN Min(jumps) - 1 ELSE Room(wave)
           waves == [k \in 1 .. n |-> <<rows[1 + ((k - 1) % Len(rows))][1], 0>>]
<1>1. Waveforms(ptr) = IF ptr = 0 THEN <<>> ELSE waves
  BY DEF Waveforms
<1>2. CASE ptr = 0
  BY <1>1, <1>2
<1>3. CASE ptr # 0
  <2>1. /\ wave \in Seq(BytePair) /\ Len(wave) \in Nat /\ Len(wave) <= TableMax
        /\ TableMax \in Nat /\ ptr \in 1 .. Len(wave)
    BY <1>3, TableMaxAssumption DEF ByteTable
  <2>2. PICK l : l = Len(wave) - ptr + 1
    OBVIOUS
  <2>3. l \in Nat /\ l >= 1
    BY <2>1, <2>2
  <2>4. rows \in Seq(BytePair) /\ Len(rows) = l /\ DOMAIN rows = 1 .. l
    BY <2>1, <2>2
  <2> HIDE DEF rows
  <2>5. n \in Nat
    <3>1. CASE jumps # {}
      <4>1. jumps \subseteq Nat /\ jumps \subseteq 1 .. l
        BY <2>3, <2>4
      <4> HIDE DEF jumps
      <4>2. Min(jumps) \in jumps
        BY <3>1, <4>1, FirstIn
      <4>3. Min(jumps) \in 1 .. l
        BY <4>1, <4>2
      <4> QED
        BY <2>3, <3>1, <4>3
    <3>2. CASE ~ (jumps # {})
      BY <2>1, <3>2 DEF Room
    <3> QED
      BY <3>1, <3>2
  <2> HIDE DEF n
  <2>6. \A k \in 1 .. n : <<rows[1 + ((k - 1) % Len(rows))][1], 0>> \in BytePair
    <3> SUFFICES ASSUME NEW k \in 1 .. n
                 PROVE  <<rows[1 + ((k - 1) % Len(rows))][1], 0>> \in BytePair
      OBVIOUS
    <3>1. \A j \in Nat : 1 + (j % l) \in 1 .. l
      BY <2>3
    <3>2. k - 1 \in Nat
      BY <2>5
    <3>3. 1 + ((k - 1) % l) \in 1 .. l
      BY <3>1, <3>2
    <3>4. PICK i \in 1 .. l : i = 1 + ((k - 1) % Len(rows))
      BY <2>4, <3>3
    <3>5. rows[i] \in BytePair
      BY <2>4
    <3>6. rows[i][1] \in Byte /\ 0 \in Byte
      BY <3>5 DEF BytePair, Byte
    <3>7. <<rows[i][1], 0>> \in BytePair
      BY <3>6 DEF BytePair
    <3> QED
      BY <3>4, <3>7
  <2> DEFINE f(k) == <<rows[1 + ((k - 1) % Len(rows))][1], 0>>
  <2>7. \A k \in 1 .. n : f(k) \in BytePair
    BY <2>6
  <2>8. Waveforms(ptr) = [k \in 1 .. n |-> f(k)]
    BY <1>1, <1>3
  <2> HIDE DEF f
  <2> QED
    BY <2>5, <2>7, <2>8
<1> QED
  BY <1>2, <1>3

\* What an arpeggio makes: the wave table it grows to, a free instrument or a pointer.
ArpeggioMakes(got, key) ==
  /\ ByteTable(got.wave) /\ Len(got.wave) >= Len(wave)
  /\ got.instruments \in [1 .. InstrMax - 1 -> Instrument]
  /\ \A k \in 1 .. InstrMax - 1 :
       /\ got.instruments[k].wave <= Len(got.wave)
       /\ got.instruments[k].pulse <= Len(pulse) /\ got.instruments[k].vib <= Len(speed)
       /\ got.instruments[k].filter <= Len(filter)
  /\ \A k \in DOMAIN got.clones :
       \/ got.clones[k].by = "instrument" /\ got.clones[k].is \in 1 .. InstrMax - 1
       \/ got.clones[k].by # "instrument" /\ got.clones[k].is \in 1 .. Len(got.wave)
  /\ got.free \in 0 .. InstrMax

LEMMA WithArpeggioTyped ==
  ASSUME FixInv, NEW r \in NewRow, NEW ins \in 1 .. InstrMax - 1,
         NEW got, got = WithArpeggio(r, ins)
  PROVE  ArpeggioMakes(got, ArpeggioKey(ins, r[4]))
<1> DEFINE key == ArpeggioKey(ins, r[4])
           start == Len(wave) + 1
           copied == Extended(wave, Waveforms(instruments[ins].wave))
           hold == r[4] \div 128
           loop == <<<<hold, (r[4] \div 16) % 8>>, <<hold, r[4] % 16>>, <<hold, 0>>,
                     <<TABLEJUMP, Len(copied) + 1>>>>
           fits == Len(copied) < TableMax - 3
           new == NextFree < InstrMax
           clone == [instruments[ins] EXCEPT !.wave = start]
<1>1. /\ ByteTable(wave) /\ ByteTable(pulse) /\ ByteTable(speed) /\ ByteTable(filter)
      /\ InstrumentsOK /\ FiltersPoint /\ ClonesOK /\ free \in 0 .. InstrMax /\ PatternsOK
  BY DEF FixInv, TablesOK
<1>2. /\ Len(wave) \in Nat /\ Len(wave) <= TableMax /\ TableMax \in Nat /\ start = Len(wave) + 1
      /\ Len(pulse) \in Nat /\ Len(speed) \in Nat /\ Len(filter) \in Nat
      /\ InstrMax \in 2 .. 64
  BY <1>1, TableMaxAssumption, InstrMaxAssumption DEF ByteTable
<1>3. NextFree \in 1 .. InstrMax
  BY <1>1, NextFreeBound
<1>4. instruments[ins] \in Instrument /\ PointsWell(instruments[ins])
      /\ instruments[ins].filter <= Len(filter)
  BY <1>1 DEF InstrumentsOK, FiltersPoint
<1>5. ByteTable(copied) /\ Len(copied) \in Nat /\ Len(copied) >= Len(wave)
  <2>1. instruments[ins].wave \in Nat /\ instruments[ins].wave <= Len(wave)
    <3>1. instruments[ins].wave \in Byte
      BY <1>4 DEF Instrument
    <3> QED
      BY <1>4, <3>1, BytesAreNumbers DEF PointsWell
  <2>2. PICK w : w = Waveforms(instruments[ins].wave)
    OBVIOUS
  <2>3. w \in Seq(BytePair)
    BY <1>1, <2>1, <2>2, WaveformsTyped
  <2>4. copied = Extended(wave, w)
    BY <2>2
  <2> HIDE DEF copied
  <2>5. ByteTable(copied) /\ IsExtended(copied, wave, w)
    BY <1>1, <2>3, <2>4, BytesExtended
  <2> QED
    BY <2>5 DEF ByteTable, IsExtended
<1> HIDE DEF copied
<1>6. fits => ByteTable(copied \o loop) /\ Len(copied \o loop) = Len(copied) + 4
  <2> SUFFICES ASSUME fits PROVE ByteTable(copied \o loop) /\ Len(copied \o loop) = Len(copied) + 4
    OBVIOUS
  <2>1. PICK d \in Byte : d = r[4]
    BY DEF NewRow
  <2>2. /\ hold \in Byte /\ (r[4] \div 16) % 8 \in Byte /\ r[4] % 16 \in Byte
    <3>1. d \div 128 \in Byte /\ (d \div 16) % 8 \in Byte /\ d % 16 \in Byte
      BY DEF Byte
    <3> QED
      BY <2>1, <3>1
  <2>3. Len(copied) + 1 \in Byte
    <3>1. Len(copied) + 1 \in Nat /\ Len(copied) + 1 <= TableMax
      BY <1>2, <1>5
    <3> QED
      BY <1>2, <3>1, PositionByte
  <2> DEFINE a == <<hold, (r[4] \div 16) % 8>>
             b == <<hold, r[4] % 16>>
             c == <<hold, 0>>
             e == <<TABLEJUMP, Len(copied) + 1>>
  <2>4. a \in BytePair /\ b \in BytePair /\ c \in BytePair /\ e \in BytePair
    <3>1. 0 \in Byte /\ TABLEJUMP \in Byte
      BY DEF Byte, TABLEJUMP
    <3>2. a \in BytePair /\ b \in BytePair
      BY <2>2 DEF BytePair
    <3>3. c \in BytePair
      BY <2>2, <3>1 DEF BytePair
    <3>4. e \in BytePair
      BY <2>3, <3>1 DEF BytePair
    <3> QED
      BY <3>2, <3>3, <3>4
  <2>5. loop = <<a, b, c, e>>
    OBVIOUS
  <2> HIDE DEF a, b, c, e, loop
  <2>6. loop \in Seq(BytePair) /\ Len(loop) = 4
    BY <2>4, <2>5
  <2>7. copied \in Seq(BytePair)
    BY <1>5 DEF ByteTable
  <2>8. copied \o loop \in Seq(BytePair) /\ Len(copied \o loop) = Len(copied) + Len(loop)
    BY <2>6, <2>7, ConcatProperties
  <2>9. Len(copied) + 4 <= TableMax
    BY <1>2, <1>5
  <2> QED
    BY <2>6, <2>8, <2>9 DEF ByteTable
<1> HIDE DEF loop
<1>7. new => NextFree \in 1 .. InstrMax - 1
  BY <1>2, <1>3
<1>8. fits => start \in Byte /\ clone \in Instrument /\ clone.wave = start
              /\ clone.pulse = instruments[ins].pulse /\ clone.vib = instruments[ins].vib
              /\ clone.filter = instruments[ins].filter
              /\ start \in 1 .. Len(copied) + 4
  <2> SUFFICES ASSUME fits
               PROVE  start \in Byte /\ clone \in Instrument /\ clone.wave = start
                      /\ clone.pulse = instruments[ins].pulse /\ clone.vib = instruments[ins].vib
                      /\ clone.filter = instruments[ins].filter
                      /\ start \in 1 .. Len(copied) + 4
    OBVIOUS
  <2>1. start \in Nat /\ start <= TableMax /\ start \in 1 .. Len(copied) + 4
    BY <1>2, <1>5
  <2>2. start \in Byte
    BY <1>2, <2>1, PositionByte
  <2>3. PICK i \in Instrument : i = instruments[ins]
    BY <1>4
  <2> HIDE DEF start
  <2>4. /\ [i EXCEPT !.wave = start] \in Instrument /\ [i EXCEPT !.wave = start].wave = start
        /\ [i EXCEPT !.wave = start].pulse = i.pulse /\ [i EXCEPT !.wave = start].vib = i.vib
        /\ [i EXCEPT !.wave = start].filter = i.filter
    BY <2>2 DEF Instrument
  <2> QED
    BY <2>1, <2>2, <2>3, <2>4
<1>9. \A k \in 1 .. InstrMax - 1 :
        /\ instruments[k] \in Instrument
        /\ instruments[k].wave <= Len(wave) /\ instruments[k].wave \in Nat
        /\ instruments[k].pulse <= Len(pulse)
        /\ instruments[k].vib <= Len(speed) /\ instruments[k].filter <= Len(filter)
  <2> SUFFICES ASSUME NEW k \in 1 .. InstrMax - 1
               PROVE  /\ instruments[k] \in Instrument
                      /\ instruments[k].wave <= Len(wave) /\ instruments[k].wave \in Nat
                      /\ instruments[k].pulse <= Len(pulse)
                      /\ instruments[k].vib <= Len(speed) /\ instruments[k].filter <= Len(filter)
    OBVIOUS
  <2>1. instruments[k] \in Instrument /\ PointsWell(instruments[k])
    BY <1>1 DEF InstrumentsOK
  <2>2. instruments[k].wave \in Byte
    BY <2>1 DEF Instrument
  <2> QED
    BY <1>1, <2>1, <2>2, BytesAreNumbers DEF PointsWell, FiltersPoint
<1>10. instruments \in [1 .. InstrMax - 1 -> Instrument]
  BY <1>1 DEF InstrumentsOK
<1>11. CASE key \in DOMAIN clones
  <2>1. got = [wave |-> wave, instruments |-> instruments, clones |-> clones, free |-> NextFree]
    BY <1>11 DEF WithArpeggio
  <2> QED
    BY <1>1, <1>2, <1>3, <1>9, <1>10, <2>1 DEF ArpeggioMakes, ClonesOK, CloneOK
<1>12. CASE key \notin DOMAIN clones /\ ~ fits
  <2>1. got = [wave |-> copied, instruments |-> instruments, clones |-> clones, free |-> NextFree + 0]
    BY <1>12 DEF WithArpeggio, copied
  <2>2. NextFree + 0 \in 0 .. InstrMax
    BY <1>2, <1>3
  <2>3. got.wave = copied /\ got.instruments = instruments /\ got.clones = clones
        /\ got.free \in 0 .. InstrMax
    BY <2>1, <2>2
  <2>4. \A k \in 1 .. InstrMax - 1 : instruments[k].wave <= Len(copied)
    BY <1>2, <1>5, <1>9
  <2>5. \A k \in DOMAIN clones :
          \/ clones[k].by = "instrument" /\ clones[k].is \in 1 .. InstrMax - 1
          \/ clones[k].by # "instrument" /\ clones[k].is \in 1 .. Len(copied)
    BY <1>1, <1>2, <1>5 DEF ClonesOK, CloneOK
  <2> QED
    BY <1>5, <1>9, <1>10, <2>3, <2>4, <2>5 DEF ArpeggioMakes
<1>13. CASE key \notin DOMAIN clones /\ fits
  <2> DEFINE is == IF new THEN [by |-> "instrument", is |-> NextFree]
                   ELSE [by |-> "pointer", is |-> start]
             more == [k \in DOMAIN clones \cup {key} |-> IF k # key THEN clones[k] ELSE is]
             them == IF new THEN [instruments EXCEPT ![NextFree] = clone] ELSE instruments
  <2>1. got = [wave |-> copied \o loop, instruments |-> them, clones |-> more,
               free |-> NextFree + IF new THEN 1 ELSE 0]
    BY <1>13 DEF WithArpeggio, copied, loop
  <2> DEFINE long == copied \o loop
  <2>2. ByteTable(long) /\ Len(long) = Len(copied) + 4 /\ Len(long) >= Len(wave)
    <3>1. ByteTable(long) /\ Len(long) = Len(copied) + 4
      BY <1>6, <1>13
    <3> QED
      BY <1>2, <1>5, <3>1
  <2> HIDE DEF long
  <2>3. got.wave = long /\ got.instruments = them /\ got.clones = more
        /\ got.free = NextFree + IF new THEN 1 ELSE 0
    BY <2>1 DEF long
  <2>4. got.free \in 0 .. InstrMax
    <3>1. CASE new
      <4>1. got.free = NextFree + 1
        BY <2>3, <3>1
      <4>2. NextFree \in 1 .. InstrMax - 1
        BY <1>7, <3>1
      <4> QED
        BY <1>2, <4>1, <4>2
    <3>2. CASE ~ new
      <4>1. got.free = NextFree + 0
        BY <2>3, <3>2
      <4> QED
        BY <1>2, <1>3, <4>1
    <3> QED
      BY <3>1, <3>2
  <2>5. \A k \in 1 .. InstrMax - 1 :
          /\ them[k] \in Instrument
          /\ them[k].wave <= Len(long)
          /\ them[k].pulse <= Len(pulse)
          /\ them[k].vib <= Len(speed) /\ them[k].filter <= Len(filter)
    <3> SUFFICES ASSUME NEW k \in 1 .. InstrMax - 1
                 PROVE  /\ them[k] \in Instrument
                        /\ them[k].wave <= Len(long)
                        /\ them[k].pulse <= Len(pulse)
                        /\ them[k].vib <= Len(speed) /\ them[k].filter <= Len(filter)
      OBVIOUS
    <3>1. CASE new /\ k = NextFree
      <4>1. them[k] = clone
        BY <1>10, <3>1
      <4>2. clone.wave = start /\ start <= Len(long)
        BY <1>2, <1>5, <1>8, <1>13, <2>2
      <4>3. clone.pulse <= Len(pulse) /\ clone.vib <= Len(speed) /\ clone.filter <= Len(filter)
        BY <1>8, <1>9, <1>13
      <4> QED
        BY <1>8, <1>13, <4>1, <4>2, <4>3
    <3>2. CASE ~ (new /\ k = NextFree)
      <4>1. them[k] = instruments[k]
        BY <1>10, <3>2
      <4>2. instruments[k].wave <= Len(long)
        BY <1>2, <1>5, <1>9, <2>2
      <4> QED
        BY <1>9, <4>1, <4>2
    <3> QED
      BY <3>1, <3>2
  <2>6. them \in [1 .. InstrMax - 1 -> Instrument]
    BY <1>7, <1>8, <1>10, <1>13
  <2>7. \A k \in DOMAIN more :
          \/ more[k].by = "instrument" /\ more[k].is \in 1 .. InstrMax - 1
          \/ more[k].by # "instrument" /\ more[k].is \in 1 .. Len(long)
    <3> SUFFICES ASSUME NEW k \in DOMAIN clones \cup {key}
                 PROVE  \/ more[k].by = "instrument" /\ more[k].is \in 1 .. InstrMax - 1
                        \/ more[k].by # "instrument" /\ more[k].is \in 1 .. Len(long)
      OBVIOUS
    <3>1. CASE k # key
      <4>1. more[k] = clones[k] /\ k \in DOMAIN clones
        BY <3>1
      <4>2. CloneOK(clones[k])
        BY <1>1, <4>1 DEF ClonesOK
      <4> QED
        BY <1>2, <1>5, <2>2, <4>1, <4>2 DEF CloneOK
    <3>2. CASE k = key
      <4>1. more[k] = is
        BY <3>2
      <4>2. start \in 1 .. Len(long)
        BY <1>8, <1>13, <2>2
      <4> QED
        BY <1>7, <4>1, <4>2
    <3> QED
      BY <3>1, <3>2
  <2> HIDE DEF them, more
  <2> QED
    BY <2>2, <2>3, <2>4, <2>5, <2>6, <2>7 DEF ArpeggioMakes
<1> QED
  BY <1>11, <1>12, <1>13

LEMMA FixArpeggioTyped ==
  ASSUME TInv, FixArpeggio
  PROVE  TInv'
<1>1. PICK got, key, r :
        /\ got = WithArpeggio(Here, Playing) /\ key = ArpeggioKey(Playing, Here[4])
        /\ r = Arpeggiated(Here, key, got.clones)
  OBVIOUS
<1>2. /\ stage = "fix" /\ Fixing /\ old.format = "GTS!" /\ Playing # 0
      /\ wave' = got.wave /\ instruments' = got.instruments
      /\ clones' = got.clones /\ free' = got.free /\ PutRow(r)
      /\ UNCHANGED <<old, stage, pulse, filter, speed, filtermap>>
  BY <1>1 DEF FixArpeggio, Fixing
<1>3. FixInv
  BY <1>2, FixTInv
<1>4. /\ RowFits(Here) /\ Here \in NewRow /\ Playing \in 1 .. InstrMax - 1
  <2>1. RowFits(Here) /\ Playing \in 0 .. InstrMax - 1
    BY <1>2, <1>3, HereTyped DEF FixInv
  <2> QED
    BY <1>2, <2>1, InstrMaxAssumption DEF RowFits
<1>5. ArpeggioMakes(got, key)
  <2>1. PICK h, p : h = Here /\ p = Playing
    OBVIOUS
  <2> QED
    BY <1>1, <1>3, <1>4, <2>1, WithArpeggioTyped
<1>6. ByteTable(wave') /\ Len(wave') >= Len(wave) /\ free' \in 0 .. InstrMax
  BY <1>2, <1>5 DEF ArpeggioMakes
<1>7. TablesOK'
  BY <1>2, <1>3, <1>6 DEF FixInv, TablesOK, ByteTable
<1>8. InstrumentsOK' /\ FiltersPoint' /\ ClonesOK'
  BY <1>2, <1>5 DEF ArpeggioMakes, InstrumentsOK, PointsWell, FiltersPoint, ClonesOK, CloneOK
<1>9. RowFits(r)
  <2>1. PICK a, b, c, d : Here = <<a, b, c, d>> /\ <<a, b, c, d>> \in NewRow
    BY <1>4 DEF NewRow
  <2>2. \A x : x[1] = a => RowKept(x)
    BY <1>2 DEF RowKept
  <2>3. \A x \in 0 .. InstrMax - 1, y \in 0 .. CMD_SETTEMPO, z \in Byte :
          <<a, x, y, z>> \in NewRow
    BY <2>1 DEF NewRow
  <2>4. /\ b \in 0 .. InstrMax - 1 /\ c \in 0 .. CMD_SETTEMPO /\ 0 \in Byte
        /\ 8 \in 0 .. CMD_SETTEMPO
    BY <2>1 DEF NewRow, CMD_SETTEMPO, Byte
  <2>5. CASE key \notin DOMAIN got.clones
    <3>1. r = <<a, b, c, 0>>
      BY <1>1, <2>1, <2>5 DEF Arpeggiated
    <3> QED
      BY <2>1, <2>2, <2>3, <2>4, <3>1 DEF RowFits
  <2>6. CASE key \in DOMAIN got.clones /\ got.clones[key].by = "instrument"
    <3>1. PICK i \in 0 .. InstrMax - 1 : i = got.clones[key].is
      BY <1>5, <2>6 DEF ArpeggioMakes
    <3>2. r = [[Here EXCEPT ![2] = i] EXCEPT ![4] = 0]
      BY <1>1, <2>6, <3>1 DEF Arpeggiated
    <3>3. r = <<a, i, c, 0>>
      BY <2>1, <3>2
    <3> QED
      BY <2>1, <2>2, <2>3, <2>4, <3>3 DEF RowFits
  <2>7. CASE key \in DOMAIN got.clones /\ got.clones[key].by # "instrument"
    <3>1. PICK i \in 1 .. Len(got.wave) : i = got.clones[key].is
      BY <1>5, <2>7 DEF ArpeggioMakes
    <3>2. i \in Byte
      <4>1. Len(got.wave) \in Nat /\ Len(got.wave) <= TableMax
        BY <1>5 DEF ArpeggioMakes, ByteTable
      <4> QED
        BY <4>1, PositionByte
    <3>3. r = [[Here EXCEPT ![3] = 8] EXCEPT ![4] = i]
      BY <1>1, <2>7, <3>1 DEF Arpeggiated
    <3>4. r = <<a, b, 8, i>>
      BY <2>1, <3>3
    <3> QED
      BY <2>1, <2>2, <2>3, <2>4, <3>2, <3>4 DEF RowFits
  <2> QED
    BY <2>5, <2>6, <2>7
<1>10. PatternsOK' /\ (at \in Position)'
  BY <1>2, <1>3, <1>9, PutRowTyped DEF FixInv
<1>11. FixInv'
  BY <1>2, <1>3, <1>6, <1>7, <1>8, <1>10 DEF FixInv
<1> QED
  BY <1>2, <1>11, FixTInvPrime

-----------------------------------------------------------------------------
(* The song an import ends with.                                           *)

LEMMA RegatedTyped ==
  ASSUME NEW i \in Instrument, NEW j, j = Regated(i)
  PROVE  /\ j \in Instrument /\ j.wave = i.wave /\ j.pulse = i.pulse /\ j.filter = i.filter
         /\ j.vib = i.vib
<1> DEFINE hard == IF i.first >= 128 /\ i.gate < 128 THEN 128 ELSE 0
           first == i.first % 128
           gated == i.gate + hard
           gate == gated + IF first = 0 /\ (gated \div 64) % 2 = 0 THEN 64 ELSE 0
<1>1. i.first \in Byte /\ i.gate \in Byte
  BY DEF Instrument
<1>2. PICK f \in 0 .. 255, g \in 0 .. 255 : f = i.first /\ g = i.gate
  BY <1>1 DEF Byte
<1>3. first \in Byte
  <2>1. f % 128 \in 0 .. 255
    OBVIOUS
  <2> QED
    BY <1>2, <2>1 DEF Byte
<1>4. gated \in 0 .. 255
  <2>1. g + (IF f >= 128 /\ g < 128 THEN 128 ELSE 0) \in 0 .. 255
    OBVIOUS
  <2> QED
    BY <1>2, <2>1
<1>5. gate \in Byte
  <2>1. \A x \in 0 .. 255 : (x \div 64) % 2 = 0 => x + 64 \in 0 .. 255
    OBVIOUS
  <2> HIDE DEF gated, first
  <2> QED
    BY <1>4, <2>1 DEF Byte
<1>6. j = [i EXCEPT !.first = first, !.gate = gate]
  BY DEF Regated
<1> HIDE DEF first, gate
<1> QED
  BY <1>3, <1>5, <1>6 DEF Instrument

LEMMA DoubledTyped ==
  ASSUME NEW r \in BytePair
  PROVE  Doubled(r) \in BytePair
<1>1. PICK a \in Byte, b \in Byte : r = <<a, b>>
  BY DEF BytePair
<1>2. CASE r[1] >= 128 \/ r[2] = 0
  BY <1>2 DEF Doubled
<1>3. CASE ~ (r[1] >= 128 \/ r[2] = 0)
  <2> DEFINE x == Larger(2 * Signed(r[2]), -128)
             m == Min({x, 127})
  <2>1. Signed(b) \in Int
    BY BytesAreNumbers DEF Signed
  <2>2. x \in Int
    BY <1>1, <2>1 DEF Larger
  <2> HIDE DEF x
  <2>3. \E y \in {x, 127} : \A z \in {x, 127} : y <= z
    BY <2>2
  <2>4. m \in {x, 127}
    BY <2>3 DEF Min
  <2>5. m \in Int
    BY <2>2, <2>4
  <2>6. Doubled(r) = <<r[1], m % 256>>
    BY <1>3 DEF Doubled, x
  <2> HIDE DEF m
  <2>7. m % 256 \in Byte
    BY <2>5 DEF Byte
  <2> QED
    BY <1>1, <2>6, <2>7 DEF BytePair
<1> QED
  BY <1>2, <1>3

LEMMA NewRowBytes == NewRow \subseteq Byte \X Byte \X Byte \X Byte
<1>1. /\ (FIRSTNOTE .. KEYON) \cup {ENDPATT} \subseteq Byte /\ 0 .. CMD_SETTEMPO \subseteq Byte
  BY DEF FIRSTNOTE, KEYON, ENDPATT, CMD_SETTEMPO, Byte
<1>2. 0 .. InstrMax - 1 \subseteq Byte
  BY InstrMaxAssumption DEF Byte
<1> QED
  BY <1>1, <1>2 DEF NewRow

\* The song of instruments, tables and patterns.
SongOf(orders, ins, w, p, f, s, pats) ==
  [name |-> <<>>, subtunes |-> <<orders>>,
   instruments |-> [k \in DOMAIN ins |->
      LET i == ins[k]
      IN [params |-> <<i.ad, i.sr, i.wave, i.pulse, i.filter, i.vib, i.delay, i.gate, i.first>>,
          name |-> <<>>]],
   tables |-> <<w, p, f, s>>, patterns |-> pats]

\* Instruments that point into the tables.
PointIn(ins, n, w, p, f, s) ==
  /\ ins \in [1 .. n -> Instrument]
  /\ \A k \in 1 .. n : /\ ins[k].wave <= Len(w) /\ ins[k].pulse <= Len(p)
                       /\ ins[k].filter <= Len(f) /\ ins[k].vib <= Len(s)

\* Patterns of rows that name instruments up to n.
RowsNamed(pats, n) ==
  /\ pats \in Seq(Seq(NewRow)) /\ PatternsFit(pats)
  /\ \A k \in DOMAIN pats : \A r \in DOMAIN pats[k] :
       pats[k][r][1] # ENDPATT /\ pats[k][r][2] <= n

LEMMA InstrumentParams ==
  ASSUME NEW i \in Instrument, NEW ps,
         ps = <<i.ad, i.sr, i.wave, i.pulse, i.filter, i.vib, i.delay, i.gate, i.first>>
  PROVE  /\ ps \in Seq(Byte) /\ Len(ps) = 9 /\ Range(ps) \subseteq Byte
         /\ ps[3] = i.wave /\ ps[4] = i.pulse /\ ps[5] = i.filter /\ ps[6] = i.vib
<1>1. /\ i.ad \in Byte /\ i.sr \in Byte /\ i.wave \in Byte /\ i.pulse \in Byte /\ i.filter \in Byte
      /\ i.vib \in Byte /\ i.delay \in Byte /\ i.gate \in Byte /\ i.first \in Byte
  BY DEF Instrument
<1>2. ps \in Seq(Byte) /\ Len(ps) = 9
  BY <1>1
<1>3. Range(ps) \subseteq Byte
  BY <1>2 DEF Range
<1> QED
  BY <1>2, <1>3

LEMMA SongFits ==
  ASSUME NEW n \in 0 .. InstrMax - 1, NEW ins, NEW w, NEW p, NEW f, NEW s, NEW pats, NEW orders,
         ByteTable(w), ByteTable(p), ByteTable(f), ByteTable(s), PointIn(ins, n, w, p, f, s),
         RowsNamed(pats, n), OrdersFit(orders, pats),
         NEW song, song = SongOf(orders, ins, w, p, f, s, pats)
  PROVE  Valid(song) /\ Shaped(song)
<1>1. /\ song.name = <<>> /\ song.subtunes = <<orders>> /\ song.tables = <<w, p, f, s>>
      /\ song.patterns = pats
  BY DEF SongOf
<1>2. n \in Nat /\ n < MAX_INSTR /\ n < InstrMax
  BY InstrMaxAssumption DEF MAX_INSTR
<1> DEFINE ps(k) == <<ins[k].ad, ins[k].sr, ins[k].wave, ins[k].pulse, ins[k].filter, ins[k].vib,
                      ins[k].delay, ins[k].gate, ins[k].first>>
<1>3. song.instruments = [k \in 1 .. n |-> [params |-> ps(k), name |-> <<>>]]
  BY DEF SongOf, PointIn
<1>4. \A k \in 1 .. n :
        /\ ps(k) \in Seq(Byte) /\ Len(ps(k)) = 9 /\ Range(ps(k)) \subseteq Byte
        /\ ps(k)[3] <= Len(w) /\ ps(k)[4] <= Len(p) /\ ps(k)[5] <= Len(f) /\ ps(k)[6] <= Len(s)
  <2> SUFFICES ASSUME NEW k \in 1 .. n
               PROVE  /\ ps(k) \in Seq(Byte) /\ Len(ps(k)) = 9 /\ Range(ps(k)) \subseteq Byte
                      /\ ps(k)[3] <= Len(w) /\ ps(k)[4] <= Len(p) /\ ps(k)[5] <= Len(f)
                      /\ ps(k)[6] <= Len(s)
    OBVIOUS
  <2>1. ins[k] \in Instrument /\ ins[k].wave <= Len(w) /\ ins[k].pulse <= Len(p)
        /\ ins[k].filter <= Len(f) /\ ins[k].vib <= Len(s)
    BY DEF PointIn
  <2>2. PICK i, q : i = ins[k] /\ q = ps(k)
    OBVIOUS
  <2>5. i \in Instrument
    BY <2>1, <2>2
  <2>3. q = <<i.ad, i.sr, i.wave, i.pulse, i.filter, i.vib, i.delay, i.gate, i.first>>
    BY <2>2
  <2> HIDE DEF ps
  <2>4. /\ q \in Seq(Byte) /\ Len(q) = 9 /\ Range(q) \subseteq Byte
        /\ q[3] = i.wave /\ q[4] = i.pulse /\ q[5] = i.filter /\ q[6] = i.vib
    BY <2>3, <2>5, InstrumentParams
  <2> QED
    BY <2>1, <2>2, <2>4
<1> HIDE DEF ps
<1>5. /\ song.instruments \in Seq([params : Seq(Byte), name : Seq(Byte \ {0})])
      /\ Len(song.instruments) = n /\ DOMAIN song.instruments = 1 .. n
      /\ \A k \in 1 .. n : song.instruments[k].params = ps(k) /\ song.instruments[k].name = <<>>
  <2> DEFINE g(k) == [params |-> ps(k), name |-> <<>>]
  <2>1. \A k \in 1 .. n : g(k) \in [params : Seq(Byte), name : Seq(Byte \ {0})]
    BY <1>4
  <2>2. \A k \in 1 .. n : g(k).params = ps(k) /\ g(k).name = <<>>
    OBVIOUS
  <2>3. song.instruments = [k \in 1 .. n |-> g(k)]
    BY <1>3
  <2> HIDE DEF g
  <2> QED
    BY <1>2, <2>1, <2>2, <2>3
<1>6. /\ pats \in Seq(Seq(NewRow)) /\ Len(pats) \in 1 .. MAX_PATT
      /\ \A k \in DOMAIN pats : Len(pats[k]) \in 1 .. MAX_PATTROWS
      /\ \A k \in DOMAIN pats : \A r \in DOMAIN pats[k] :
           pats[k][r][1] # ENDPATT /\ pats[k][r][2] <= n
  BY DEF RowsNamed, PatternsFit
<1>7. /\ orders \in Seq(Orderlist) /\ Len(orders) \in {3, 6}
      /\ \A k \in DOMAIN orders :
           /\ Len(orders[k].entries) \in 1 .. MAX_SONGLEN
           /\ orders[k].restart < Len(orders[k].entries)
           /\ \A e \in DOMAIN orders[k].entries :
                orders[k].entries[e] < MAX_PATT => orders[k].entries[e] < Len(pats)
  BY DEF OrdersFit
<1>8. Len(song.subtunes) = 1 /\ Range(song.subtunes) = {orders} /\ song.subtunes[1] = orders
      /\ song.subtunes \in Seq(Seq(Orderlist))
  <2>1. DOMAIN <<orders>> = 1 .. 1 /\ <<orders>>[1] = orders /\ Len(<<orders>>) = 1
        /\ <<orders>> \in Seq(Seq(Orderlist))
    BY <1>7
  <2> QED
    BY <1>1, <2>1 DEF Range
<1>9. ASSUME NEW o \in Range(orders) PROVE OrderValid(o, song)
  <2>1. PICK k \in DOMAIN orders : o = orders[k]
    BY DEF Range
  <2> QED
    BY <1>1, <1>7, <2>1 DEF OrderValid
<1>10. ASSUME NEW i \in Range(song.instruments)
       PROVE  PointersFit(i, song.tables) /\ StringFits(i.name) /\ Range(i.params) \subseteq Byte
  <2>1. PICK k \in 1 .. n : i = song.instruments[k]
    BY <1>5 DEF Range
  <2>2. i.params = ps(k) /\ i.name = <<>>
    BY <1>5, <2>1
  <2>3. PointersFit(i, song.tables)
    <3> SUFFICES ASSUME NEW t \in 1 .. 4 PROVE i.params[t + 2] <= Len(song.tables[t])
      BY DEF PointersFit
    <3>1. t = 1 \/ t = 2 \/ t = 3 \/ t = 4
      OBVIOUS
    <3>2. i.params[3] <= Len(song.tables[1]) /\ i.params[4] <= Len(song.tables[2])
          /\ i.params[5] <= Len(song.tables[3]) /\ i.params[6] <= Len(song.tables[4])
      BY <1>1, <1>4, <2>2
    <3> QED
      BY <3>1, <3>2
  <2>4. StringFits(i.name)
    BY <2>2, NameLenAssumption DEF StringFits
  <2> QED
    BY <1>4, <2>2, <2>3, <2>4
<1>11. ASSUME NEW t \in Range(song.tables)
       PROVE  Len(t) <= TableMax /\ \A r \in Range(t) : Range(r) \subseteq Byte
  <2>1. t \in {w, p, f, s}
    BY <1>1 DEF Range
  <2>2. ByteTable(t)
    BY <2>1
  <2>3. ASSUME NEW r \in Range(t) PROVE Range(r) \subseteq Byte
    <3>1. r \in BytePair
      BY <2>2 DEF Range, ByteTable
    <3>2. PICK a \in Byte, b \in Byte : r = <<a, b>>
      BY <3>1 DEF BytePair
    <3> QED
      BY <3>2 DEF Range
  <2> QED
    BY <2>2, <2>3 DEF ByteTable
<1>12. ASSUME NEW q \in Range(song.patterns)
       PROVE  Len(q) \in 1 .. MAX_PATTROWS /\ \A r \in Range(q) : RowValid(r, song)
  <2>1. PICK k \in DOMAIN pats : q = pats[k]
    BY <1>1 DEF Range
  <2>2. ASSUME NEW r \in Range(q) PROVE RowValid(r, song)
    <3>1. PICK j \in DOMAIN q : r = q[j]
      BY DEF Range
    <3>2. r \in NewRow /\ r[1] # ENDPATT /\ r[2] <= n
      BY <1>6, <2>1, <3>1
    <3>3. r[1] \in FIRSTNOTE .. KEYON /\ r[2] \in 0 .. InstrMax - 1
          /\ r[3] \in 0 .. CMD_SETTEMPO /\ r[4] \in Byte
      BY <3>2 DEF NewRow
    <3>4. r[2] < MAX_INSTR
      <4>1. n \in Nat /\ n < MAX_INSTR /\ MAX_INSTR \in Nat
        BY <1>2 DEF MAX_INSTR
      <4>2. r[2] \in Nat /\ r[2] <= n
        BY <3>2, <3>3
      <4> QED
        BY <4>1, <4>2
    <3> QED
      BY <1>5, <3>2, <3>3, <3>4 DEF RowValid
  <2> QED
    BY <1>6, <2>1, <2>2
<1>13. StringFits(song.name)
  <2>1. Len(<<>>) = 0 /\ 0 < NameLen
    BY NameLenAssumption
  <2> QED
    BY <1>1, <2>1 DEF StringFits
<1>14. Valid(song)
  <2>1. Len(song.subtunes) \in 1 .. MAX_SONGS
    BY <1>8 DEF MAX_SONGS
  <2>2. \A t \in Range(song.subtunes) :
          Len(t) = Len(song.subtunes[1]) /\ \A o \in Range(t) : OrderValid(o, song)
    BY <1>8, <1>9
  <2>3. Len(song.patterns) \in 1 .. MAX_PATT /\ Len(song.instruments) < MAX_INSTR
        /\ Len(song.subtunes[1]) \in {3, 6}
    BY <1>1, <1>2, <1>5, <1>6, <1>7, <1>8
  <2> QED
    BY <1>10, <1>11, <1>12, <1>13, <2>1, <2>2, <2>3 DEF Valid
<1>15. Shaped(song)
  <2>1. song.tables \in Seq(Seq(BytePair)) /\ Len(song.tables) = 4
    BY <1>1 DEF ByteTable
  <2>2. song.patterns \in Seq(Seq(Byte \X Byte \X Byte \X Byte))
    <3>1. Seq(NewRow) \subseteq Seq(Byte \X Byte \X Byte \X Byte)
      BY NewRowBytes, SeqMonotonic
    <3>2. Seq(Seq(NewRow)) \subseteq Seq(Seq(Byte \X Byte \X Byte \X Byte))
      BY <3>1, SeqMonotonic
    <3> QED
      BY <1>1, <1>6, <3>2
  <2>3. song.name \in Seq(Byte \ {0})
    BY <1>1
  <2>4. song = [name |-> song.name, subtunes |-> song.subtunes, instruments |-> song.instruments,
                tables |-> song.tables, patterns |-> song.patterns]
    BY DEF SongOf
  <2>5. song \in SongSet
    BY <1>5, <1>8, <2>1, <2>2, <2>3, <2>4 DEF SongSet
  <2>6. \A k \in DOMAIN song.instruments : Len(song.instruments[k].params) = 9
    BY <1>4, <1>5
  <2> QED
    BY <2>1, <2>5, <2>6 DEF Shaped
<1> QED
  BY <1>14, <1>15

\* The instruments an import ends with are regated ones, up to a number no row is above.
LEMMA EndInstruments ==
  ASSUME WithinLimits, FixInv, End
  PROVE  \E n \in 0 .. InstrMax - 1 :
           /\ instruments' = [k \in 1 .. n |-> Regated(instruments[k])]
           /\ old.format = "GTS2" => n = Len(old.instruments)
           /\ old.format = "GTS!" => n >= HighestUsed
<1>1. InstrMax - 1 \in Nat /\ instruments \in [1 .. InstrMax - 1 -> Instrument]
      /\ patterns \in Seq(Seq(NewRow))
  BY InstrMaxAssumption DEF FixInv, InstrumentsOK, PatternsOK
<1>2. CASE old.format = "GTS2"
  <2>1. InLimits2(old) /\ Len(old.instruments) \in 1 .. InstrMax - 1
    BY <1>2 DEF FixInv, WithinLimits, InLimits
  <2>2. PICK n : n = Len(old.instruments)
    OBVIOUS
  <2>3. DOMAIN old.instruments = 1 .. n /\ n \in 0 .. InstrMax - 1
    BY <1>1, <2>1, <2>2 DEF InLimits2
  <2>4. instruments' = [k \in 1 .. n |-> Regated(instruments[k])]
    <3> DEFINE used == [k \in 1 .. n |-> instruments[k]]
    <3>1. instruments' = [k \in DOMAIN used |-> Regated(used[k])]
      BY <1>2, <2>3 DEF End
    <3>2. DOMAIN used = 1 .. n /\ \A k \in 1 .. n : used[k] = instruments[k]
      OBVIOUS
    <3> HIDE DEF used
    <3> QED
      BY <3>1, <3>2
  <2> QED
    BY <1>2, <2>2, <2>3, <2>4
<1>3. CASE old.format = "GTS!"
  <2> DEFINE set == {HighestUsed} \cup {k \in DOMAIN instruments : instruments[k] # Blank}
             n == Max(set)
  <2>1. HighestUsed \in 0 .. InstrMax - 1
    BY <1>1, UsedBound
  <2>2. set \subseteq 0 .. InstrMax - 1 /\ set # {} /\ HighestUsed \in set
    BY <1>1, <2>1
  <2>3. n \in set /\ \A y \in set : n >= y
    <3> HIDE DEF set
    <3> QED
      BY <1>1, <2>2, LastIn
  <2>4. n \in 0 .. InstrMax - 1 /\ n >= HighestUsed
    BY <2>2, <2>3
  <2>5. instruments' = [k \in 1 .. n |-> Regated(instruments[k])]
    <3> DEFINE used == [k \in 1 .. n |-> instruments[k]]
    <3>1. instruments' = [k \in DOMAIN used |-> Regated(used[k])]
      BY <1>3 DEF End, Trimmed
    <3>2. DOMAIN used = 1 .. n /\ \A k \in 1 .. n : used[k] = instruments[k]
      OBVIOUS
    <3> HIDE DEF used, n
    <3> QED
      BY <3>1, <3>2
  <2> HIDE DEF n
  <2> QED
    BY <1>3, <2>4, <2>5
<1> QED
  BY <1>2, <1>3 DEF FixInv

\* Its patterns end before their ends.
LEMMA EndPatterns ==
  ASSUME FixInv, End, NEW n \in 0 .. InstrMax - 1,
         old.format = "GTS2" => n = Len(old.instruments),
         old.format = "GTS!" => n >= HighestUsed
  PROVE  RowsNamed(patterns', n) /\ Len(patterns') = Len(old.patterns)
<1>1. /\ patterns \in Seq(Seq(NewRow)) /\ PatternsFit(patterns)
      /\ Len(patterns) = Len(old.patterns)
      /\ \A k \in DOMAIN patterns :
           /\ patterns[k][1][1] # ENDPATT
           /\ \A r \in DOMAIN patterns[k] : RowKept(patterns[k][r])
      /\ old.format \in {"GTS!", "GTS2"}
  BY DEF FixInv, PatternsOK
<1>2. CASE old.format = "GTS2"
  <2>1. patterns' = patterns
    BY <1>2 DEF End
  <2> QED
    BY <1>1, <1>2, <2>1 DEF RowsNamed, RowKept
<1>3. CASE old.format = "GTS!"
  <2>1. patterns' = [k \in DOMAIN patterns |-> BeforeEnd(patterns[k])]
    BY <1>3 DEF End
  <2>2. Len(patterns) \in Nat /\ DOMAIN patterns = 1 .. Len(patterns)
    BY <1>1
  <2>3. ASSUME NEW k \in DOMAIN patterns
        PROVE  /\ BeforeEnd(patterns[k]) \in Seq(NewRow)
               /\ Len(BeforeEnd(patterns[k])) \in 1 .. MAX_PATTROWS
               /\ \A r \in DOMAIN BeforeEnd(patterns[k]) :
                    /\ BeforeEnd(patterns[k])[r][1] # ENDPATT
                    /\ BeforeEnd(patterns[k])[r][2] <= n
    <3>1. PICK p, q : p = patterns[k] /\ q = BeforeEnd(p)
      OBVIOUS
    <3>2. p \in Seq(NewRow) /\ Len(p) \in 1 .. MAX_PATTROWS /\ p[1][1] # ENDPATT
          /\ p \in Range(patterns)
      BY <1>1, <3>1 DEF PatternsFit, Range
    <3>3. /\ q \in Seq(NewRow) /\ Len(q) <= Len(p)
          /\ \A r \in 1 .. Len(q) : q[r] = p[r] /\ p[r][1] # ENDPATT
          /\ Len(q) >= 1
      <4>1. Len(p) >= 1
        BY <3>2
      <4> QED
        BY <3>1, <3>2, <4>1, BeforeEndTyped
    <3>4. Len(q) \in 1 .. MAX_PATTROWS /\ DOMAIN q = 1 .. Len(q)
      <4>1. q \in Seq(NewRow) /\ Len(q) >= 1 /\ Len(q) <= Len(p)
        BY <3>3
      <4>2. Len(q) \in Nat /\ DOMAIN q = 1 .. Len(q)
        BY <4>1
      <4>3. PICK a, b : a = Len(q) /\ b = Len(p)
        OBVIOUS
      <4>4. a \in Nat /\ a >= 1 /\ a <= b /\ b \in 1 .. MAX_PATTROWS
        BY <3>2, <4>1, <4>2, <4>3
      <4>5. a \in 1 .. MAX_PATTROWS
        BY <4>4 DEF MAX_PATTROWS
      <4> QED
        BY <4>2, <4>3, <4>5
    <3>5. ASSUME NEW r \in DOMAIN q PROVE q[r][1] # ENDPATT /\ q[r][2] <= n
      <4>1. q[r][1] # ENDPATT
        BY <3>3, <3>4
      <4>2. q[r] \in Range(q) /\ q[r] \in NewRow
        BY <3>3 DEF Range
      <4>3. q[r][2] <= HighestUsed /\ HighestUsed \in 0 .. InstrMax - 1
        BY <1>1, <3>1, <3>2, <4>2, UsedBound
      <4>4. q[r][2] \in 0 .. InstrMax - 1
        BY <4>2 DEF NewRow
      <4> QED
        BY <1>3, <4>1, <4>3, <4>4
    <3> QED
      BY <3>1, <3>3, <3>4, <3>5
  <2> DEFINE f(k) == BeforeEnd(patterns[k])
  <2>4. PICK l \in Nat : l = Len(patterns)
    BY <2>2
  <2>5. patterns' = [k \in 1 .. l |-> f(k)]
    BY <2>1, <2>2, <2>4
  <2>6. \A k \in 1 .. l : /\ f(k) \in Seq(NewRow) /\ Len(f(k)) \in 1 .. MAX_PATTROWS
                          /\ \A r \in DOMAIN f(k) : f(k)[r][1] # ENDPATT /\ f(k)[r][2] <= n
    BY <2>2, <2>3, <2>4
  <2> HIDE DEF f
  <2>7. patterns' \in Seq(Seq(NewRow)) /\ Len(patterns') = l /\ DOMAIN patterns' = 1 .. l
        /\ \A k \in 1 .. l : patterns'[k] = f(k)
    BY <2>5, <2>6
  <2>8. PatternsFit(patterns')
    BY <1>1, <2>4, <2>6, <2>7 DEF PatternsFit
  <2>9. \A k \in DOMAIN patterns' : \A r \in DOMAIN patterns'[k] :
          patterns'[k][r][1] # ENDPATT /\ patterns'[k][r][2] <= n
    BY <2>6, <2>7
  <2>10. RowsNamed(patterns', n)
    BY <2>7, <2>8, <2>9 DEF RowsNamed
  <2> QED
    BY <1>1, <2>4, <2>7, <2>10
<1> QED
  BY <1>1, <1>2, <1>3

LEMMA EndTyped ==
  ASSUME WithinLimits, TInv, End
  PROVE  TInv'
<1>1. /\ stage = "fix" /\ stage' = "imported"
      /\ pulse' = [k \in DOMAIN pulse |-> Doubled(pulse[k])]
      /\ UNCHANGED <<old, wave, filter, speed, filtermap, clones, free, at>>
  BY DEF End
<1>2. FixInv
  BY <1>1, FixTInv
<1>3. /\ TablesOK /\ InstrumentsOK /\ FiltersPoint /\ old \in OldSongs
      /\ old.format \in {"GTS!", "GTS2"}
      /\ filtermap \in [0 .. FilterSteps - 1 -> Byte] /\ free \in 0 .. InstrMax
  BY <1>2 DEF FixInv
<1>4. OrdersFit(old.orders, old.patterns)
  BY <1>3 DEF WithinLimits, InLimits
<1>5. PICK n \in 0 .. InstrMax - 1 :
        /\ instruments' = [k \in 1 .. n |-> Regated(instruments[k])]
        /\ old.format = "GTS2" => n = Len(old.instruments)
        /\ old.format = "GTS!" => n >= HighestUsed
  BY <1>2, EndInstruments
<1>6. RowsNamed(patterns', n) /\ Len(patterns') = Len(old.patterns)
  BY <1>2, <1>5, EndPatterns
<1>7. ByteTable(pulse') /\ Len(pulse') = Len(pulse)
  <2>1. pulse \in Seq(BytePair) /\ Len(pulse) <= TableMax
    BY <1>3 DEF TablesOK, ByteTable
  <2>2. PICK l \in Nat : l = Len(pulse) /\ DOMAIN pulse = 1 .. l
    BY <2>1
  <2> DEFINE f(k) == Doubled(pulse[k])
  <2>3. \A k \in 1 .. l : f(k) \in BytePair
    BY <2>1, <2>2, DoubledTyped
  <2>4. pulse' = [k \in 1 .. l |-> f(k)]
    BY <1>1, <2>2
  <2> HIDE DEF f
  <2>5. pulse' \in Seq(BytePair) /\ Len(pulse') = l
    BY <2>3, <2>4
  <2> QED
    BY <2>1, <2>2, <2>5 DEF ByteTable
<1>8. TablesOK'
  BY <1>1, <1>3, <1>7 DEF TablesOK, ByteTable
<1>9. PointIn(instruments', n, wave', pulse', filter', speed')
  <2>1. ASSUME NEW k \in 1 .. n
        PROVE  /\ Regated(instruments[k]) \in Instrument
               /\ Regated(instruments[k]).wave <= Len(wave')
               /\ Regated(instruments[k]).pulse <= Len(pulse')
               /\ Regated(instruments[k]).filter <= Len(filter')
               /\ Regated(instruments[k]).vib <= Len(speed')
    <3>1. k \in 1 .. InstrMax - 1
      BY InstrMaxAssumption
    <3>2. /\ instruments[k] \in Instrument /\ PointsWell(instruments[k])
          /\ instruments[k].filter <= Len(filter)
      BY <1>3, <3>1 DEF InstrumentsOK, FiltersPoint
    <3>3. PICK i, j : i = instruments[k] /\ j = Regated(i)
      OBVIOUS
    <3>4. /\ j \in Instrument /\ j.wave = i.wave /\ j.pulse = i.pulse /\ j.filter = i.filter
          /\ j.vib = i.vib
      BY <3>2, <3>3, RegatedTyped
    <3>5. i.wave <= Len(wave) /\ i.pulse <= Len(pulse) /\ i.vib <= Len(speed)
          /\ i.filter <= Len(filter)
      BY <3>2, <3>3 DEF PointsWell
    <3> QED
      BY <1>1, <1>7, <3>3, <3>4, <3>5
  <2>2. /\ instruments' \in [1 .. n -> Instrument]
        /\ \A k \in 1 .. n : instruments'[k] = Regated(instruments[k])
    BY <1>5, <2>1
  <2> QED
    BY <2>1, <2>2 DEF PointIn
<1>10. OrdersFit(old.orders, patterns')
  BY <1>4, <1>6 DEF OrdersFit
<1>11. PICK orders, ins, w, p, f, s, pats, song :
         /\ orders = old.orders /\ ins = instruments' /\ w = wave' /\ p = pulse' /\ f = filter'
         /\ s = speed' /\ pats = patterns' /\ song = SongOf(orders, ins, w, p, f, s, pats)
  OBVIOUS
<1>12. Valid(song) /\ Shaped(song)
  <2>1. ByteTable(w) /\ ByteTable(p) /\ ByteTable(f) /\ ByteTable(s)
    BY <1>8, <1>11 DEF TablesOK, ByteTable
  <2>2. PointIn(ins, n, w, p, f, s) /\ RowsNamed(pats, n) /\ OrdersFit(orders, pats)
    BY <1>6, <1>9, <1>10, <1>11
  <2> QED
    BY <1>11, <2>1, <2>2, SongFits
<1>13. Imported' = song
  BY <1>1, <1>11 DEF Imported, SongOf
<1>14. Valid(Imported)' /\ Shaped(Imported)'
  <2>1. Valid(Imported)' <=> Valid(Imported')
    BY DEF Valid, PointersFit, StringFits, RowValid, OrderValid
  <2>2. Shaped(Imported)' <=> Shaped(Imported')
    BY DEF Shaped
  <2> QED
    BY <1>12, <1>13, <2>1, <2>2
<1> QED
  BY <1>1, <1>3, <1>8, <1>14 DEF TInv

-----------------------------------------------------------------------------

LEMMA InitTyped ==
  ASSUME WithinLimits, Init
  PROVE  TInv
<1>1. /\ old \in OldSongs /\ stage = "instruments" /\ at = 1
      /\ instruments = [k \in 1 .. InstrMax - 1 |-> Blank]
      /\ wave = <<>> /\ pulse = <<>> /\ filter = <<>> /\ speed = <<>>
      /\ filtermap = [n \in 0 .. FilterSteps - 1 |-> 0]
      /\ clones = <<>> /\ free = 0
  BY DEF Init, ImportInit
<1>2. Blank \in Instrument /\ Blank.wave = 0 /\ Blank.pulse = 0 /\ Blank.vib = 0 /\ Blank.filter = 0
  BY DEF Blank, Instrument, Byte
<1> HIDE DEF Blank
<1>3. TablesOK
  <2>1. <<>> \in Seq(BytePair) /\ Len(<<>>) = 0
    OBVIOUS
  <2> QED
    BY <1>1, <2>1, TableMaxAssumption DEF TablesOK, ByteTable
<1>4. InstrumentsOK /\ FiltersPoint
  BY <1>1, <1>2 DEF InstrumentsOK, PointsWell, FiltersPoint
<1>5. StepsNamed
  BY <1>1, <1>2 DEF StepsNamed
<1>6. filtermap \in [0 .. FilterSteps - 1 -> Byte] /\ free \in 0 .. InstrMax
  BY <1>1, InstrMaxAssumption DEF Byte
<1>7. old.format # "none" => ReadingOK
  <2> SUFFICES ASSUME old.format # "none" PROVE ReadingOK
    OBVIOUS
  <2>1. Len(old.instruments) \in 1 .. InstrMax - 1
    BY <1>1 DEF WithinLimits, InLimits
  <2>2. at \in 1 .. Len(old.instruments)
    BY <1>1, <2>1, InstrMaxAssumption
  <2> QED
    BY <1>1, <1>4, <2>2 DEF ReadingOK
<1> QED
  BY <1>1, <1>3, <1>4, <1>5, <1>6, <1>7 DEF TInv

LEMMA TInvFrame == UNCHANGED importVars => (TInv <=> TInv')
BY DEF importVars, TInv, TablesOK, ByteTable, InstrumentsOK, PointsWell, StepsNamed, ReadingOK,
       FiltersPoint, PatternsOK, PatternsFit, RowKept, ClonesOK, CloneOK, Imported

LEMMA StepTyped ==
  ASSUME WithinLimits, TInv, [Next]_vars
  PROVE  TInv'
<1>1. CASE Import
  BY <1>1, ReadOldInstrumentTyped, ReadOldPatternsTyped, ConvertFilterTyped, ReadVibratoTyped,
     SkipEmptyTyped, FixParameterTyped, FixFunktempoTyped, FixArpeggioTyped, FixOtherTyped,
     EndTyped
     DEF Import
<1>2. CASE UNCHANGED importVars
  BY <1>2, TInvFrame
<1> QED
  BY <1>1, <1>2 DEF Next, WriteImported, WriteOwn, vars

\* What an import makes of an old song within the formats' limits stays typed: bytes in the
\* tables, pointers inside them, rows that name instruments (legacy.py).
THEOREM TInvHolds ==
  ASSUME WithinLimits
  PROVE  Spec => []TInv
<1>1. Init => TInv
  BY InitTyped
<1>2. TInv /\ [Next]_vars => TInv'
  BY StepTyped
<1> QED
  BY <1>1, <1>2, PTL DEF Spec

\* The song an import ends with is one the writer takes, for every old song within the
\* limits, every size of the tables and of the instrument list (legacy.py:
\* load_legacy_sng; writer.py: validate_song).
THEOREM ImportsWritable ==
  ASSUME WithinLimits
  PROVE  Spec => []ImportedWritable
<1>1. TInv => ImportedWritable
  BY DEF TInv, ImportedWritable
<1> QED
  BY <1>1, TInvHolds, PTL

-----------------------------------------------------------------------------
(* Where the parts of a file are.                                          *)

\* An item is in f from position p on.
Holds(f, p, item) ==
  /\ p + Len(item) - 1 <= Len(f)
  /\ \A j \in 1 .. Len(item) : f[p + j - 1] = item[j]

\* Where each of a sequence of items begins.
Off(seqs) == CHOOSE off : Offsets(off, seqs)

LEMMA OffIs ==
  ASSUME NEW S, NEW seqs \in Seq(Seq(S))
  PROVE  /\ Offsets(Off(seqs), seqs)
         /\ \A k \in 0 .. Len(seqs) : Off(seqs)[k] \in Nat
         /\ Off(seqs)[0] = 0
         /\ \A k \in 1 .. Len(seqs) : Off(seqs)[k] = Off(seqs)[k - 1] + Len(seqs[k])
<1>1. Offsets(Off(seqs), seqs)
  BY OffsetsExist DEF Off
<1> QED
  BY <1>1 DEF Offsets

\* An item of items laid end to end is where its offset says.
LEMMA ItemHeld ==
  ASSUME NEW S, NEW seqs \in Seq(Seq(S)), NEW f \in Seq(S), NEW p \in Nat \ {0},
         Holds(f, p, FlattenSeq(seqs)), NEW k \in 1 .. Len(seqs)
  PROVE  /\ Holds(f, p + Off(seqs)[k - 1], seqs[k])
         /\ p + Off(seqs)[k - 1] \in Nat \ {0}
         /\ p + Off(seqs)[k - 1] + Len(seqs[k]) = p + Off(seqs)[k]
<1> DEFINE flat == FlattenSeq(seqs)
           off == Off(seqs)
<1>1. Offsets(off, seqs) /\ off[k] \in Nat /\ off[k - 1] \in Nat
      /\ off[k] = off[k - 1] + Len(seqs[k]) /\ off[Len(seqs)] \in Nat
  BY OffIs
<1>2. flat \in Seq(S) /\ Laid(flat, off, seqs, Len(seqs))
  <2> HIDE DEF off
  <2> QED
    BY <1>1, FlattenLaid
<1>3. Len(flat) = off[Len(seqs)] /\ \A j \in 1 .. Len(seqs[k]) : flat[off[k - 1] + j] = seqs[k][j]
  BY <1>2 DEF Laid
<1>4. off[k] <= off[Len(seqs)]
  <2>1. k \in 0 .. Len(seqs) /\ Len(seqs) \in k .. Len(seqs)
    OBVIOUS
  <2> HIDE DEF off
  <2> QED
    BY <1>1, <2>1, OffsetsRise
<1>5. Len(seqs[k]) \in Nat
  OBVIOUS
<1> HIDE DEF flat, off
<1>6. p + Len(flat) - 1 <= Len(f) /\ \A j \in 1 .. Len(flat) : f[p + j - 1] = flat[j]
  BY DEF Holds, flat
<1>7. PICK a, b, l, n : a = off[k - 1] /\ b = off[k] /\ l = Len(seqs[k]) /\ n = Len(flat)
  OBVIOUS
<1>8. a \in Nat /\ b \in Nat /\ l \in Nat /\ n \in Nat /\ b = a + l /\ b <= n
  BY <1>1, <1>3, <1>4, <1>5, <1>7
<1>9. Holds(f, p + a, seqs[k])
  <2>1. (p + a) + l - 1 <= Len(f)
    <3>1. p + n - 1 <= Len(f) /\ Len(f) \in Nat
      BY <1>6, <1>7
    <3> QED
      BY <1>8, <3>1
  <2>2. ASSUME NEW j \in 1 .. l PROVE f[(p + a) + j - 1] = seqs[k][j]
    <3>1. a + j \in 1 .. n /\ p + (a + j) - 1 = (p + a) + j - 1
      BY <1>8
    <3>2. f[p + (a + j) - 1] = flat[a + j]
      BY <1>6, <1>7, <3>1
    <3>3. flat[a + j] = seqs[k][j]
      BY <1>3, <1>7
    <3> QED
      BY <3>1, <3>2, <3>3
  <2> QED
    BY <1>7, <2>1, <2>2 DEF Holds
<1>10. p + a \in Nat \ {0} /\ p + a + l = p + b
  BY <1>8
<1> QED
  BY <1>7, <1>9, <1>10 DEF off

\* What is behind an item in its whole.
LEMMA BothHeld ==
  ASSUME NEW S, NEW a \in Seq(S), NEW b \in Seq(S), NEW f \in Seq(S), NEW p \in Nat \ {0},
         Holds(f, p, a \o b)
  PROVE  Holds(f, p, a) /\ Holds(f, p + Len(a), b) /\ p + Len(a) \in Nat \ {0}
<1> DEFINE c == a \o b
<1>1. Len(c) = Len(a) + Len(b)
  BY ConcatProperties
<1>2. /\ \A i \in 1 .. Len(c) : c[i] = IF i <= Len(a) THEN a[i] ELSE b[i - Len(a)]
      /\ Len(a) \in Nat /\ Len(b) \in Nat /\ Len(f) \in Nat
  BY <1>1, ConcatProperties
<1>3. p + Len(c) - 1 <= Len(f) /\ \A j \in 1 .. Len(c) : f[p + j - 1] = c[j]
  BY DEF Holds
<1> HIDE DEF c
<1>4. PICK m \in Nat, n \in Nat, l \in Nat : m = Len(a) /\ n = Len(b) /\ l = Len(f)
  BY <1>2
<1>5. p + m - 1 <= l /\ (p + m) + n - 1 <= l /\ p + m \in Nat \ {0}
  BY <1>1, <1>3, <1>4
<1>6. ASSUME NEW j \in 1 .. m PROVE f[p + j - 1] = a[j]
  <2>1. j \in 1 .. Len(c) /\ j <= Len(a)
    BY <1>1, <1>4
  <2> QED
    BY <1>2, <1>3, <2>1
<1>7. ASSUME NEW j \in 1 .. n PROVE f[(p + m) + j - 1] = b[j]
  <2>1. m + j \in 1 .. Len(c) /\ ~ (m + j <= Len(a)) /\ (m + j) - Len(a) = j
        /\ p + (m + j) - 1 = (p + m) + j - 1
    BY <1>1, <1>4
  <2>2. f[p + (m + j) - 1] = c[m + j] /\ c[m + j] = b[j]
    BY <1>2, <1>3, <2>1
  <2> QED
    BY <2>1, <2>2
<1> QED
  BY <1>4, <1>5, <1>6, <1>7 DEF Holds

\* The items of each section, as the writer writes them.
OrderSeqs(s) == [c \in DOMAIN s |-> OrderStored(s[c])]
SubtuneSeqs(song) == [k \in DOMAIN song.subtunes |-> FlattenSeq(OrderSeqs(song.subtunes[k]))]
InstrumentSeqs(song) == [k \in DOMAIN song.instruments |-> InstrumentStored(song.instruments[k])]
TableSeqs(song) == [k \in DOMAIN song.tables |-> TableStored(song.tables[k])]
PatternSeqs(song) == [k \in DOMAIN song.patterns |-> PatternStored(song.patterns[k])]

\* Where each section begins.
OrdersAt == NameLen + 2
InstrumentCountAt(song) == OrdersAt + Off(SubtuneSeqs(song))[Len(song.subtunes)]
InstrumentsAt(song) == InstrumentCountAt(song) + 1
TablesAt(song) == InstrumentsAt(song) + Off(InstrumentSeqs(song))[Len(song.instruments)]
PatternCountAt(song) == TablesAt(song) + Off(TableSeqs(song))[Len(song.tables)]
PatternsAt(song) == PatternCountAt(song) + 1
EndAt(song) == PatternsAt(song) + Off(PatternSeqs(song))[Len(song.patterns)]

LEMMA StoredParts ==
  ASSUME NEW song
  PROVE  Stored(song) =
           Padded(song.name) \o (<<Len(song.subtunes)>> \o FlattenSeq(SubtuneSeqs(song)))
           \o (<<Len(song.instruments)>> \o FlattenSeq(InstrumentSeqs(song)))
           \o FlattenSeq(TableSeqs(song))
           \o (<<Len(song.patterns)>> \o FlattenSeq(PatternSeqs(song)))
BY DEF Stored, Counted, Each, SubtuneSeqs, OrderSeqs, InstrumentSeqs, TableSeqs, PatternSeqs

LEMMA FlatLength ==
  ASSUME NEW S, NEW seqs \in Seq(Seq(S))
  PROVE  FlattenSeq(seqs) \in Seq(S) /\ Len(FlattenSeq(seqs)) = Off(seqs)[Len(seqs)]
BY OffIs, FlattenLaid DEF Laid

-----------------------------------------------------------------------------
(* What the items hold.                                                    *)

LEMMA BytesSeq ==
  ASSUME NEW S, S \subseteq Byte, NEW s \in Seq(S)
  PROVE  s \in Seq(Nat) /\ Len(s) \in Nat /\ \A k \in 1 .. Len(s) : s[k] \in S /\ s[k] \in Nat
<1>1. Len(s) \in Nat /\ \A k \in 1 .. Len(s) : s[k] \in S
  OBVIOUS
<1>2. \A k \in 1 .. Len(s) : s[k] \in Nat
  BY <1>1, BytesAreNumbers
<1> QED
  BY <1>1, <1>2

\* One sequence behind another.
LEMMA Joined ==
  ASSUME NEW S, NEW a \in Seq(S), NEW b \in Seq(S)
  PROVE  /\ a \o b \in Seq(S) /\ Len(a \o b) = Len(a) + Len(b)
         /\ \A k \in 1 .. Len(a) : (a \o b)[k] = a[k]
         /\ \A k \in 1 .. Len(b) : (a \o b)[Len(a) + k] = b[k]
<1>1. Len(a \o b) = Len(a) + Len(b) /\ Len(a) \in Nat /\ Len(b) \in Nat
  BY ConcatProperties
<1>2. /\ a \o b \in Seq(S)
      /\ \A i \in 1 .. Len(a \o b) : (a \o b)[i] = IF i <= Len(a) THEN a[i] ELSE b[i - Len(a)]
  BY ConcatProperties
<1>3. PICK c, m, n : c = a \o b /\ m = Len(a) /\ n = Len(b)
  OBVIOUS
<1>4. m \in Nat /\ n \in Nat /\ Len(c) = m + n /\ \A i \in 1 .. m + n : c[i] = IF i <= m THEN a[i] ELSE b[i - m]
  BY <1>1, <1>2, <1>3
<1>5. ASSUME NEW k \in 1 .. m PROVE c[k] = a[k]
  BY <1>4
<1>6. ASSUME NEW k \in 1 .. n PROVE c[m + k] = b[k]
  <2>1. m + k \in 1 .. m + n /\ ~ (m + k <= m) /\ (m + k) - m = k
    BY <1>4
  <2> QED
    BY <1>4, <2>1
<1> QED
  BY <1>2, <1>3, <1>4, <1>5, <1>6

LEMMA PaddedIs ==
  ASSUME NEW s \in Seq(Byte \ {0}), StringFits(s)
  PROVE  /\ Padded(s) \in Seq(Nat) /\ Len(Padded(s)) = NameLen
         /\ \A k \in 1 .. NameLen : Padded(s)[k] = IF k <= Len(s) THEN s[k] ELSE 0
<1>1. Len(s) \in Nat /\ NameLen \in Nat /\ Len(s) < NameLen /\ s \in Seq(Nat)
  <2>1. s \in Seq(Nat) /\ Len(s) \in Nat
    BY BytesSeq
  <2> QED
    BY <2>1, NameLenAssumption DEF StringFits
<1> DEFINE z == [k \in 1 .. NameLen - Len(s) |-> 0]
<1>2. z \in Seq(Nat) /\ Len(z) = NameLen - Len(s) /\ \A k \in 1 .. NameLen - Len(s) : z[k] = 0
  <2>1. PICK m \in Nat : m = NameLen - Len(s)
    BY <1>1
  <2> QED
    BY <2>1
<1>3. Padded(s) = s \o z
  BY DEF Padded
<1> HIDE DEF z
<1>4. Len(s \o z) = Len(s) + Len(z)
  BY <1>1, <1>2, ConcatProperties
<1>5. /\ s \o z \in Seq(Nat)
      /\ \A k \in 1 .. Len(s \o z) : (s \o z)[k] = IF k <= Len(s) THEN s[k] ELSE z[k - Len(s)]
  BY <1>1, <1>2, <1>4, ConcatProperties
<1>6. ASSUME NEW k \in 1 .. NameLen, ~ (k <= Len(s)) PROVE z[k - Len(s)] = 0
  BY <1>1, <1>2, <1>6
<1> QED
  BY <1>1, <1>2, <1>3, <1>4, <1>5, <1>6

\* An orderlist's bytes.
OrderBytes(item, o) ==
  LET n == Len(o.entries)
  IN /\ Len(item) = n + 3 /\ item[1] = n + 1
     /\ \A k \in 1 .. n : item[k + 1] = o.entries[k]
     /\ item[n + 2] = LOOPSONG /\ item[n + 3] = o.restart

LEMMA OrderStoredIs ==
  ASSUME NEW o \in Orderlist
  PROVE  OrderStored(o) \in Seq(Nat) /\ OrderBytes(OrderStored(o), o)
<1>1. o.entries \in Seq(Byte \ {LOOPSONG}) /\ o.restart \in Nat
  BY BytesAreNumbers DEF Orderlist
<1>2. PICK e, r : e = o.entries /\ r = o.restart
  OBVIOUS
<1>3. e \in Seq(Nat) /\ Len(e) \in Nat /\ r \in Nat
  <2>1. e \in Seq(Byte \ {LOOPSONG}) /\ r \in Nat
    BY <1>1, <1>2
  <2> QED
    BY <2>1, BytesSeq
<1> DEFINE a == <<Len(e) + 1>>
           z == <<LOOPSONG, r>>
<1>4. a \in Seq(Nat) /\ Len(a) = 1 /\ a[1] = Len(e) + 1
      /\ z \in Seq(Nat) /\ Len(z) = 2 /\ z[1] = LOOPSONG /\ z[2] = r
  BY <1>3 DEF LOOPSONG
<1>5. OrderStored(o) = a \o e \o z
  BY <1>2 DEF OrderStored
<1> HIDE DEF a, z
<1>6. PICK b : b = a \o e
  OBVIOUS
<1>7. /\ b \in Seq(Nat) /\ Len(b) = 1 + Len(e) /\ b[1] = a[1]
      /\ \A k \in 1 .. Len(e) : b[1 + k] = e[k]
  <2>1. /\ b \in Seq(Nat) /\ Len(b) = Len(a) + Len(e)
        /\ \A k \in 1 .. Len(a) : b[k] = a[k]
        /\ \A k \in 1 .. Len(e) : b[Len(a) + k] = e[k]
    <3>1. e \in Seq(Nat) /\ a \in Seq(Nat)
      BY <1>3, <1>4
    <3> QED
      BY <1>6, <3>1, Joined
  <2> QED
    BY <1>3, <1>4, <2>1
<1>8. PICK c : c = b \o z
  OBVIOUS
<1>9. /\ c \in Seq(Nat) /\ Len(c) = Len(e) + 3
      /\ \A k \in 1 .. 1 + Len(e) : c[k] = b[k]
      /\ c[Len(b) + 1] = z[1] /\ c[Len(b) + 2] = z[2]
  <2>1. /\ c \in Seq(Nat) /\ Len(c) = Len(b) + Len(z)
        /\ \A k \in 1 .. Len(b) : c[k] = b[k]
        /\ \A k \in 1 .. Len(z) : c[Len(b) + k] = z[k]
    <3>1. b \in Seq(Nat) /\ z \in Seq(Nat)
      BY <1>4, <1>7
    <3> QED
      BY <1>8, <3>1, Joined
  <2> QED
    BY <1>3, <1>4, <1>7, <2>1
<1>10. c[1] = Len(e) + 1
  BY <1>3, <1>4, <1>7, <1>9
<1>11. ASSUME NEW k \in 1 .. Len(e) PROVE c[k + 1] = e[k]
  <2>1. 1 + k \in 1 .. 1 + Len(e) /\ 1 + k = k + 1
    BY <1>3
  <2> QED
    BY <1>7, <1>9, <2>1
<1>12. Len(b) + 1 = Len(e) + 2 /\ Len(b) + 2 = Len(e) + 3
  BY <1>3, <1>7
<1> QED
  BY <1>2, <1>4, <1>5, <1>6, <1>8, <1>9, <1>10, <1>11, <1>12 DEF OrderBytes

\* An instrument's.
LEMMA InstrumentStoredIs ==
  ASSUME NEW ins, ins.params \in Seq(Byte), Len(ins.params) = 9,
         ins.name \in Seq(Byte \ {0}), StringFits(ins.name)
  PROVE  /\ InstrumentStored(ins) \in Seq(Nat) /\ Len(InstrumentStored(ins)) = 9 + NameLen
         /\ \A k \in 1 .. 9 : InstrumentStored(ins)[k] = ins.params[k]
         /\ \A k \in 1 .. NameLen : InstrumentStored(ins)[9 + k] = Padded(ins.name)[k]
<1>1. PICK p, b : p = ins.params /\ b = Padded(ins.name)
  OBVIOUS
<1>2. p \in Seq(Nat) /\ Len(p) = 9
  <2>1. p \in Seq(Byte) /\ Len(p) = 9
    BY <1>1
  <2> QED
    BY <2>1, BytesSeq
<1>3. b \in Seq(Nat) /\ Len(b) = NameLen /\ NameLen \in Nat
  BY <1>1, PaddedIs, NameLenAssumption
<1>4. PICK c : c = p \o b
  OBVIOUS
<1>5. /\ c \in Seq(Nat) /\ Len(c) = 9 + NameLen
      /\ \A k \in 1 .. 9 : c[k] = p[k]
      /\ \A k \in 1 .. NameLen : c[9 + k] = b[k]
  <2>1. /\ c \in Seq(Nat) /\ Len(c) = Len(p) + Len(b)
        /\ \A k \in 1 .. Len(p) : c[k] = p[k]
        /\ \A k \in 1 .. Len(b) : c[Len(p) + k] = b[k]
    <3>1. p \in Seq(Nat) /\ b \in Seq(Nat)
      BY <1>2, <1>3
    <3> QED
      BY <1>4, <3>1, Joined
  <2> QED
    BY <1>2, <1>3, <2>1
<1> QED
  BY <1>1, <1>4, <1>5 DEF InstrumentStored

\* A table's.
TableBytes(item, t) ==
  LET n == Len(t)
  IN /\ Len(item) = 1 + 2 * n /\ item[1] = n
     /\ \A k \in 1 .. n : item[1 + k] = t[k][1] /\ item[1 + n + k] = t[k][2]

LEMMA TableStoredIs ==
  ASSUME NEW t \in Seq(BytePair)
  PROVE  TableStored(t) \in Seq(Nat) /\ TableBytes(TableStored(t), t)
<1> DEFINE l == [k \in DOMAIN t |-> t[k][1]]
           r == [k \in DOMAIN t |-> t[k][2]]
           a == <<Len(t)>>
<1>1. Len(t) \in Nat /\ DOMAIN t = 1 .. Len(t) /\ \A k \in 1 .. Len(t) : t[k] \in BytePair
  OBVIOUS
<1>2. \A k \in 1 .. Len(t) : t[k][1] \in Nat /\ t[k][2] \in Nat
  BY <1>1, BytesAreNumbers DEF BytePair
<1>3. l \in Seq(Nat) /\ Len(l) = Len(t) /\ \A k \in 1 .. Len(t) : l[k] = t[k][1]
  BY <1>1, <1>2
<1>4. r \in Seq(Nat) /\ Len(r) = Len(t) /\ \A k \in 1 .. Len(t) : r[k] = t[k][2]
  BY <1>1, <1>2
<1>5. a \in Seq(Nat) /\ Len(a) = 1 /\ a[1] = Len(t)
  BY <1>1
<1>6. TableStored(t) = a \o l \o r
  BY DEF TableStored
<1> HIDE DEF a, l, r
<1>7. PICK b : b = a \o l
  OBVIOUS
<1>8. /\ b \in Seq(Nat) /\ Len(b) = Len(a) + Len(l)
      /\ \A k \in 1 .. Len(a) : b[k] = a[k]
      /\ \A k \in 1 .. Len(l) : b[Len(a) + k] = l[k]
  <2>1. a \in Seq(Nat) /\ l \in Seq(Nat)
    BY <1>3, <1>5
  <2> QED
    BY <1>7, <2>1, Joined
<1>9. PICK c : c = b \o r
  OBVIOUS
<1>10. /\ c \in Seq(Nat) /\ Len(c) = Len(b) + Len(r)
       /\ \A k \in 1 .. Len(b) : c[k] = b[k]
       /\ \A k \in 1 .. Len(r) : c[Len(b) + k] = r[k]
  <2>1. b \in Seq(Nat) /\ r \in Seq(Nat)
    BY <1>4, <1>8
  <2> QED
    BY <1>9, <2>1, Joined
<1>11. Len(b) = 1 + Len(t) /\ Len(c) = 1 + 2 * Len(t)
  BY <1>1, <1>3, <1>4, <1>5, <1>8, <1>10
<1>12. c[1] = Len(t)
  BY <1>1, <1>5, <1>8, <1>10, <1>11
<1>13. ASSUME NEW k \in 1 .. Len(t) PROVE c[1 + k] = t[k][1] /\ c[1 + Len(t) + k] = t[k][2]
  <2>1. 1 + k \in 1 .. Len(b)
    BY <1>1, <1>11
  <2>2. c[1 + k] = b[1 + k] /\ b[1 + k] = l[k]
    BY <1>3, <1>5, <1>8, <1>10, <2>1
  <2>3. c[Len(b) + k] = r[k]
    BY <1>4, <1>10
  <2> QED
    BY <1>3, <1>4, <1>11, <2>2, <2>3
<1> QED
  BY <1>6, <1>7, <1>9, <1>10, <1>11, <1>12, <1>13 DEF TableBytes

\* A pattern's.
PatternBytes(item, p) ==
  LET n == Len(p)
  IN /\ Len(item) = 4 * n + 5 /\ item[1] = n + 1
     /\ \A k \in 1 .. n : \A j \in 1 .. 4 : item[4 * (k - 1) + j + 1] = p[k][j]
     /\ item[4 * n + 2] = ENDPATT

LEMMA RowsOffset ==
  ASSUME NEW seqs \in Seq(Seq(Nat)), \A k \in 1 .. Len(seqs) : Len(seqs[k]) = 4,
         NEW k \in 0 .. Len(seqs)
  PROVE  Off(seqs)[k] = 4 * k
<1> DEFINE Bad == {m \in 0 .. Len(seqs) : Off(seqs)[m] # 4 * m}
<1>1. /\ Len(seqs) \in Nat /\ Off(seqs)[0] = 0
      /\ \A m \in 1 .. Len(seqs) : Off(seqs)[m] = Off(seqs)[m - 1] + 4
  <2>1. /\ Len(seqs) \in Nat /\ Off(seqs)[0] = 0
        /\ \A m \in 1 .. Len(seqs) : Off(seqs)[m] = Off(seqs)[m - 1] + Len(seqs[m])
    BY OffIs
  <2> QED
    BY <2>1
<1>2. Bad = {}
  <2> SUFFICES ASSUME Bad # {} PROVE FALSE
    OBVIOUS
  <2>1. Bad \subseteq Nat
    BY <1>1
  <2>2. PICK m \in Bad : \A n \in Bad : m <= n
    <3> HIDE DEF Bad
    <3> QED
      BY <2>1, LeastOf
  <2>3. m \in 1 .. Len(seqs) /\ Off(seqs)[m] # 4 * m
    BY <1>1, <2>2
  <2>4. m - 1 \in 0 .. Len(seqs) /\ ~ (m - 1 \in Bad)
    BY <1>1, <2>2, <2>3
  <2>5. Off(seqs)[m - 1] = 4 * (m - 1)
    BY <2>4
  <2> HIDE DEF Bad
  <2> QED
    BY <1>1, <2>3, <2>5
<1> QED
  BY <1>2

LEMMA PatternStoredIs ==
  ASSUME NEW p \in Seq(Byte \X Byte \X Byte \X Byte)
  PROVE  PatternStored(p) \in Seq(Nat) /\ PatternBytes(PatternStored(p), p)
<1>1. Len(p) \in Nat /\ DOMAIN p = 1 .. Len(p)
      /\ \A k \in 1 .. Len(p) : p[k] \in Byte \X Byte \X Byte \X Byte
  OBVIOUS
<1>2. ASSUME NEW k \in 1 .. Len(p) PROVE p[k] \in Seq(Nat) /\ Len(p[k]) = 4
  <2>1. PICK b1 \in Byte, b2 \in Byte, b3 \in Byte, b4 \in Byte : p[k] = <<b1, b2, b3, b4>>
    BY <1>1
  <2>2. b1 \in Nat /\ b2 \in Nat /\ b3 \in Nat /\ b4 \in Nat
    BY BytesAreNumbers
  <2> QED
    BY <2>1, <2>2
<1>3. p \in Seq(Seq(Nat))
  BY <1>1, <1>2
<1>4. PICK rows : rows = FlattenSeq(p)
  OBVIOUS
<1>5. \A k \in 0 .. Len(p) : Off(p)[k] = 4 * k
  BY <1>2, <1>3, RowsOffset
<1>6. rows \in Seq(Nat) /\ Laid(rows, Off(p), p, Len(p))
  BY <1>3, <1>4, OffIs, FlattenLaid
<1>7. Len(rows) = 4 * Len(p)
  BY <1>1, <1>5, <1>6 DEF Laid
<1>8. ASSUME NEW k \in 1 .. Len(p), NEW j \in 1 .. 4 PROVE rows[4 * (k - 1) + j] = p[k][j]
  <2>1. k - 1 \in 0 .. Len(p) /\ j \in 1 .. Len(p[k])
    <3>1. Len(p[k]) = 4
      BY <1>2
    <3> QED
      BY <1>1, <3>1
  <2>2. rows[Off(p)[k - 1] + j] = p[k][j]
    BY <1>6, <2>1 DEF Laid
  <2> QED
    BY <1>5, <2>1, <2>2
<1> DEFINE a == <<Len(p) + 1>>
           z == <<ENDPATT, 0, 0, 0>>
<1>9. a \in Seq(Nat) /\ Len(a) = 1 /\ a[1] = Len(p) + 1
  BY <1>1
<1>10. z \in Seq(Nat) /\ Len(z) = 4 /\ z[1] = ENDPATT
  BY DEF ENDPATT
<1>11. PatternStored(p) = a \o rows \o z
  BY <1>4 DEF PatternStored
<1> HIDE DEF a, z
<1>12. PICK b : b = a \o rows
  OBVIOUS
<1>13. /\ b \in Seq(Nat) /\ Len(b) = Len(a) + Len(rows)
       /\ \A k \in 1 .. Len(a) : b[k] = a[k]
       /\ \A k \in 1 .. Len(rows) : b[Len(a) + k] = rows[k]
  <2>1. a \in Seq(Nat) /\ rows \in Seq(Nat)
    BY <1>6, <1>9
  <2> QED
    BY <1>12, <2>1, Joined
<1>14. PICK c : c = b \o z
  OBVIOUS
<1>15. /\ c \in Seq(Nat) /\ Len(c) = Len(b) + Len(z)
       /\ \A k \in 1 .. Len(b) : c[k] = b[k]
       /\ \A k \in 1 .. Len(z) : c[Len(b) + k] = z[k]
  <2>1. b \in Seq(Nat) /\ z \in Seq(Nat)
    BY <1>10, <1>13
  <2> QED
    BY <1>14, <2>1, Joined
<1>16. Len(b) = 4 * Len(p) + 1 /\ Len(c) = 4 * Len(p) + 5
  BY <1>1, <1>7, <1>9, <1>10, <1>13, <1>15
<1>17. c[1] = Len(p) + 1
  <2>1. 1 \in 1 .. Len(a) /\ 1 \in 1 .. Len(b)
    BY <1>1, <1>9, <1>16
  <2> QED
    BY <1>9, <1>13, <1>15, <2>1
<1>18. c[4 * Len(p) + 2] = ENDPATT
  <2>1. c[Len(b) + 1] = ENDPATT
    BY <1>10, <1>15
  <2>2. Len(b) + 1 = 4 * Len(p) + 2
    BY <1>1, <1>16
  <2> QED
    BY <2>1, <2>2
<1>19. ASSUME NEW k \in 1 .. Len(p), NEW j \in 1 .. 4 PROVE c[4 * (k - 1) + j + 1] = p[k][j]
  <2>1. PICK i : i = 4 * (k - 1) + j
    OBVIOUS
  <2>2. i \in 1 .. 4 * Len(p) /\ 1 + i = 4 * (k - 1) + j + 1 /\ 1 + i \in 1 .. Len(b)
    BY <1>1, <1>16, <2>1
  <2>3. c[1 + i] = b[1 + i] /\ b[1 + i] = rows[i] /\ rows[i] = p[k][j]
    BY <1>7, <1>8, <1>9, <1>13, <1>15, <2>1, <2>2
  <2> QED
    BY <2>2, <2>3
<1> QED
  BY <1>11, <1>12, <1>14, <1>15, <1>16, <1>17, <1>18, <1>19 DEF PatternBytes

-----------------------------------------------------------------------------
(* The layout of a file.                                                   *)

Shown(song) == Shaped(song) /\ Valid(song)

LEMMA OrderSeqsTyped ==
  ASSUME NEW s \in Seq(Orderlist)
  PROVE  OrderSeqs(s) \in Seq(Seq(Nat)) /\ Len(OrderSeqs(s)) = Len(s)
         /\ \A c \in 1 .. Len(s) : OrderSeqs(s)[c] = OrderStored(s[c])
<1>1. DOMAIN s = 1 .. Len(s) /\ Len(s) \in Nat /\ \A c \in 1 .. Len(s) : s[c] \in Orderlist
  OBVIOUS
<1>2. \A c \in 1 .. Len(s) : OrderStored(s[c]) \in Seq(Nat)
  BY <1>1, OrderStoredIs
<1> QED
  BY <1>1, <1>2 DEF OrderSeqs

LEMMA SubtuneSeqsTyped ==
  ASSUME NEW song, Shaped(song)
  PROVE  /\ SubtuneSeqs(song) \in Seq(Seq(Nat)) /\ Len(SubtuneSeqs(song)) = Len(song.subtunes)
         /\ \A k \in 1 .. Len(song.subtunes) :
              /\ SubtuneSeqs(song)[k] = FlattenSeq(OrderSeqs(song.subtunes[k]))
              /\ song.subtunes[k] \in Seq(Orderlist)
<1>1. song.subtunes \in Seq(Seq(Orderlist))
  BY DEF Shaped, SongSet
<1>2. PICK s : s = song.subtunes
  OBVIOUS
<1>3. DOMAIN s = 1 .. Len(s) /\ Len(s) \in Nat /\ \A k \in 1 .. Len(s) : s[k] \in Seq(Orderlist)
  BY <1>1, <1>2
<1>4. ASSUME NEW k \in 1 .. Len(s) PROVE FlattenSeq(OrderSeqs(s[k])) \in Seq(Nat)
  BY <1>3, OrderSeqsTyped, FlatLength
<1> QED
  BY <1>2, <1>3, <1>4 DEF SubtuneSeqs

LEMMA InstrumentSeqsTyped ==
  ASSUME NEW song, Shown(song)
  PROVE  /\ InstrumentSeqs(song) \in Seq(Seq(Nat)) /\ Len(InstrumentSeqs(song)) = Len(song.instruments)
         /\ \A k \in 1 .. Len(song.instruments) :
              LET ins == song.instruments[k]
              IN /\ InstrumentSeqs(song)[k] = InstrumentStored(ins)
                 /\ ins \in [params : Seq(Byte), name : Seq(Byte \ {0})]
                 /\ Len(ins.params) = 9 /\ StringFits(ins.name)
<1>1. song.instruments \in Seq([params : Seq(Byte), name : Seq(Byte \ {0})])
      /\ (\A k \in DOMAIN song.instruments : Len(song.instruments[k].params) = 9)
  BY DEF Shown, Shaped, SongSet
<1>2. \A ins \in Range(song.instruments) : StringFits(ins.name)
  BY DEF Shown, Valid
<1>3. PICK s : s = song.instruments
  OBVIOUS
<1>4. /\ DOMAIN s = 1 .. Len(s) /\ Len(s) \in Nat
      /\ \A k \in 1 .. Len(s) : s[k] \in [params : Seq(Byte), name : Seq(Byte \ {0})]
                                /\ Len(s[k].params) = 9
  <2>1. s \in Seq([params : Seq(Byte), name : Seq(Byte \ {0})])
    BY <1>1, <1>3
  <2>2. \A k \in DOMAIN s : Len(s[k].params) = 9
    BY <1>1, <1>3
  <2>3. DOMAIN s = 1 .. Len(s) /\ Len(s) \in Nat
    BY <2>1
  <2>4. ASSUME NEW k \in 1 .. Len(s)
        PROVE  s[k] \in [params : Seq(Byte), name : Seq(Byte \ {0})]
    <3>1. PICK R : R = [params : Seq(Byte), name : Seq(Byte \ {0})]
      OBVIOUS
    <3>2. s \in Seq(R)
      BY <2>1, <3>1
    <3>3. s[k] \in R
      BY <3>2
    <3> QED
      BY <3>1, <3>3
  <2> QED
    BY <2>2, <2>3, <2>4
<1>5. \A k \in 1 .. Len(s) : StringFits(s[k].name)
  BY <1>2, <1>3, <1>4 DEF Range
<1>6. ASSUME NEW k \in 1 .. Len(s) PROVE InstrumentStored(s[k]) \in Seq(Nat)
  <2>1. PICK ins : ins = s[k]
    OBVIOUS
  <2>2. ins.params \in Seq(Byte) /\ Len(ins.params) = 9
        /\ ins.name \in Seq(Byte \ {0}) /\ StringFits(ins.name)
    BY <1>4, <1>5, <2>1
  <2> QED
    BY <2>1, <2>2, InstrumentStoredIs
<1> QED
  BY <1>3, <1>4, <1>5, <1>6 DEF InstrumentSeqs

LEMMA TableSeqsTyped ==
  ASSUME NEW song, Shaped(song)
  PROVE  /\ TableSeqs(song) \in Seq(Seq(Nat)) /\ Len(TableSeqs(song)) = 4 /\ Len(song.tables) = 4
         /\ \A k \in 1 .. 4 : /\ TableSeqs(song)[k] = TableStored(song.tables[k])
                              /\ song.tables[k] \in Seq(BytePair)
<1>1. song.tables \in Seq(Seq(BytePair)) /\ Len(song.tables) = 4
  BY DEF Shaped, SongSet
<1>2. PICK s : s = song.tables
  OBVIOUS
<1>3. DOMAIN s = 1 .. 4 /\ Len(s) = 4 /\ \A k \in 1 .. 4 : s[k] \in Seq(BytePair)
  BY <1>1, <1>2
<1>4. \A k \in 1 .. 4 : TableStored(s[k]) \in Seq(Nat)
  BY <1>3, TableStoredIs
<1> QED
  BY <1>2, <1>3, <1>4 DEF TableSeqs

LEMMA PatternSeqsTyped ==
  ASSUME NEW song, Shaped(song)
  PROVE  /\ PatternSeqs(song) \in Seq(Seq(Nat)) /\ Len(PatternSeqs(song)) = Len(song.patterns)
         /\ \A k \in 1 .. Len(song.patterns) :
              /\ PatternSeqs(song)[k] = PatternStored(song.patterns[k])
              /\ song.patterns[k] \in Seq(Byte \X Byte \X Byte \X Byte)
<1>1. song.patterns \in Seq(Seq(Byte \X Byte \X Byte \X Byte))
  BY DEF Shaped, SongSet
<1>2. PICK s : s = song.patterns
  OBVIOUS
<1>3. DOMAIN s = 1 .. Len(s) /\ Len(s) \in Nat
      /\ \A k \in 1 .. Len(s) : s[k] \in Seq(Byte \X Byte \X Byte \X Byte)
  BY <1>1, <1>2
<1>4. \A k \in 1 .. Len(s) : PatternStored(s[k]) \in Seq(Nat)
  BY <1>3, PatternStoredIs
<1> QED
  BY <1>2, <1>3, <1>4 DEF PatternSeqs

LEMMA WholeHeld ==
  ASSUME NEW f \in Seq(Nat)
  PROVE  Holds(f, 1, f)
BY DEF Holds

\* A count and the items it counts.
CountedSeq(n, seqs) == <<n>> \o FlattenSeq(seqs)

LEMMA CountedHeld ==
  ASSUME NEW f \in Seq(Nat), NEW p \in Nat \ {0}, NEW seqs \in Seq(Seq(Nat)), NEW n \in Nat,
         n = Len(seqs), Holds(f, p, CountedSeq(n, seqs))
  PROVE  /\ Holds(f, p, <<n>>) /\ Holds(f, p + 1, FlattenSeq(seqs))
         /\ Len(CountedSeq(n, seqs)) = 1 + Off(seqs)[n]
<1>1. PICK s : s = FlattenSeq(seqs)
  OBVIOUS
<1>2. s \in Seq(Nat) /\ Len(s) = Off(seqs)[n]
  BY <1>1, FlatLength
<1>3. PICK a : a = <<n>>
  OBVIOUS
<1>4. a \in Seq(Nat) /\ Len(a) = 1 /\ CountedSeq(n, seqs) = a \o s
  BY <1>1, <1>3 DEF CountedSeq
<1>5. Holds(f, p, a \o s)
  BY <1>4
<1>6. Holds(f, p, a) /\ Holds(f, p + Len(a), s)
  BY <1>2, <1>4, <1>5, BothHeld
<1>7. Len(a \o s) = Len(a) + Len(s)
  BY <1>2, <1>4, Joined
<1> QED
  BY <1>1, <1>2, <1>3, <1>4, <1>6, <1>7

LEMMA CountedSeqTyped ==
  ASSUME NEW seqs \in Seq(Seq(Nat)), NEW n \in Nat
  PROVE  CountedSeq(n, seqs) \in Seq(Nat)
<1>1. FlattenSeq(seqs) \in Seq(Nat) /\ <<n>> \in Seq(Nat)
  BY FlatLength
<1> QED
  BY <1>1, Joined DEF CountedSeq

\* Each section is where the next one expects it.
LEMMA Layout ==
  ASSUME NEW song, Shown(song)
  PROVE  LET f == Stored(song) IN
         /\ f \in Seq(Nat)
         /\ Holds(f, 1, Padded(song.name)) /\ Holds(f, NameLen + 1, <<Len(song.subtunes)>>)
         /\ Holds(f, OrdersAt, FlattenSeq(SubtuneSeqs(song)))
         /\ Holds(f, InstrumentCountAt(song), <<Len(song.instruments)>>)
         /\ Holds(f, InstrumentsAt(song), FlattenSeq(InstrumentSeqs(song)))
         /\ Holds(f, TablesAt(song), FlattenSeq(TableSeqs(song)))
         /\ Holds(f, PatternCountAt(song), <<Len(song.patterns)>>)
         /\ Holds(f, PatternsAt(song), FlattenSeq(PatternSeqs(song)))
         /\ EndAt(song) = Len(f) + 1
         /\ OrdersAt \in Nat \ {0} /\ InstrumentCountAt(song) \in Nat \ {0}
         /\ InstrumentsAt(song) \in Nat \ {0} /\ TablesAt(song) \in Nat \ {0}
         /\ PatternCountAt(song) \in Nat \ {0} /\ PatternsAt(song) \in Nat \ {0}
<1>1. PICK ss, is, ts, ps : ss = SubtuneSeqs(song) /\ is = InstrumentSeqs(song)
                            /\ ts = TableSeqs(song) /\ ps = PatternSeqs(song)
  OBVIOUS
<1>2. PICK n1, n2, n3, n4 : /\ n1 = Len(song.subtunes) /\ n2 = Len(song.instruments)
                            /\ n3 = Len(song.tables) /\ n4 = Len(song.patterns)
  OBVIOUS
<1>3. Shaped(song)
  BY DEF Shown
<1>4. ss \in Seq(Seq(Nat)) /\ Len(ss) = n1 /\ n1 \in Nat
  <2>1. ss \in Seq(Seq(Nat)) /\ Len(ss) = n1
    BY <1>1, <1>2, <1>3, SubtuneSeqsTyped
  <2> QED
    BY <2>1
<1>5. is \in Seq(Seq(Nat)) /\ Len(is) = n2 /\ n2 \in Nat
  <2>1. is \in Seq(Seq(Nat)) /\ Len(is) = n2
    BY <1>1, <1>2, InstrumentSeqsTyped
  <2> QED
    BY <2>1
<1>6. ts \in Seq(Seq(Nat)) /\ Len(ts) = n3
  BY <1>1, <1>2, <1>3, TableSeqsTyped
<1>7. ps \in Seq(Seq(Nat)) /\ Len(ps) = n4 /\ n4 \in Nat
  <2>1. ps \in Seq(Seq(Nat)) /\ Len(ps) = n4
    BY <1>1, <1>2, <1>3, PatternSeqsTyped
  <2> QED
    BY <2>1
<1>8. song.name \in Seq(Byte \ {0}) /\ StringFits(song.name)
  BY <1>3 DEF Shown, Shaped, SongSet, Valid
<1>9. PICK p, c, d, t, e : /\ p = Padded(song.name) /\ c = CountedSeq(n1, ss)
                           /\ d = CountedSeq(n2, is) /\ t = FlattenSeq(ts)
                           /\ e = CountedSeq(n4, ps)
  OBVIOUS
<1>10. p \in Seq(Nat) /\ Len(p) = NameLen
  BY <1>8, <1>9, PaddedIs
<1>11. c \in Seq(Nat) /\ d \in Seq(Nat) /\ e \in Seq(Nat) /\ t \in Seq(Nat)
  <2>1. t \in Seq(Nat)
    BY <1>6, <1>9, FlatLength
  <2> QED
    BY <1>4, <1>5, <1>7, <1>9, <2>1, CountedSeqTyped
<1>12. PICK f : f = Stored(song)
  OBVIOUS
<1>13. PICK f2, f3, f4 : f2 = p \o c /\ f3 = f2 \o d /\ f4 = f3 \o t
  OBVIOUS
<1>14. f = f4 \o e
  BY <1>1, <1>2, <1>9, <1>12, <1>13, StoredParts DEF CountedSeq
<1>15. f2 \in Seq(Nat) /\ Len(f2) = NameLen + Len(c)
  BY <1>10, <1>11, <1>13, Joined
<1>16. f3 \in Seq(Nat) /\ Len(f3) = Len(f2) + Len(d)
  BY <1>11, <1>13, <1>15, Joined
<1>17. f4 \in Seq(Nat) /\ Len(f4) = Len(f3) + Len(t)
  BY <1>11, <1>13, <1>16, Joined
<1>18. f \in Seq(Nat) /\ Len(f) = Len(f4) + Len(e)
  BY <1>11, <1>14, <1>17, Joined
<1>19. 1 \in Nat \ {0}
  OBVIOUS
<1>20. Holds(f, 1, f4) /\ Holds(f, 1 + Len(f4), e)
  <2>1. Holds(f, 1, f4 \o e)
    BY <1>14, <1>18, WholeHeld
  <2> QED
    BY <1>11, <1>17, <1>18, <1>19, <2>1, BothHeld
<1>21. Holds(f, 1, f3) /\ Holds(f, 1 + Len(f3), t)
  <2>1. Holds(f, 1, f3 \o t)
    BY <1>13, <1>20
  <2> QED
    BY <1>11, <1>16, <1>18, <1>19, <2>1, BothHeld
<1>22. Holds(f, 1, f2) /\ Holds(f, 1 + Len(f2), d)
  <2>1. Holds(f, 1, f2 \o d)
    BY <1>13, <1>21
  <2> QED
    BY <1>11, <1>15, <1>18, <1>19, <2>1, BothHeld
<1>23. Holds(f, 1, p) /\ Holds(f, 1 + NameLen, c)
  <2>1. Holds(f, 1, p \o c)
    BY <1>13, <1>22
  <2> QED
    BY <1>10, <1>11, <1>18, <1>19, <2>1, BothHeld
<1>24. PICK l0, l1, l2, l3, l4 : l0 = NameLen /\ l1 = Len(c) /\ l2 = Len(d) /\ l3 = Len(t) /\ l4 = Len(e)
  OBVIOUS
<1>25. l0 \in Nat /\ l1 \in Nat /\ l2 \in Nat /\ l3 \in Nat /\ l4 \in Nat
  BY <1>11, <1>24, NameLenAssumption
<1>26. /\ Holds(f, l0 + 1, <<n1>>) /\ Holds(f, l0 + 2, FlattenSeq(ss))
       /\ l1 = 1 + Off(ss)[n1] /\ Off(ss)[n1] \in Nat
  <2>1. l0 + 1 \in Nat \ {0} /\ (l0 + 1) + 1 = l0 + 2 /\ 1 + l0 = l0 + 1
    BY <1>25
  <2>2. Holds(f, l0 + 1, c)
    BY <1>23, <1>24, <2>1
  <2>3. Holds(f, l0 + 1, <<n1>>) /\ Holds(f, (l0 + 1) + 1, FlattenSeq(ss)) /\ Len(c) = 1 + Off(ss)[n1]
    <3>1. ss \in Seq(Seq(Nat)) /\ n1 \in Nat /\ n1 = Len(ss)
      BY <1>4
    <3>2. c = CountedSeq(n1, ss) /\ f \in Seq(Nat)
      BY <1>9, <1>11, <1>18
    <3>3. PICK v : v = l0 + 1
      OBVIOUS
    <3>4. v \in Nat \ {0} /\ Holds(f, v, c)
      BY <2>1, <2>2, <3>3
    <3>5. Holds(f, v, <<n1>>) /\ Holds(f, v + 1, FlattenSeq(ss)) /\ Len(c) = 1 + Off(ss)[n1]
      BY <3>1, <3>2, <3>4, CountedHeld
    <3> QED
      BY <3>3, <3>5
  <2>4. Off(ss)[n1] \in Nat
    BY <1>4, OffIs
  <2> QED
    BY <1>24, <2>1, <2>3, <2>4
<1>27. PICK m : m = l0 + l1
  OBVIOUS
<1>28. /\ Holds(f, m + 1, <<n2>>) /\ Holds(f, m + 2, FlattenSeq(is))
       /\ l2 = 1 + Off(is)[n2] /\ Off(is)[n2] \in Nat
  <2>1. m + 1 \in Nat \ {0} /\ (m + 1) + 1 = m + 2 /\ 1 + Len(f2) = m + 1
    BY <1>15, <1>24, <1>25, <1>27
  <2>2. Holds(f, m + 1, d)
    BY <1>22, <2>1
  <2>3. Holds(f, m + 1, <<n2>>) /\ Holds(f, (m + 1) + 1, FlattenSeq(is)) /\ Len(d) = 1 + Off(is)[n2]
    <3>1. is \in Seq(Seq(Nat)) /\ n2 \in Nat /\ n2 = Len(is)
      BY <1>5
    <3>2. d = CountedSeq(n2, is) /\ f \in Seq(Nat)
      BY <1>9, <1>11, <1>18
    <3>3. PICK v : v = m + 1
      OBVIOUS
    <3>4. v \in Nat \ {0} /\ Holds(f, v, d)
      BY <2>1, <2>2, <3>3
    <3>5. Holds(f, v, <<n2>>) /\ Holds(f, v + 1, FlattenSeq(is)) /\ Len(d) = 1 + Off(is)[n2]
      BY <3>1, <3>2, <3>4, CountedHeld
    <3> QED
      BY <3>3, <3>5
  <2>4. Off(is)[n2] \in Nat
    BY <1>5, OffIs
  <2> QED
    BY <1>24, <2>1, <2>3, <2>4
<1>29. PICK k : k = m + l2
  OBVIOUS
<1>30. Holds(f, k + 1, FlattenSeq(ts)) /\ l3 = Off(ts)[n3]
  <2>1. 1 + Len(f3) = k + 1
    BY <1>15, <1>16, <1>24, <1>25, <1>27, <1>29
  <2>2. l3 = Off(ts)[n3]
    BY <1>6, <1>9, <1>24, FlatLength
  <2> QED
    BY <1>9, <1>21, <2>1, <2>2
<1>31. PICK q : q = k + l3
  OBVIOUS
<1>32. /\ Holds(f, q + 1, <<n4>>) /\ Holds(f, q + 2, FlattenSeq(ps))
       /\ l4 = 1 + Off(ps)[n4] /\ Off(ps)[n4] \in Nat
  <2>1. q + 1 \in Nat \ {0} /\ (q + 1) + 1 = q + 2 /\ 1 + Len(f4) = q + 1
    BY <1>15, <1>16, <1>17, <1>24, <1>25, <1>27, <1>29, <1>31
  <2>2. Holds(f, q + 1, e)
    BY <1>20, <2>1
  <2>3. Holds(f, q + 1, <<n4>>) /\ Holds(f, (q + 1) + 1, FlattenSeq(ps)) /\ Len(e) = 1 + Off(ps)[n4]
    <3>1. ps \in Seq(Seq(Nat)) /\ n4 \in Nat /\ n4 = Len(ps)
      BY <1>7
    <3>2. e = CountedSeq(n4, ps) /\ f \in Seq(Nat)
      BY <1>9, <1>11, <1>18
    <3>3. PICK v : v = q + 1
      OBVIOUS
    <3>4. v \in Nat \ {0} /\ Holds(f, v, e)
      BY <2>1, <2>2, <3>3
    <3>5. Holds(f, v, <<n4>>) /\ Holds(f, v + 1, FlattenSeq(ps)) /\ Len(e) = 1 + Off(ps)[n4]
      BY <3>1, <3>2, <3>4, CountedHeld
    <3> QED
      BY <3>3, <3>5
  <2>4. Off(ps)[n4] \in Nat
    BY <1>7, OffIs
  <2> QED
    BY <1>24, <2>1, <2>3, <2>4
<1>33. OrdersAt = l0 + 2 /\ InstrumentCountAt(song) = OrdersAt + Off(ss)[n1]
       /\ TablesAt(song) = InstrumentsAt(song) + Off(is)[n2]
       /\ PatternCountAt(song) = TablesAt(song) + Off(ts)[n3]
       /\ EndAt(song) = PatternsAt(song) + Off(ps)[n4]
  BY <1>1, <1>2, <1>24 DEF OrdersAt, InstrumentCountAt, TablesAt, PatternCountAt, EndAt
<1>34. InstrumentsAt(song) = InstrumentCountAt(song) + 1 /\ PatternsAt(song) = PatternCountAt(song) + 1
  BY DEF InstrumentsAt, PatternsAt
<1>35. /\ OrdersAt = l0 + 2 /\ InstrumentCountAt(song) = m + 1 /\ InstrumentsAt(song) = m + 2
       /\ TablesAt(song) = k + 1 /\ PatternCountAt(song) = q + 1 /\ PatternsAt(song) = q + 2
       /\ EndAt(song) = q + l4 + 1
  BY <1>25, <1>26, <1>27, <1>28, <1>29, <1>30, <1>31, <1>32, <1>33, <1>34
<1>36. Len(f) = q + l4
  BY <1>15, <1>16, <1>17, <1>18, <1>24, <1>25, <1>27, <1>29, <1>31
<1>37. m \in Nat /\ k \in Nat /\ q \in Nat
  BY <1>25, <1>27, <1>29, <1>31
<1>38. EndAt(song) = Len(f) + 1
  BY <1>35, <1>36, <1>37, <1>25
<1>39. /\ OrdersAt \in Nat \ {0} /\ InstrumentCountAt(song) \in Nat \ {0}
       /\ InstrumentsAt(song) \in Nat \ {0} /\ TablesAt(song) \in Nat \ {0}
       /\ PatternCountAt(song) \in Nat \ {0} /\ PatternsAt(song) \in Nat \ {0}
  BY <1>25, <1>35, <1>37
<1> QED
  BY <1>1, <1>2, <1>9, <1>12, <1>18, <1>23, <1>24, <1>26, <1>28, <1>30, <1>32, <1>35, <1>38, <1>39

-----------------------------------------------------------------------------
(* What the reader finds.                                                  *)

\* The file is what was written, or has lost its end, or has more.
Agrees ==
  /\ file \in Seq(Nat)
  /\ whole => file = Stored(kept)
  /\ ~ whole => Len(file) # Len(Stored(kept))
  /\ \A i \in 1 .. Len(file) : i <= Len(Stored(kept)) => file[i] = Stored(kept)[i]

\* Of an item the bytes that are left are right; one is missing only of a damaged file.
LEMMA HeldOrCut ==
  ASSUME Agrees, Stored(kept) \in Seq(Nat), NEW p \in Nat \ {0}, NEW item \in Seq(Nat),
         Holds(Stored(kept), p, item)
  PROVE  /\ \A j \in 1 .. Len(item) : p + j - 1 <= Len(file) => file[p + j - 1] = item[j]
         /\ p + Len(item) - 1 <= Len(file) => Holds(file, p, item)
         /\ p + Len(item) - 1 > Len(file) => ~ whole
<1>1. PICK f : f = Stored(kept)
  OBVIOUS
<1>2. PICK n, l, m : n = Len(item) /\ l = Len(file) /\ m = Len(f)
  OBVIOUS
<1>3. n \in Nat /\ l \in Nat /\ m \in Nat
  <2>1. file \in Seq(Nat) /\ f \in Seq(Nat)
    BY <1>1 DEF Agrees
  <2> QED
    BY <1>2, <2>1
<1>4. p + n - 1 <= m /\ \A j \in 1 .. n : f[p + j - 1] = item[j]
  BY <1>1, <1>2 DEF Holds
<1>5. whole => l = m
  BY <1>1, <1>2 DEF Agrees
<1>6. \A i \in 1 .. l : i <= m => file[i] = f[i]
  BY <1>1, <1>2 DEF Agrees
<1>7. ASSUME NEW j \in 1 .. n, p + j - 1 <= l PROVE file[p + j - 1] = item[j]
  <2>1. p + j - 1 \in 1 .. l /\ p + j - 1 <= m
    BY <1>3, <1>4, <1>7
  <2> QED
    BY <1>4, <1>6, <2>1
<1>8. ASSUME p + n - 1 <= l PROVE Holds(file, p, item)
  <2>1. \A j \in 1 .. n : p + j - 1 <= l
    BY <1>3, <1>8
  <2> QED
    BY <1>2, <1>7, <1>8, <2>1 DEF Holds
<1>9. p + n - 1 > l => ~ whole
  BY <1>3, <1>4, <1>5
<1> QED
  BY <1>2, <1>7, <1>8, <1>9

LEMMA SubSeqHeld ==
  ASSUME NEW f \in Seq(Nat), NEW p \in Nat \ {0}, NEW item \in Seq(Nat), Holds(f, p, item)
  PROVE  SubSeq(f, p, p + Len(item) - 1) = item
<1>1. PICK n, l : n = Len(item) /\ l = Len(f)
  OBVIOUS
<1>2. n \in Nat /\ l \in Nat /\ p + n - 1 <= l /\ \A j \in 1 .. n : f[p + j - 1] = item[j]
  BY <1>1 DEF Holds
<1>3. p \in 1 .. l + 1 /\ p + n - 1 \in p - 1 .. l
  BY <1>2
<1>4. PICK s : s = SubSeq(f, p, p + n - 1)
  OBVIOUS
<1>5. s \in Seq(Nat) /\ Len(s) = (p + n - 1) - p + 1
      /\ \A i \in 1 .. (p + n - 1) - p + 1 : s[i] = f[p + i - 1]
  BY <1>1, <1>3, <1>4, SubSeqProperties, SMTT(30)
<1>6. Len(s) = n /\ \A i \in 1 .. n : s[i] = item[i]
  <2>1. (p + n - 1) - p + 1 = n
    <3>1. n \in Nat /\ p \in Nat
      BY <1>2
    <3> QED
      BY <3>1
  <2>2. Len(s) = n /\ \A i \in 1 .. n : s[i] = f[p + i - 1]
    BY <1>5, <2>1
  <2> QED
    BY <1>2, <2>2
<1>7. s = item
  BY <1>1, <1>5, <1>6, SeqEqual
<1> QED
  BY <1>1, <1>4, <1>7

LEMMA StringRead ==
  ASSUME file \in Seq(Nat), NEW p \in Nat \ {0}, NEW s \in Seq(Byte \ {0}), StringFits(s),
         Holds(file, p, Padded(s))
  PROVE  StringAt(p) = s
<1> DEFINE zeros == {k \in 0 .. NameLen - 1 : file[p + k] = 0}
<1>1. PICK n, l, b : n = Len(s) /\ l = NameLen /\ b = Padded(s)
  OBVIOUS
<1>2. /\ n \in Nat /\ l \in Nat /\ n < l /\ s \in Seq(Nat)
      /\ \A k \in 1 .. n : s[k] # 0
  <2>1. \A k \in 1 .. Len(s) : s[k] \in Byte \ {0}
    OBVIOUS
  <2>2. Len(s) \in Nat /\ s \in Seq(Nat)
    BY BytesSeq
  <2> QED
    BY <1>1, <2>1, <2>2, NameLenAssumption DEF StringFits
<1>3. b \in Seq(Nat) /\ Len(b) = l /\ \A k \in 1 .. l : b[k] = IF k <= n THEN s[k] ELSE 0
  BY <1>1, PaddedIs
<1>4. p + l - 1 <= Len(file) /\ \A j \in 1 .. l : file[p + j - 1] = b[j]
  BY <1>1, <1>3 DEF Holds
<1>5. ASSUME NEW k \in 0 .. l - 1 PROVE file[p + k] = b[k + 1]
  <2>1. k + 1 \in 1 .. l /\ p + (k + 1) - 1 = p + k
    BY <1>2
  <2> QED
    BY <1>4, <2>1
<1>6. n \in zeros
  <2>1. n \in 0 .. l - 1 /\ n + 1 \in 1 .. l /\ ~ (n + 1 <= n)
    BY <1>2
  <2>2. file[p + n] = 0
    BY <1>3, <1>5, <2>1
  <2> QED
    BY <1>1, <2>1, <2>2
<1>7. ASSUME NEW k \in zeros PROVE n <= k
  <2>1. k \in 0 .. l - 1 /\ file[p + k] = 0
    BY <1>1
  <2>2. b[k + 1] = 0 /\ k + 1 \in 1 .. l
    BY <1>2, <1>5, <2>1
  <2>3. ~ (k + 1 \in 1 .. n)
    BY <1>2, <1>3, <2>2, SMTT(30)
  <2> QED
    BY <1>2, <2>1, <2>3
<1>8. zeros \subseteq Nat
  BY <1>1, <1>2
<1> HIDE DEF zeros
<1>9. Min(zeros) = n
  <2>1. Min(zeros) \in zeros /\ \A y \in zeros : Min(zeros) <= y
    BY <1>6, <1>8, FirstIn
  <2>2. PICK m : m = Min(zeros)
    OBVIOUS
  <2>3. m \in Nat /\ m <= n /\ n <= m
    BY <1>6, <1>7, <1>8, <2>1, <2>2
  <2> QED
    BY <1>2, <2>2, <2>3
<1>10. StringAt(p) = SubSeq(file, p, p - 1 + n)
  <2>1. zeros # {}
    BY <1>6
  <2> QED
    BY <1>9, <2>1 DEF StringAt, zeros
<1>11. Holds(file, p, s)
  <2>1. p + n - 1 <= Len(file)
    <3>1. Len(file) \in Nat
      OBVIOUS
    <3> QED
      BY <1>2, <1>4, <3>1
  <2>2. ASSUME NEW j \in 1 .. n PROVE file[p + j - 1] = s[j]
    <3>1. j \in 1 .. l /\ j <= n
      BY <1>2
    <3> QED
      BY <1>3, <1>4, <3>1
  <2> QED
    BY <1>1, <2>1, <2>2 DEF Holds
<1>12. SubSeq(file, p, p + n - 1) = s
  BY <1>1, <1>2, <1>11, SubSeqHeld
<1>13. p - 1 + n = p + n - 1
  BY <1>2
<1> QED
  BY <1>10, <1>12, <1>13

LEMMA OrderRead ==
  ASSUME Agrees, Stored(kept) \in Seq(Nat), pos \in Nat \ {0}, NEW o \in Orderlist,
         Len(o.entries) \in 1 .. MAX_SONGLEN, Holds(Stored(kept), pos, OrderStored(o)),
         ReadOrderlist
  PROVE  \/ section' = "refused" /\ ~ whole
         \/ LET lists == Append(parsed.lists, o)
                next == pos + Len(OrderStored(o))
            IN IF Len(lists) < parsed.chans
               THEN Go(next, "orders", [parsed EXCEPT !.lists = lists])
               ELSE Go(next, IF parsed.left > 1 THEN "orders" ELSE "instrument_count",
                       [Put("subtunes", lists) EXCEPT !.lists = <<>>, !.left = @ - 1])
<1>1. PICK item, e, m : item = OrderStored(o) /\ e = o.entries /\ m = Len(o.entries)
  OBVIOUS
<1>2. item \in Seq(Nat) /\ OrderBytes(item, o)
  BY <1>1, OrderStoredIs
<1>3. /\ Len(item) = m + 3 /\ item[1] = m + 1
      /\ \A k \in 1 .. m : item[k + 1] = e[k]
      /\ item[m + 2] = LOOPSONG /\ item[m + 3] = o.restart
  BY <1>1, <1>2 DEF OrderBytes
<1>4. /\ o = [entries |-> e, restart |-> o.restart]
      /\ e \in Seq(Byte \ {LOOPSONG}) /\ m \in Nat /\ m >= 1 /\ m = Len(e)
  <2>1. o \in [entries : Seq(Byte \ {LOOPSONG}), restart : Byte]
    BY DEF Orderlist
  <2> QED
    BY <1>1, <2>1
<1>5. e \in Seq(Nat) /\ LOOPSONG \notin Range(e)
  <2>1. e \in Seq(Nat)
    BY <1>4, BytesSeq
  <2>2. \A k \in 1 .. Len(e) : e[k] \in Byte \ {LOOPSONG}
    BY <1>4
  <2> QED
    BY <1>4, <2>1, <2>2 DEF Range
<1>6. /\ \A j \in 1 .. m + 3 : pos + j - 1 <= Len(file) => file[pos + j - 1] = item[j]
      /\ pos + (m + 3) - 1 <= Len(file) => Holds(file, pos, item)
      /\ pos + (m + 3) - 1 > Len(file) => ~ whole
  <2>1. PICK w : w = m + 3
    OBVIOUS
  <2>2. Holds(Stored(kept), pos, item) /\ item \in Seq(Nat) /\ Len(item) = w
    BY <1>1, <1>2, <1>3, <2>1
  <2>3. /\ \A j \in 1 .. Len(item) : pos + j - 1 <= Len(file) => file[pos + j - 1] = item[j]
        /\ pos + Len(item) - 1 <= Len(file) => Holds(file, pos, item)
        /\ pos + Len(item) - 1 > Len(file) => ~ whole
    BY <2>2, HeldOrCut
  <2> QED
    BY <2>1, <2>2, <2>3
<1>7. file \in Seq(Nat) /\ Len(file) \in Nat
  BY DEF Agrees
<1> DEFINE n == IF Has(1) THEN file[pos] ELSE 0
           body == SubSeq(file, pos + 1, pos + n - 1)
           lists == Append(parsed.lists, [entries |-> body, restart |-> file[pos + n + 1]])
           next == pos + n + 2
<1>8. Has(1) => n = m + 1
  <2>1. ASSUME Has(1) PROVE n = m + 1
    <3>1. 1 \in 1 .. m + 3 /\ pos + 1 - 1 = pos /\ pos <= Len(file)
      BY <1>4, <1>7, <2>1 DEF Has
    <3>2. file[pos] = item[1]
      BY <1>6, <3>1
    <3> QED
      BY <1>3, <2>1, <3>2
  <2> QED
    BY <2>1
<1>9. \/ n < 1 /\ ~ Has(1)
      \/ Has(1) /\ n = m + 1
  BY <1>8
<1>10. IF n < 1 \/ ~ Has(n + 2) THEN Refuse
       ELSE IF file[pos + n] # LOOPSONG \/ LOOPSONG \in Range(body) THEN Refuse
       ELSE IF Len(lists) < parsed.chans THEN Go(next, "orders", [parsed EXCEPT !.lists = lists])
       ELSE Go(next, IF parsed.left > 1 THEN "orders" ELSE "instrument_count",
               [Put("subtunes", lists) EXCEPT !.lists = <<>>, !.left = @ - 1])
  BY DEF ReadOrderlist
<1>11. CASE ~ (pos + (m + 3) - 1 <= Len(file))
  <2>1. ~ whole
    BY <1>4, <1>6, <1>7, <1>11
  <2>2. n < 1 \/ ~ Has(n + 2)
    <3>1. CASE ~ Has(1)
      BY <1>9, <3>1
    <3>2. CASE Has(1)
      <4>1. n = m + 1
        BY <1>8, <3>2
      <4> HIDE DEF n
      <4> QED
        BY <1>4, <1>7, <1>11, <4>1 DEF Has
    <3> QED
      BY <3>1, <3>2
  <2> HIDE DEF n, body, lists, next
  <2>3. Refuse
    BY <1>10, <2>2
  <2> QED
    BY <2>1, <2>3 DEF Refuse
<1>12. CASE pos + (m + 3) - 1 <= Len(file)
  <2>1. Holds(file, pos, item)
    BY <1>6, <1>12
  <2>2. Has(1)
    BY <1>4, <1>7, <1>12 DEF Has
  <2>3. n = m + 1
    BY <1>8, <2>2
  <2> HIDE DEF n
  <2>4. ~ (n < 1) /\ Has(n + 2)
    BY <1>4, <1>7, <1>12, <2>3 DEF Has
  <2>5. \A j \in 1 .. m + 3 : file[pos + j - 1] = item[j]
    BY <1>3, <2>1 DEF Holds
  <2>6. file[pos + n] = LOOPSONG /\ file[pos + n + 1] = o.restart
    <3>1. /\ m + 2 \in 1 .. m + 3 /\ pos + (m + 2) - 1 = pos + n
          /\ m + 3 \in 1 .. m + 3 /\ pos + (m + 3) - 1 = pos + n + 1
      <4>1. m \in Nat /\ pos \in Nat /\ n = m + 1
        BY <1>4, <2>3
      <4> QED
        BY <4>1
    <3> QED
      BY <1>3, <2>5, <3>1
  <2>7. body = e
    <3>1. Holds(file, pos + 1, e)
      <4>1. (pos + 1) + Len(e) - 1 <= Len(file)
        BY <1>4, <1>7, <1>12
      <4>2. ASSUME NEW j \in 1 .. Len(e) PROVE file[(pos + 1) + j - 1] = e[j]
        <5>1. j + 1 \in 1 .. m + 3 /\ pos + (j + 1) - 1 = (pos + 1) + j - 1 /\ j \in 1 .. m
          BY <1>4
        <5> QED
          BY <1>3, <2>5, <5>1
      <4> QED
        BY <4>1, <4>2 DEF Holds
    <3>2. PICK q : q = pos + 1
      OBVIOUS
    <3>3. q \in Nat \ {0} /\ Holds(file, q, e) /\ q + Len(e) - 1 = pos + n - 1
      BY <1>4, <2>3, <3>1, <3>2
    <3>4. SubSeq(file, q, q + Len(e) - 1) = e
      BY <1>5, <1>7, <3>3, SubSeqHeld
    <3> QED
      BY <3>2, <3>3, <3>4
  <2> HIDE DEF body
  <2>8. lists = Append(parsed.lists, o)
    BY <1>4, <2>6, <2>7
  <2>9. next = pos + Len(OrderStored(o))
    BY <1>1, <1>3, <1>4, <2>3
  <2> HIDE DEF lists, next
  <2>10. IF Len(lists) < parsed.chans THEN Go(next, "orders", [parsed EXCEPT !.lists = lists])
         ELSE Go(next, IF parsed.left > 1 THEN "orders" ELSE "instrument_count",
                 [Put("subtunes", lists) EXCEPT !.lists = <<>>, !.left = @ - 1])
    BY <1>5, <1>10, <2>4, <2>6, <2>7
  <2> QED
    BY <2>8, <2>9, <2>10
<1> QED
  BY <1>11, <1>12

LEMMA CountRead ==
  ASSUME Agrees, Stored(kept) \in Seq(Nat), pos \in Nat \ {0}, NEW low \in Nat, NEW high \in Nat,
         NEW n \in low .. high, Holds(Stored(kept), pos, <<n>>),
         NEW what, NEW items, NEW after, ReadCount(what, low, high, items, after)
  PROVE  \/ section' = "refused" /\ ~ whole
         \/ Go(pos + 1, IF n = 0 THEN after ELSE items, [parsed EXCEPT !.left = n])
<1>1. PICK item : item = <<n>>
  OBVIOUS
<1>2. item \in Seq(Nat) /\ Len(item) = 1 /\ item[1] = n
  BY <1>1
<1>3. /\ \A j \in 1 .. 1 : pos + j - 1 <= Len(file) => file[pos + j - 1] = item[j]
      /\ pos + 1 - 1 > Len(file) => ~ whole
  <2>1. Holds(Stored(kept), pos, item)
    BY <1>1
  <2>2. /\ \A j \in 1 .. Len(item) : pos + j - 1 <= Len(file) => file[pos + j - 1] = item[j]
        /\ pos + Len(item) - 1 > Len(file) => ~ whole
    BY <1>2, <2>1, HeldOrCut
  <2> QED
    BY <1>2, <2>2
<1>4. Len(file) \in Nat
  BY DEF Agrees
<1>5. CASE pos <= Len(file)
  <2>1. file[pos] = n
    BY <1>2, <1>3, <1>4, <1>5
  <2>2. Has(1)
    BY <1>4, <1>5 DEF Has
  <2> QED
    BY <2>1, <2>2 DEF ReadCount
<1>6. CASE ~ (pos <= Len(file))
  <2>1. ~ Has(1) /\ ~ whole
    BY <1>3, <1>4, <1>6 DEF Has
  <2> QED
    BY <2>1 DEF ReadCount, Refuse
<1> QED
  BY <1>5, <1>6

LEMMA InstrumentRead ==
  ASSUME Agrees, Stored(kept) \in Seq(Nat), pos \in Nat \ {0},
         NEW ins \in [params : Seq(Byte), name : Seq(Byte \ {0})], Len(ins.params) = 9,
         StringFits(ins.name), Holds(Stored(kept), pos, InstrumentStored(ins)), ReadInstrument
  PROVE  \/ section' = "refused" /\ ~ whole
         \/ Go(pos + Len(InstrumentStored(ins)), IF parsed.left > 1 THEN "instruments" ELSE "tables",
               [Put("instruments", ins) EXCEPT !.left = @ - 1])
<1>1. PICK item, p, s, b, l : /\ item = InstrumentStored(ins) /\ p = ins.params /\ s = ins.name
                              /\ b = Padded(ins.name) /\ l = NameLen
  OBVIOUS
<1>2. p \in Seq(Byte) /\ s \in Seq(Byte \ {0}) /\ Len(p) = 9 /\ ins = [params |-> p, name |-> s]
  BY <1>1
<1>3. /\ item \in Seq(Nat) /\ Len(item) = 9 + l /\ l \in Nat
      /\ \A k \in 1 .. 9 : item[k] = p[k]
      /\ \A k \in 1 .. l : item[9 + k] = b[k]
  <2>1. ins.params \in Seq(Byte) /\ ins.name \in Seq(Byte \ {0})
    BY <1>1, <1>2
  <2>2. /\ InstrumentStored(ins) \in Seq(Nat) /\ Len(InstrumentStored(ins)) = 9 + NameLen
        /\ \A k \in 1 .. 9 : InstrumentStored(ins)[k] = ins.params[k]
        /\ \A k \in 1 .. NameLen : InstrumentStored(ins)[9 + k] = Padded(ins.name)[k]
    BY <2>1, InstrumentStoredIs
  <2> QED
    BY <1>1, <2>2, NameLenAssumption
<1>4. b \in Seq(Nat) /\ Len(b) = l /\ p \in Seq(Nat)
  BY <1>1, <1>2, PaddedIs, BytesSeq
<1>5. /\ pos + (9 + l) - 1 <= Len(file) => Holds(file, pos, item)
      /\ pos + (9 + l) - 1 > Len(file) => ~ whole
  BY <1>1, <1>3, HeldOrCut
<1>6. file \in Seq(Nat) /\ Len(file) \in Nat
  BY DEF Agrees
<1>7. CASE pos + (9 + l) - 1 <= Len(file)
  <2>1. \A j \in 1 .. 9 + l : file[pos + j - 1] = item[j]
    BY <1>3, <1>5, <1>7 DEF Holds
  <2>2. Holds(file, pos, p)
    <3>1. pos + Len(p) - 1 <= Len(file)
      BY <1>2, <1>3, <1>6, <1>7
    <3>2. ASSUME NEW j \in 1 .. Len(p) PROVE file[pos + j - 1] = p[j]
      <4>1. j \in 1 .. 9 /\ j \in 1 .. 9 + l
        BY <1>2, <1>3, SMTT(30)
      <4> QED
        BY <1>3, <2>1, <4>1
    <3> QED
      BY <3>1, <3>2 DEF Holds
  <2>3. SubSeq(file, pos, pos + 8) = p
    <3>1. SubSeq(file, pos, pos + Len(p) - 1) = p
      BY <1>4, <1>6, <2>2, SubSeqHeld
    <3>2. pos + Len(p) - 1 = pos + 8
      BY <1>2
    <3> QED
      BY <3>1, <3>2
  <2>4. PICK q : q = pos + 9
    OBVIOUS
  <2>5. q \in Nat \ {0} /\ Holds(file, q, b)
    <3>1. q + Len(b) - 1 <= Len(file)
      <4>1. q + l - 1 = pos + (9 + l) - 1
        BY <1>3, <2>4
      <4> QED
        BY <1>4, <1>7, <4>1
    <3>2. ASSUME NEW j \in 1 .. Len(b) PROVE file[q + j - 1] = b[j]
      <4>1. 9 + j \in 1 .. 9 + l /\ pos + (9 + j) - 1 = q + j - 1 /\ j \in 1 .. l
        <5>1. l \in Nat /\ Len(b) = l
          BY <1>3, <1>4
        <5>2. j \in 1 .. l
          BY <5>1
        <5>3. 9 + j \in 1 .. 9 + l
          BY <5>1, <5>2
        <5>4. pos + (9 + j) - 1 = q + j - 1
          BY <2>4, <5>2
        <5> QED
          BY <5>2, <5>3, <5>4
      <4> QED
        BY <1>3, <2>1, <4>1
    <3> QED
      BY <2>4, <3>1, <3>2, SMTT(30) DEF Holds
  <2>6. StringAt(q) = s
    <3>1. s \in Seq(Byte \ {0}) /\ StringFits(s) /\ Holds(file, q, Padded(s))
      BY <1>1, <1>2, <2>5
    <3> QED
      BY <1>6, <2>5, <3>1, StringRead
  <2>7. Has(9 + NameLen)
    BY <1>1, <1>7 DEF Has
  <2>8. [params |-> SubSeq(file, pos, pos + 8), name |-> StringAt(pos + 9)] = ins
    BY <1>2, <2>3, <2>4, <2>6
  <2>9. pos + 9 + NameLen = pos + Len(item)
    BY <1>1, <1>3
  <2> QED
    BY <1>1, <2>7, <2>8, <2>9 DEF ReadInstrument
<1>8. CASE ~ (pos + (9 + l) - 1 <= Len(file))
  <2>1. ~ Has(9 + NameLen)
    BY <1>1, <1>8 DEF Has
  <2>2. ~ whole
    BY <1>3, <1>5, <1>6, <1>8
  <2> QED
    BY <2>1, <2>2 DEF ReadInstrument, Refuse
<1> QED
  BY <1>7, <1>8

LEMMA TableRead ==
  ASSUME Agrees, Stored(kept) \in Seq(Nat), pos \in Nat \ {0}, NEW t \in Seq(BytePair),
         Holds(Stored(kept), pos, TableStored(t)), ReadTable
  PROVE  \/ section' = "refused" /\ ~ whole
         \/ Go(pos + Len(TableStored(t)),
               IF Len(parsed.song.tables) < 3 THEN "tables" ELSE "pattern_count", Put("tables", t))
<1>1. PICK item, m : item = TableStored(t) /\ m = Len(t)
  OBVIOUS
<1>2. item \in Seq(Nat) /\ TableBytes(item, t)
  BY <1>1, TableStoredIs
<1>3. /\ Len(item) = 1 + 2 * m /\ item[1] = m
      /\ \A k \in 1 .. m : item[1 + k] = t[k][1] /\ item[1 + m + k] = t[k][2]
  BY <1>1, <1>2 DEF TableBytes
<1>4. m \in Nat /\ DOMAIN t = 1 .. m /\ \A k \in 1 .. m : t[k] \in BytePair
  BY <1>1
<1>5. /\ \A j \in 1 .. 1 + 2 * m : pos + j - 1 <= Len(file) => file[pos + j - 1] = item[j]
      /\ pos + (1 + 2 * m) - 1 > Len(file) => ~ whole
  BY <1>1, <1>2, <1>3, HeldOrCut
<1>6. Len(file) \in Nat
  BY DEF Agrees
<1> DEFINE n == IF Has(1) THEN file[pos] ELSE 0
           table == [k \in 1 .. n |-> <<file[pos + k], file[pos + n + k]>>]
<1>7. ASSUME Has(1) PROVE n = m
  <2>1. 1 \in 1 .. 1 + 2 * m /\ pos + 1 - 1 = pos /\ pos <= Len(file)
    BY <1>4, <1>6, <1>7 DEF Has
  <2>2. file[pos] = item[1]
    BY <1>5, <2>1
  <2> QED
    BY <1>3, <1>7, <2>2
<1>8. IF Has(1 + 2 * n)
      THEN Go(pos + 1 + 2 * n, IF Len(parsed.song.tables) < 3 THEN "tables" ELSE "pattern_count",
              Put("tables", table))
      ELSE Refuse
  BY DEF ReadTable
<1>9. CASE ~ (pos + (1 + 2 * m) - 1 <= Len(file))
  <2>1. ~ whole
    BY <1>4, <1>5, <1>6, <1>9
  <2>2. ~ Has(1 + 2 * n)
    <3>1. CASE ~ Has(1)
      <4>1. n = 0
        BY <3>1
      <4> HIDE DEF n
      <4> QED
        BY <3>1, <4>1 DEF Has
    <3>2. CASE Has(1)
      <4>1. n = m
        BY <1>7, <3>2
      <4> HIDE DEF n
      <4> QED
        BY <1>9, <4>1 DEF Has
    <3> QED
      BY <3>1, <3>2
  <2> HIDE DEF n, table
  <2> QED
    BY <1>8, <2>1, <2>2 DEF Refuse
<1>10. CASE pos + (1 + 2 * m) - 1 <= Len(file)
  <2>1. n = m
    <3>1. Has(1)
      BY <1>4, <1>6, <1>10 DEF Has
    <3> QED
      BY <1>7, <3>1
  <2> HIDE DEF n
  <2>2. Has(1 + 2 * n)
    BY <1>10, <2>1 DEF Has
  <2>3. ASSUME NEW k \in 1 .. m PROVE <<file[pos + k], file[pos + m + k]>> = t[k]
    <3>1. /\ 1 + k \in 1 .. 1 + 2 * m /\ pos + (1 + k) - 1 = pos + k
          /\ pos + k <= Len(file)
      BY <1>4, <1>6, <1>10
    <3>2. /\ 1 + m + k \in 1 .. 1 + 2 * m /\ pos + (1 + m + k) - 1 = pos + m + k
          /\ pos + m + k <= Len(file)
      BY <1>4, <1>6, <1>10
    <3>3. file[pos + k] = item[1 + k] /\ file[pos + m + k] = item[1 + m + k]
      BY <1>5, <3>1, <3>2
    <3>4. t[k] = <<t[k][1], t[k][2]>>
      BY <1>4 DEF BytePair
    <3> QED
      BY <1>3, <3>3, <3>4
  <2>4. table = t
    <3>1. table = [k \in 1 .. m |-> <<file[pos + k], file[pos + m + k]>>]
      BY <2>1
    <3>2. t = [k \in 1 .. m |-> t[k]]
      BY <1>4
    <3> HIDE DEF table
    <3> QED
      BY <2>3, <3>1, <3>2
  <2> HIDE DEF table
  <2>5. pos + 1 + 2 * n = pos + Len(item)
    BY <1>3, <1>4, <2>1
  <2> QED
    BY <1>1, <1>8, <2>2, <2>4, <2>5
<1> QED
  BY <1>9, <1>10

LEMMA PatternRead ==
  ASSUME Agrees, Stored(kept) \in Seq(Nat), pos \in Nat \ {0},
         NEW p \in Seq(Byte \X Byte \X Byte \X Byte), Len(p) \in 1 .. MAX_PATTROWS,
         Holds(Stored(kept), pos, PatternStored(p)), ReadPattern
  PROVE  \/ section' = "refused" /\ ~ whole
         \/ Go(pos + Len(PatternStored(p)), IF parsed.left > 1 THEN "patterns" ELSE "end",
               [Put("patterns", p) EXCEPT !.left = @ - 1])
<1>1. PICK item, m : item = PatternStored(p) /\ m = Len(p)
  OBVIOUS
<1>2. item \in Seq(Nat) /\ PatternBytes(item, p)
  BY <1>1, PatternStoredIs
<1>3. /\ Len(item) = 4 * m + 5 /\ item[1] = m + 1
      /\ \A k \in 1 .. m : \A j \in 1 .. 4 : item[4 * (k - 1) + j + 1] = p[k][j]
      /\ item[4 * m + 2] = ENDPATT
  BY <1>1, <1>2 DEF PatternBytes
<1>4. m \in 1 .. MAX_PATTROWS /\ m \in Nat /\ DOMAIN p = 1 .. m
  <2>1. DOMAIN p = 1 .. Len(p) /\ Len(p) \in Nat
    OBVIOUS
  <2> QED
    BY <1>1, <2>1
<1>5. ASSUME NEW k \in 1 .. m PROVE p[k] \in Seq(Nat) /\ Len(p[k]) = 4
  <2>1. PICK b1 \in Byte, b2 \in Byte, b3 \in Byte, b4 \in Byte : p[k] = <<b1, b2, b3, b4>>
    BY <1>1
  <2>2. b1 \in Nat /\ b2 \in Nat /\ b3 \in Nat /\ b4 \in Nat
    BY BytesAreNumbers
  <2> QED
    BY <2>1, <2>2
<1>6. /\ \A j \in 1 .. 4 * m + 5 : pos + j - 1 <= Len(file) => file[pos + j - 1] = item[j]
      /\ pos + (4 * m + 5) - 1 > Len(file) => ~ whole
  <2>1. PICK w : w = 4 * m + 5
    OBVIOUS
  <2>2. Holds(Stored(kept), pos, item) /\ item \in Seq(Nat) /\ Len(item) = w
    BY <1>1, <1>2, <1>3, <2>1
  <2>3. /\ \A j \in 1 .. Len(item) : pos + j - 1 <= Len(file) => file[pos + j - 1] = item[j]
        /\ pos + Len(item) - 1 > Len(file) => ~ whole
    BY <2>2, HeldOrCut
  <2> QED
    BY <2>1, <2>2, <2>3
<1>7. file \in Seq(Nat) /\ Len(file) \in Nat
  BY DEF Agrees
<1> DEFINE n == IF Has(1) THEN file[pos] ELSE 0
           rows == [k \in 1 .. n - 1 |-> SubSeq(file, pos + 4 * k - 3, pos + 4 * k)]
<1>8. ASSUME Has(1) PROVE n = m + 1
  <2>1. 1 \in 1 .. 4 * m + 5 /\ pos + 1 - 1 = pos /\ pos <= Len(file)
    BY <1>4, <1>7, <1>8 DEF Has
  <2>2. file[pos] = item[1]
    BY <1>6, <2>1
  <2> QED
    BY <1>3, <1>8, <2>2
<1>9. IF n \notin 1 .. MAX_PATTROWS + 1 \/ ~ Has(1 + 4 * n) THEN Refuse
      ELSE IF file[pos + 4 * n - 3] # ENDPATT THEN Refuse
      ELSE Go(pos + 1 + 4 * n, IF parsed.left > 1 THEN "patterns" ELSE "end",
              [Put("patterns", rows) EXCEPT !.left = @ - 1])
  BY DEF ReadPattern
<1>10. CASE ~ (pos + (4 * m + 5) - 1 <= Len(file))
  <2>1. ~ whole
    BY <1>4, <1>6, <1>7, <1>10
  <2>2. n \notin 1 .. MAX_PATTROWS + 1 \/ ~ Has(1 + 4 * n)
    <3>1. CASE ~ Has(1)
      <4>1. n = 0
        BY <3>1
      <4> HIDE DEF n
      <4> QED
        BY <4>1
    <3>2. CASE Has(1)
      <4>1. n = m + 1
        BY <1>8, <3>2
      <4> HIDE DEF n
      <4>2. 1 + 4 * n = 4 * m + 5
        BY <1>4, <4>1
      <4> QED
        BY <1>10, <4>2 DEF Has
    <3> QED
      BY <3>1, <3>2
  <2> HIDE DEF n, rows
  <2>3. Refuse
    BY <1>9, <2>2
  <2> QED
    BY <2>1, <2>3 DEF Refuse
<1>11. CASE pos + (4 * m + 5) - 1 <= Len(file)
  <2>1. n = m + 1
    <3>1. Has(1)
      BY <1>4, <1>7, <1>11 DEF Has
    <3> QED
      BY <1>8, <3>1
  <2> HIDE DEF n
  <2>2. 1 + 4 * n = 4 * m + 5 /\ n \in 1 .. MAX_PATTROWS + 1
    BY <1>4, <2>1 DEF MAX_PATTROWS
  <2>3. Has(1 + 4 * n)
    BY <1>11, <2>2 DEF Has
  <2>4. \A j \in 1 .. 4 * m + 5 : file[pos + j - 1] = item[j]
    <3>1. ASSUME NEW j \in 1 .. 4 * m + 5 PROVE file[pos + j - 1] = item[j]
      <4>1. pos + j - 1 <= Len(file)
        BY <1>4, <1>7, <1>11
      <4> QED
        BY <1>6, <4>1
    <3> QED
      BY <3>1
  <2>5. file[pos + 4 * n - 3] = ENDPATT
    <3>1. 4 * m + 2 \in 1 .. 4 * m + 5 /\ pos + (4 * m + 2) - 1 = pos + 4 * n - 3
      BY <1>4, <2>1
    <3> QED
      BY <1>3, <2>4, <3>1
  <2>6. ASSUME NEW k \in 1 .. m PROVE SubSeq(file, pos + 4 * k - 3, pos + 4 * k) = p[k]
    <3>1. PICK q, r : q = pos + 4 * k - 3 /\ r = p[k]
      OBVIOUS
    <3>2. r \in Seq(Nat) /\ Len(r) = 4 /\ \A j \in 1 .. 4 : item[4 * (k - 1) + j + 1] = r[j]
      BY <1>3, <1>5, <3>1
    <3>3. q \in Nat \ {0} /\ q + 4 - 1 = pos + 4 * k /\ q + 4 - 1 <= Len(file)
      BY <1>4, <1>7, <1>11, <3>1, SMTT(30)
    <3>4. ASSUME NEW j \in 1 .. 4 PROVE file[q + j - 1] = r[j]
      <4>1. PICK i : i = 4 * (k - 1) + j + 1
        OBVIOUS
      <4>2. i \in 1 .. 4 * m + 5 /\ pos + i - 1 = q + j - 1
        BY <1>4, <3>1, <4>1
      <4>3. item[i] = r[j]
        BY <3>2, <4>1
      <4> QED
        BY <2>4, <4>2, <4>3
    <3>5. Holds(file, q, r)
      BY <3>2, <3>3, <3>4 DEF Holds
    <3>6. SubSeq(file, q, q + Len(r) - 1) = r
      BY <1>7, <3>2, <3>3, <3>5, SubSeqHeld
    <3> QED
      BY <3>1, <3>2, <3>3, <3>6
  <2>7. rows = p
    <3>1. rows = [k \in 1 .. m |-> SubSeq(file, pos + 4 * k - 3, pos + 4 * k)]
      <4>1. n - 1 = m
        BY <1>4, <2>1
      <4> QED
        BY <4>1
    <3>2. p = [k \in 1 .. m |-> p[k]]
      BY <1>4
    <3> HIDE DEF rows
    <3> QED
      BY <2>6, <3>1, <3>2
  <2> HIDE DEF rows
  <2>8. pos + 1 + 4 * n = pos + Len(item)
    BY <1>3, <1>4, <2>1
  <2>9. Go(pos + 1 + 4 * n, IF parsed.left > 1 THEN "patterns" ELSE "end",
           [Put("patterns", rows) EXCEPT !.left = @ - 1])
    BY <1>9, <2>2, <2>3, <2>5
  <2> QED
    BY <1>1, <2>7, <2>8, <2>9
<1> QED
  BY <1>10, <1>11

LEMMA HeaderRead ==
  ASSUME Agrees, Stored(kept) \in Seq(Nat), pos = 1, NEW s \in Seq(Byte \ {0}), StringFits(s),
         NEW n \in 1 .. MAX_SONGS, Holds(Stored(kept), 1, Padded(s)),
         Holds(Stored(kept), NameLen + 1, <<n>>), ReadHeader
  PROVE  \/ section' = "refused" /\ ~ whole
         \/ Go(OrdersAt, "orders",
               [song |-> [Empty EXCEPT !.name = s], left |-> n,
                chans |-> Channels(OrdersAt, n), lists |-> <<>>])
<1>1. PICK b, c, l : b = Padded(s) /\ c = <<n>> /\ l = NameLen
  OBVIOUS
<1>2. b \in Seq(Nat) /\ Len(b) = l /\ l \in Nat /\ l >= 1
  BY <1>1, PaddedIs, NameLenAssumption
<1>3. n \in Nat /\ c \in Seq(Nat) /\ Len(c) = 1 /\ c[1] = n
  BY <1>1
<1>4. l + 1 \in Nat \ {0} /\ 1 \in Nat \ {0}
  BY <1>2
<1>5. 1 + l - 1 <= Len(file) => Holds(file, 1, b)
  BY <1>1, <1>2, <1>4, HeldOrCut
<1>6. /\ \A j \in 1 .. 1 : (l + 1) + j - 1 <= Len(file) => file[(l + 1) + j - 1] = c[j]
      /\ (l + 1) + 1 - 1 > Len(file) => ~ whole
  <2>1. PICK q : q = l + 1
    OBVIOUS
  <2>2. q \in Nat \ {0} /\ Holds(Stored(kept), q, c)
    BY <1>1, <1>4, <2>1
  <2>3. /\ \A j \in 1 .. Len(c) : q + j - 1 <= Len(file) => file[q + j - 1] = c[j]
        /\ q + Len(c) - 1 > Len(file) => ~ whole
    BY <1>3, <2>2, HeldOrCut
  <2> QED
    BY <1>3, <2>1, <2>3
<1>7. file \in Seq(Nat) /\ Len(file) \in Nat
  BY DEF Agrees
<1>8. pos + l = l + 1 /\ pos + l + 1 = l + 2 /\ OrdersAt = l + 2
  BY <1>1, <1>2 DEF OrdersAt
<1>9. IF Has(l + 1) /\ file[pos + l] \in 1 .. MAX_SONGS
      THEN Go(pos + l + 1, "orders",
              [song |-> [Empty EXCEPT !.name = StringAt(pos)], left |-> file[pos + l],
               chans |-> Channels(pos + l + 1, file[pos + l]), lists |-> <<>>])
      ELSE Refuse
  BY <1>1 DEF ReadHeader
<1>10. CASE l + 1 <= Len(file)
  <2>1. file[l + 1] = n
    <3>1. 1 \in 1 .. 1 /\ (l + 1) + 1 - 1 = l + 1
      BY <1>2
    <3> QED
      BY <1>3, <1>6, <1>10, <3>1
  <2>2. Has(l + 1)
    BY <1>2, <1>7, <1>10 DEF Has
  <2>3. StringAt(pos) = s
    <3>1. Holds(file, 1, Padded(s))
      BY <1>1, <1>2, <1>5, <1>7, <1>10
    <3>2. StringAt(1) = s
      BY <1>4, <1>7, <3>1, StringRead
    <3> QED
      BY <3>2
  <2> QED
    BY <1>8, <1>9, <2>1, <2>2, <2>3
<1>11. CASE ~ (l + 1 <= Len(file))
  <2>1. ~ Has(l + 1) /\ ~ whole
    BY <1>2, <1>6, <1>7, <1>11 DEF Has
  <2> QED
    BY <1>9, <2>1 DEF Refuse
<1> QED
  BY <1>10, <1>11

-----------------------------------------------------------------------------
(* How far a file has been read.                                           *)

LEMMA Taken ==
  ASSUME NEW S, NEW s \in Seq(S)
  PROVE  /\ SubSeq(s, 1, 0) = <<>> /\ SubSeq(s, 1, Len(s)) = s
         /\ \A n \in 0 .. Len(s) : SubSeq(s, 1, n) \in Seq(S) /\ Len(SubSeq(s, 1, n)) = n
         /\ \A n \in 0 .. Len(s) - 1 : Append(SubSeq(s, 1, n), s[n + 1]) = SubSeq(s, 1, n + 1)
<1>1. Len(s) \in Nat
  OBVIOUS
<1>2. ASSUME NEW n \in 0 .. Len(s)
      PROVE  /\ SubSeq(s, 1, n) \in Seq(S) /\ Len(SubSeq(s, 1, n)) = n
             /\ \A i \in 1 .. n : SubSeq(s, 1, n)[i] = s[i]
  BY <1>1
<1>3. SubSeq(s, 1, 0) = <<>>
  BY <1>1, <1>2, EmptySeq
<1>4. SubSeq(s, 1, Len(s)) = s
  BY <1>1, <1>2, SeqEqual
<1>5. ASSUME NEW n \in 0 .. Len(s) - 1
      PROVE  Append(SubSeq(s, 1, n), s[n + 1]) = SubSeq(s, 1, n + 1)
  <2>1. n \in 0 .. Len(s) /\ n + 1 \in 0 .. Len(s) /\ n + 1 \in 1 .. Len(s) /\ n \in Nat
    BY <1>1
  <2>2. PICK a, b : a = SubSeq(s, 1, n) /\ b = SubSeq(s, 1, n + 1)
    OBVIOUS
  <2>3. /\ a \in Seq(S) /\ Len(a) = n /\ \A i \in 1 .. n : a[i] = s[i]
        /\ b \in Seq(S) /\ Len(b) = n + 1 /\ \A i \in 1 .. n + 1 : b[i] = s[i]
    BY <1>2, <2>1, <2>2
  <2>4. s[n + 1] \in S
    BY <2>1
  <2>5. PICK c : c = Append(a, s[n + 1])
    OBVIOUS
  <2>6. c \in Seq(S) /\ Len(c) = n + 1
        /\ \A i \in 1 .. n + 1 : c[i] = IF i <= n THEN a[i] ELSE s[n + 1]
    BY <2>1, <2>3, <2>4, <2>5
  <2>7. \A i \in 1 .. n + 1 : c[i] = b[i]
    BY <2>1, <2>3, <2>6
  <2>8. c = b
    BY <2>3, <2>6, <2>7, SeqEqual
  <2> QED
    BY <2>2, <2>5, <2>8
<1> QED
  BY <1>2, <1>3, <1>4, <1>5

\* The first items of each section.
Took(song, a, b, c, d) ==
  [name |-> song.name, subtunes |-> SubSeq(song.subtunes, 1, a),
   instruments |-> SubSeq(song.instruments, 1, b), tables |-> SubSeq(song.tables, 1, c),
   patterns |-> SubSeq(song.patterns, 1, d)]

Part(song, left, chans, lists) ==
  [song |-> song, left |-> left, chans |-> chans, lists |-> lists]

\* The reader is at p and has read part of the song: up to an orderlist of a subtune,
\* the instrument count, an instrument, a table, the pattern count, a pattern, the end.
OrderAt(song, a, c) ==
  (OrdersAt + Off(SubtuneSeqs(song))[a]) + Off(OrderSeqs(song.subtunes[a + 1]))[c]

InOrders(song, p, part, a, c) ==
  LET s == song.subtunes[a + 1]
  IN /\ a \in 0 .. Len(song.subtunes) - 1 /\ c \in 0 .. Len(s) - 1
     /\ \E chans : part = Part(Took(song, a, 0, 0, 0), Len(song.subtunes) - a, chans, SubSeq(s, 1, c))
     /\ p = OrderAt(song, a, c)

InInstrumentCount(song, p, part) ==
  /\ \E left, chans : part = Part(Took(song, Len(song.subtunes), 0, 0, 0), left, chans, <<>>)
  /\ p = InstrumentCountAt(song)

InInstruments(song, p, part, b) ==
  LET n == Len(song.instruments)
  IN /\ b \in 0 .. n - 1
     /\ \E chans : part = Part(Took(song, Len(song.subtunes), b, 0, 0), n - b, chans, <<>>)
     /\ p = InstrumentsAt(song) + Off(InstrumentSeqs(song))[b]

InTables(song, p, part, c) ==
  /\ c \in 0 .. 3
  /\ \E left, chans :
       part = Part(Took(song, Len(song.subtunes), Len(song.instruments), c, 0), left, chans, <<>>)
  /\ p = TablesAt(song) + Off(TableSeqs(song))[c]

InPatternCount(song, p, part) ==
  /\ \E left, chans :
       part = Part(Took(song, Len(song.subtunes), Len(song.instruments), 4, 0), left, chans, <<>>)
  /\ p = PatternCountAt(song)

InPatterns(song, p, part, d) ==
  LET n == Len(song.patterns)
  IN /\ d \in 0 .. n - 1
     /\ \E chans : part = Part(Took(song, Len(song.subtunes), Len(song.instruments), 4, d), n - d,
                               chans, <<>>)
     /\ p = PatternsAt(song) + Off(PatternSeqs(song))[d]

AtEnd(song, p, part) ==
  /\ \E left, chans :
       part = Part(Took(song, Len(song.subtunes), Len(song.instruments), 4, Len(song.patterns)),
                   left, chans, <<>>)
  /\ p = EndAt(song)

\* What has been read so far is the song up to here.
InSection(s, song, p, part) ==
  /\ s = "header" => p = 1
  /\ s = "orders" => \E a, c : InOrders(song, p, part, a, c)
  /\ s = "instrument_count" => InInstrumentCount(song, p, part)
  /\ s = "instruments" => \E b : InInstruments(song, p, part, b)
  /\ s = "tables" => \E c : InTables(song, p, part, c)
  /\ s = "pattern_count" => InPatternCount(song, p, part)
  /\ s = "patterns" => \E d : InPatterns(song, p, part, d)
  /\ s = "end" => AtEnd(song, p, part)
  /\ s = "read" => whole /\ part.song = song
  /\ s = "refused" => ~ whole

\* A song with one item more.
WithSubtune(song, item) == [song EXCEPT !.subtunes = Append(@, item)]
WithInstrument(song, item) == [song EXCEPT !.instruments = Append(@, item)]
WithTable(song, item) == [song EXCEPT !.tables = Append(@, item)]
WithPattern(song, item) == [song EXCEPT !.patterns = Append(@, item)]

LEMMA PutSubtune ==
  ASSUME NEW item, NEW song, NEW left, NEW chans, NEW lists, parsed = Part(song, left, chans, lists)
  PROVE  Put("subtunes", item) = Part(WithSubtune(song, item), left, chans, lists)
BY SMTT(30) DEF Put, Part, WithSubtune

LEMMA PutInstrument ==
  ASSUME NEW item, NEW song, NEW left, NEW chans, NEW lists, parsed = Part(song, left, chans, lists)
  PROVE  Put("instruments", item) = Part(WithInstrument(song, item), left, chans, lists)
BY SMTT(30) DEF Put, Part, WithInstrument

LEMMA PutTable ==
  ASSUME NEW item, NEW song, NEW left, NEW chans, NEW lists, parsed = Part(song, left, chans, lists)
  PROVE  Put("tables", item) = Part(WithTable(song, item), left, chans, lists)
BY SMTT(30) DEF Put, Part, WithTable

LEMMA PutPattern ==
  ASSUME NEW item, NEW song, NEW left, NEW chans, NEW lists, parsed = Part(song, left, chans, lists)
  PROVE  Put("patterns", item) = Part(WithPattern(song, item), left, chans, lists)
BY SMTT(30) DEF Put, Part, WithPattern

LEMMA PutNext ==
  ASSUME NEW song, Shaped(song), NEW a, NEW b, NEW c, NEW d, NEW left, NEW chans, NEW lists,
         parsed = Part(Took(song, a, b, c, d), left, chans, lists)
  PROVE  /\ a \in 0 .. Len(song.subtunes) - 1 =>
              Put("subtunes", song.subtunes[a + 1]) = Part(Took(song, a + 1, b, c, d), left, chans, lists)
         /\ b \in 0 .. Len(song.instruments) - 1 =>
              Put("instruments", song.instruments[b + 1]) = Part(Took(song, a, b + 1, c, d), left, chans, lists)
         /\ c \in 0 .. Len(song.tables) - 1 =>
              Put("tables", song.tables[c + 1]) = Part(Took(song, a, b, c + 1, d), left, chans, lists)
         /\ d \in 0 .. Len(song.patterns) - 1 =>
              Put("patterns", song.patterns[d + 1]) = Part(Took(song, a, b, c, d + 1), left, chans, lists)
<1>1. /\ song.subtunes \in Seq(Seq(Orderlist)) /\ song.tables \in Seq(Seq(BytePair))
      /\ song.instruments \in Seq([params : Seq(Byte), name : Seq(Byte \ {0})])
      /\ song.patterns \in Seq(Seq(Byte \X Byte \X Byte \X Byte))
  BY DEF Shaped, SongSet
<1>2. PICK s, i, t, p : /\ s = song.subtunes /\ i = song.instruments /\ t = song.tables
                        /\ p = song.patterns
  OBVIOUS
<1>3. ASSUME a \in 0 .. Len(s) - 1
      PROVE  Put("subtunes", s[a + 1]) = Part(Took(song, a + 1, b, c, d), left, chans, lists)
  <2>1. Append(SubSeq(s, 1, a), s[a + 1]) = SubSeq(s, 1, a + 1)
    BY <1>1, <1>2, <1>3, Taken
  <2>2. PICK item, more, so : /\ item = s[a + 1] /\ more = SubSeq(s, 1, a + 1)
                              /\ so = Took(song, a, b, c, d)
    OBVIOUS
  <2>3. parsed = Part(so, left, chans, lists)
    BY <2>2
  <2>4. Put("subtunes", item) = Part(WithSubtune(so, item), left, chans, lists)
    BY <2>3, PutSubtune
  <2>5. WithSubtune(so, item) = [so EXCEPT !.subtunes = more]
    BY <1>2, <2>1, <2>2 DEF Took, WithSubtune
  <2>6. [so EXCEPT !.subtunes = more] = Took(song, a + 1, b, c, d)
    <3>1. PICK n, x1, x2, x3, x4 :
            /\ n = song.name /\ x1 = SubSeq(s, 1, a) /\ x2 = SubSeq(i, 1, b)
            /\ x3 = SubSeq(t, 1, c) /\ x4 = SubSeq(p, 1, d)
      OBVIOUS
    <3>2. so = [name |-> n, subtunes |-> x1, instruments |-> x2, tables |-> x3, patterns |-> x4]
      BY <1>2, <2>2, <3>1 DEF Took
    <3>3. [so EXCEPT !.subtunes = more]
            = [name |-> n, subtunes |-> more, instruments |-> x2, tables |-> x3, patterns |-> x4]
      BY <3>2
    <3> QED
      BY <1>2, <2>2, <3>1, <3>3 DEF Took
  <2> QED
    BY <2>2, <2>4, <2>5, <2>6
<1>4. ASSUME b \in 0 .. Len(i) - 1
      PROVE  Put("instruments", i[b + 1]) = Part(Took(song, a, b + 1, c, d), left, chans, lists)
  <2>1. Append(SubSeq(i, 1, b), i[b + 1]) = SubSeq(i, 1, b + 1)
    BY <1>1, <1>2, <1>4, Taken
  <2>2. PICK item, more, so : /\ item = i[b + 1] /\ more = SubSeq(i, 1, b + 1)
                              /\ so = Took(song, a, b, c, d)
    OBVIOUS
  <2>3. parsed = Part(so, left, chans, lists)
    BY <2>2
  <2>4. Put("instruments", item) = Part(WithInstrument(so, item), left, chans, lists)
    BY <2>3, PutInstrument
  <2>5. WithInstrument(so, item) = [so EXCEPT !.instruments = more]
    BY <1>2, <2>1, <2>2 DEF Took, WithInstrument
  <2>6. [so EXCEPT !.instruments = more] = Took(song, a, b + 1, c, d)
    <3>1. PICK n, x1, x2, x3, x4 :
            /\ n = song.name /\ x1 = SubSeq(s, 1, a) /\ x2 = SubSeq(i, 1, b)
            /\ x3 = SubSeq(t, 1, c) /\ x4 = SubSeq(p, 1, d)
      OBVIOUS
    <3>2. so = [name |-> n, subtunes |-> x1, instruments |-> x2, tables |-> x3, patterns |-> x4]
      BY <1>2, <2>2, <3>1 DEF Took
    <3>3. [so EXCEPT !.instruments = more]
            = [name |-> n, subtunes |-> x1, instruments |-> more, tables |-> x3, patterns |-> x4]
      BY <3>2
    <3> QED
      BY <1>2, <2>2, <3>1, <3>3 DEF Took
  <2> QED
    BY <2>2, <2>4, <2>5, <2>6
<1>5. ASSUME c \in 0 .. Len(t) - 1
      PROVE  Put("tables", t[c + 1]) = Part(Took(song, a, b, c + 1, d), left, chans, lists)
  <2>1. Append(SubSeq(t, 1, c), t[c + 1]) = SubSeq(t, 1, c + 1)
    BY <1>1, <1>2, <1>5, Taken
  <2>2. PICK item, more, so : /\ item = t[c + 1] /\ more = SubSeq(t, 1, c + 1)
                              /\ so = Took(song, a, b, c, d)
    OBVIOUS
  <2>3. parsed = Part(so, left, chans, lists)
    BY <2>2
  <2>4. Put("tables", item) = Part(WithTable(so, item), left, chans, lists)
    BY <2>3, PutTable
  <2>5. WithTable(so, item) = [so EXCEPT !.tables = more]
    BY <1>2, <2>1, <2>2 DEF Took, WithTable
  <2>6. [so EXCEPT !.tables = more] = Took(song, a, b, c + 1, d)
    <3>1. PICK n, x1, x2, x3, x4 :
            /\ n = song.name /\ x1 = SubSeq(s, 1, a) /\ x2 = SubSeq(i, 1, b)
            /\ x3 = SubSeq(t, 1, c) /\ x4 = SubSeq(p, 1, d)
      OBVIOUS
    <3>2. so = [name |-> n, subtunes |-> x1, instruments |-> x2, tables |-> x3, patterns |-> x4]
      BY <1>2, <2>2, <3>1 DEF Took
    <3>3. [so EXCEPT !.tables = more]
            = [name |-> n, subtunes |-> x1, instruments |-> x2, tables |-> more, patterns |-> x4]
      BY <3>2
    <3> QED
      BY <1>2, <2>2, <3>1, <3>3 DEF Took
  <2> QED
    BY <2>2, <2>4, <2>5, <2>6
<1>6. ASSUME d \in 0 .. Len(p) - 1
      PROVE  Put("patterns", p[d + 1]) = Part(Took(song, a, b, c, d + 1), left, chans, lists)
  <2>1. Append(SubSeq(p, 1, d), p[d + 1]) = SubSeq(p, 1, d + 1)
    BY <1>1, <1>2, <1>6, Taken
  <2>2. PICK item, more, so : /\ item = p[d + 1] /\ more = SubSeq(p, 1, d + 1)
                              /\ so = Took(song, a, b, c, d)
    OBVIOUS
  <2>3. parsed = Part(so, left, chans, lists)
    BY <2>2
  <2>4. Put("patterns", item) = Part(WithPattern(so, item), left, chans, lists)
    BY <2>3, PutPattern
  <2>5. WithPattern(so, item) = [so EXCEPT !.patterns = more]
    BY <1>2, <2>1, <2>2 DEF Took, WithPattern
  <2>6. [so EXCEPT !.patterns = more] = Took(song, a, b, c, d + 1)
    <3>1. PICK n, x1, x2, x3, x4 :
            /\ n = song.name /\ x1 = SubSeq(s, 1, a) /\ x2 = SubSeq(i, 1, b)
            /\ x3 = SubSeq(t, 1, c) /\ x4 = SubSeq(p, 1, d)
      OBVIOUS
    <3>2. so = [name |-> n, subtunes |-> x1, instruments |-> x2, tables |-> x3, patterns |-> x4]
      BY <1>2, <2>2, <3>1 DEF Took
    <3>3. [so EXCEPT !.patterns = more]
            = [name |-> n, subtunes |-> x1, instruments |-> x2, tables |-> x3, patterns |-> more]
      BY <3>2
    <3> QED
      BY <1>2, <2>2, <3>1, <3>3 DEF Took
  <2> QED
    BY <2>2, <2>4, <2>5, <2>6
<1> QED
  BY <1>2, <1>3, <1>4, <1>5, <1>6

LEMMA TookAll ==
  ASSUME NEW song, Shaped(song)
  PROVE  /\ Took(song, Len(song.subtunes), Len(song.instruments), 4, Len(song.patterns)) = song
         /\ Took(song, 0, 0, 0, 0) = [Empty EXCEPT !.name = song.name]
<1>1. /\ song.subtunes \in Seq(Seq(Orderlist)) /\ song.tables \in Seq(Seq(BytePair))
      /\ song.instruments \in Seq([params : Seq(Byte), name : Seq(Byte \ {0})])
      /\ song.patterns \in Seq(Seq(Byte \X Byte \X Byte \X Byte)) /\ Len(song.tables) = 4
  BY DEF Shaped, SongSet
<1>2. song = [name |-> song.name, subtunes |-> song.subtunes, instruments |-> song.instruments,
              tables |-> song.tables, patterns |-> song.patterns]
  BY DEF Shaped, SongSet
<1>3. PICK m, s, i, t, p : /\ m = song.name /\ s = song.subtunes /\ i = song.instruments
                           /\ t = song.tables /\ p = song.patterns
  OBVIOUS
<1>4. /\ SubSeq(s, 1, Len(s)) = s /\ SubSeq(i, 1, Len(i)) = i /\ SubSeq(p, 1, Len(p)) = p
      /\ SubSeq(t, 1, 4) = t
      /\ SubSeq(s, 1, 0) = <<>> /\ SubSeq(i, 1, 0) = <<>> /\ SubSeq(p, 1, 0) = <<>>
      /\ SubSeq(t, 1, 0) = <<>>
  BY <1>1, <1>3, Taken
<1>5. Took(song, Len(s), Len(i), 4, Len(p)) = song
  BY <1>2, <1>3, <1>4 DEF Took
<1>6. Took(song, 0, 0, 0, 0) = [Empty EXCEPT !.name = m]
  BY <1>3, <1>4 DEF Took, Empty
<1> QED
  BY <1>3, <1>5, <1>6

LEMMA RefusedWell ==
  ASSUME section' = "refused", ~ whole
  PROVE  InSection(section', kept, pos', parsed')
BY DEF InSection

\* An item of a section, and where the next one is.
LEMMA ItemThere ==
  ASSUME NEW f \in Seq(Nat), NEW seqs \in Seq(Seq(Nat)), NEW p \in Nat \ {0},
         Holds(f, p, FlattenSeq(seqs)), NEW k \in 0 .. Len(seqs) - 1
  PROVE  /\ Holds(f, p + Off(seqs)[k], seqs[k + 1]) /\ p + Off(seqs)[k] \in Nat \ {0}
         /\ (p + Off(seqs)[k]) + Len(seqs[k + 1]) = p + Off(seqs)[k + 1]
<1>1. k + 1 \in 1 .. Len(seqs) /\ (k + 1) - 1 = k
  OBVIOUS
<1>2. PICK m : m = k + 1
  OBVIOUS
<1>3. /\ Holds(f, p + Off(seqs)[m - 1], seqs[m]) /\ p + Off(seqs)[m - 1] \in Nat \ {0}
      /\ p + Off(seqs)[m - 1] + Len(seqs[m]) = p + Off(seqs)[m]
  BY <1>1, <1>2, ItemHeld, SMTT(30)
<1> QED
  BY <1>1, <1>2, <1>3

\* What a song within the limits has in each section.
LEMMA SectionsFit ==
  ASSUME NEW song, Shown(song)
  PROVE  /\ Shaped(song) /\ song.name \in Seq(Byte \ {0}) /\ StringFits(song.name)
         /\ Len(song.subtunes) \in 1 .. MAX_SONGS /\ Len(song.instruments) \in 0 .. MAX_INSTR - 1
         /\ Len(song.patterns) \in 1 .. MAX_PATT /\ Len(song.subtunes[1]) \in {3, 6}
         /\ \A k \in 1 .. Len(song.subtunes) :
              /\ song.subtunes[k] \in Seq(Orderlist)
              /\ Len(song.subtunes[k]) = Len(song.subtunes[1])
              /\ \A c \in 1 .. Len(song.subtunes[k]) :
                   Len(song.subtunes[k][c].entries) \in 1 .. MAX_SONGLEN
         /\ \A k \in 1 .. Len(song.patterns) : Len(song.patterns[k]) \in 1 .. MAX_PATTROWS
<1>1. Shaped(song) /\ Valid(song)
  BY DEF Shown
<1>2. song.name \in Seq(Byte \ {0}) /\ song.subtunes \in Seq(Seq(Orderlist))
      /\ song.instruments \in Seq([params : Seq(Byte), name : Seq(Byte \ {0})])
      /\ song.patterns \in Seq(Seq(Byte \X Byte \X Byte \X Byte))
  BY <1>1 DEF Shaped, SongSet
<1>3. /\ Len(song.subtunes) \in 1 .. MAX_SONGS /\ Len(song.patterns) \in 1 .. MAX_PATT
      /\ Len(song.instruments) < MAX_INSTR /\ Len(song.subtunes[1]) \in {3, 6}
      /\ StringFits(song.name)
      /\ \A s \in Range(song.subtunes) :
           Len(s) = Len(song.subtunes[1]) /\ \A o \in Range(s) : OrderValid(o, song)
      /\ \A p \in Range(song.patterns) : Len(p) \in 1 .. MAX_PATTROWS
  BY <1>1 DEF Valid
<1>4. Len(song.instruments) \in 0 .. MAX_INSTR - 1
  <2>1. PICK n : n = Len(song.instruments)
    OBVIOUS
  <2>2. n \in Nat
    <3>1. PICK S : S = [params : Seq(Byte), name : Seq(Byte \ {0})]
      OBVIOUS
    <3>2. song.instruments \in Seq(S)
      BY <1>2, <3>1
    <3> QED
      BY <2>1, <3>2
  <2>3. n < MAX_INSTR
    BY <1>3, <2>1
  <2>4. n \in 0 .. MAX_INSTR - 1
    BY <2>2, <2>3 DEF MAX_INSTR
  <2> QED
    BY <2>1, <2>4
<1>5. PICK s, p : s = song.subtunes /\ p = song.patterns
  OBVIOUS
<1>6. ASSUME NEW k \in 1 .. Len(s)
      PROVE  /\ s[k] \in Seq(Orderlist) /\ Len(s[k]) = Len(s[1])
             /\ \A c \in 1 .. Len(s[k]) : Len(s[k][c].entries) \in 1 .. MAX_SONGLEN
  <2>1. DOMAIN s = 1 .. Len(s) /\ s[k] \in Seq(Orderlist)
    BY <1>2, <1>5
  <2>2. s[k] \in Range(s)
    BY <2>1 DEF Range
  <2>3. Len(s[k]) = Len(s[1]) /\ \A o \in Range(s[k]) : OrderValid(o, song)
    BY <1>3, <1>5, <2>2
  <2>4. PICK q : q = s[k]
    OBVIOUS
  <2>5. ASSUME NEW c \in 1 .. Len(q) PROVE Len(q[c].entries) \in 1 .. MAX_SONGLEN
    <3>1. DOMAIN q = 1 .. Len(q)
      BY <2>1, <2>4
    <3>2. q[c] \in Range(q)
      BY <3>1 DEF Range
    <3> QED
      BY <2>3, <2>4, <3>2 DEF OrderValid
  <2> QED
    BY <2>1, <2>3, <2>4, <2>5
<1>7. ASSUME NEW k \in 1 .. Len(p) PROVE Len(p[k]) \in 1 .. MAX_PATTROWS
  <2>1. DOMAIN p = 1 .. Len(p)
    BY <1>2, <1>5
  <2>2. p[k] \in Range(p)
    BY <2>1 DEF Range
  <2> QED
    BY <1>3, <1>5, <2>2
<1> QED
  BY <1>1, <1>2, <1>3, <1>4, <1>5, <1>6, <1>7

\* The reader's fields as a part.
LEMMA PartFields ==
  ASSUME NEW song, NEW left, NEW chans, NEW lists, parsed = Part(song, left, chans, lists)
  PROVE  parsed.song = song /\ parsed.left = left /\ parsed.chans = chans /\ parsed.lists = lists
BY DEF Part

LEMMA PartLess ==
  ASSUME NEW q, NEW song, NEW left, NEW chans, NEW lists, q = Part(song, left, chans, lists)
  PROVE  [q EXCEPT !.left = @ - 1] = Part(song, left - 1, chans, lists)
BY DEF Part

LEMMA PartLeft ==
  ASSUME NEW q, NEW song, NEW left, NEW chans, NEW lists, q = Part(song, left, chans, lists),
         NEW more
  PROVE  [q EXCEPT !.left = more] = Part(song, more, chans, lists)
BY DEF Part

LEMMA PartLists ==
  ASSUME NEW q, NEW song, NEW left, NEW chans, NEW lists, q = Part(song, left, chans, lists),
         NEW more
  PROVE  [q EXCEPT !.lists = more] = Part(song, left, chans, more)
BY DEF Part

LEMMA InstrumentStep ==
  ASSUME Shown(kept), Agrees, section = "instruments", InSection(section, kept, pos, parsed),
         ReadInstrument
  PROVE  InSection(section', kept, pos', parsed')
<1>1. PICK b : InInstruments(kept, pos, parsed, b)
  BY DEF InSection
<1>2. PICK f, n, seqs, m, base : /\ f = Stored(kept) /\ n = Len(kept.instruments)
                                 /\ seqs = InstrumentSeqs(kept) /\ m = Len(kept.subtunes)
                                 /\ base = InstrumentsAt(kept)
  OBVIOUS
<1>3. PICK chans : /\ b \in 0 .. n - 1 /\ pos = base + Off(seqs)[b]
                   /\ parsed = Part(Took(kept, m, b, 0, 0), n - b, chans, <<>>)
  BY <1>1, <1>2 DEF InInstruments
<1>4. /\ f \in Seq(Nat) /\ base \in Nat \ {0} /\ Holds(f, base, FlattenSeq(seqs))
      /\ seqs \in Seq(Seq(Nat)) /\ Len(seqs) = n /\ n \in Nat
  <2>1. Len(kept.instruments) \in Nat
    BY SectionsFit
  <2> QED
    BY <1>2, <2>1, Layout, InstrumentSeqsTyped
<1>5. /\ Holds(f, pos, seqs[b + 1]) /\ pos \in Nat \ {0}
      /\ pos + Len(seqs[b + 1]) = base + Off(seqs)[b + 1]
  <2>1. b \in 0 .. Len(seqs) - 1
    BY <1>3, <1>4
  <2>2. PICK o : o = Off(seqs)
    OBVIOUS
  <2>3. /\ Holds(f, base + o[b], seqs[b + 1]) /\ base + o[b] \in Nat \ {0}
        /\ (base + o[b]) + Len(seqs[b + 1]) = base + o[b + 1]
    <3>1. f \in Seq(Nat) /\ seqs \in Seq(Seq(Nat)) /\ base \in Nat \ {0}
          /\ Holds(f, base, FlattenSeq(seqs))
      BY <1>4
    <3> QED
      BY <2>1, <2>2, <3>1, ItemThere
  <2> QED
    BY <1>3, <2>2, <2>3
<1>6. PICK ins : ins = kept.instruments[b + 1]
  OBVIOUS
<1>7. /\ seqs[b + 1] = InstrumentStored(ins)
      /\ ins \in [params : Seq(Byte), name : Seq(Byte \ {0})]
      /\ Len(ins.params) = 9 /\ StringFits(ins.name)
  <2>1. b + 1 \in 1 .. Len(kept.instruments)
    BY <1>2, <1>3, <1>4
  <2> QED
    BY <1>2, <1>6, <2>1, InstrumentSeqsTyped
<1>8. \/ section' = "refused" /\ ~ whole
      \/ Go(pos + Len(seqs[b + 1]), IF parsed.left > 1 THEN "instruments" ELSE "tables",
            [Put("instruments", ins) EXCEPT !.left = @ - 1])
  <2>1. Holds(Stored(kept), pos, InstrumentStored(ins)) /\ Stored(kept) \in Seq(Nat)
    BY <1>2, <1>4, <1>5, <1>7
  <2> QED
    BY <1>5, <1>7, <2>1, InstrumentRead
<1>9. CASE section' = "refused" /\ ~ whole
  BY <1>9, RefusedWell
<1>10. CASE Go(pos + Len(seqs[b + 1]), IF parsed.left > 1 THEN "instruments" ELSE "tables",
               [Put("instruments", ins) EXCEPT !.left = @ - 1])
  <2>1. Put("instruments", ins) = Part(Took(kept, m, b + 1, 0, 0), n - b, chans, <<>>)
    <3>1. b \in 0 .. Len(kept.instruments) - 1 /\ Shaped(kept)
      BY <1>2, <1>3 DEF Shown
    <3> QED
      BY <1>3, <1>6, <3>1, PutNext
  <2>2. parsed' = Part(Took(kept, m, b + 1, 0, 0), (n - b) - 1, chans, <<>>)
    <3>1. PICK q : q = Put("instruments", ins)
      OBVIOUS
    <3>2. [q EXCEPT !.left = @ - 1] = Part(Took(kept, m, b + 1, 0, 0), (n - b) - 1, chans, <<>>)
      BY <2>1, <3>1, PartLess
    <3>3. parsed' = [Put("instruments", ins) EXCEPT !.left = @ - 1]
      BY <1>10 DEF Go
    <3> QED
      BY <3>1, <3>2, <3>3
  <2>3. parsed.left = n - b
    BY <1>3, PartFields
  <2>4. pos' = base + Off(seqs)[b + 1]
    BY <1>5, <1>10 DEF Go
  <2>5. CASE n - b > 1
    <3>1. section' = "instruments" /\ b + 1 \in 0 .. n - 1 /\ (n - b) - 1 = n - (b + 1)
      BY <1>3, <1>4, <1>10, <2>3, <2>5, SMTT(30) DEF Go
    <3>2. InInstruments(kept, pos', parsed', b + 1)
      BY <1>2, <2>2, <2>4, <3>1 DEF InInstruments
    <3> QED
      BY <3>1, <3>2 DEF InSection
  <2>6. CASE ~ (n - b > 1)
    <3>1. section' = "tables" /\ b + 1 = n
      BY <1>3, <1>4, <1>10, <2>3, <2>6 DEF Go
    <3>2. pos' = TablesAt(kept) + Off(TableSeqs(kept))[0]
      <4>1. TablesAt(kept) = base + Off(seqs)[n] /\ TablesAt(kept) \in Nat \ {0}
        BY <1>2, Layout DEF TablesAt
      <4>2. TableSeqs(kept) \in Seq(Seq(Nat))
        BY TableSeqsTyped DEF Shown
      <4>3. Off(TableSeqs(kept))[0] = 0
        BY <4>2, OffIs
      <4> QED
        BY <2>4, <3>1, <4>1, <4>3
    <3>3. InTables(kept, pos', parsed', 0)
      BY <1>2, <2>2, <3>1, <3>2 DEF InTables
    <3> QED
      BY <3>1, <3>3 DEF InSection
  <2> QED
    BY <2>5, <2>6
<1> QED
  BY <1>8, <1>9, <1>10

LEMMA TableStep ==
  ASSUME Shown(kept), Agrees, section = "tables", InSection(section, kept, pos, parsed), ReadTable
  PROVE  InSection(section', kept, pos', parsed')
<1>1. PICK c : InTables(kept, pos, parsed, c)
  BY DEF InSection
<1>2. PICK f, seqs, m, n, base : /\ f = Stored(kept) /\ seqs = TableSeqs(kept)
                                 /\ m = Len(kept.subtunes) /\ n = Len(kept.instruments)
                                 /\ base = TablesAt(kept)
  OBVIOUS
<1>3. PICK left, chans : /\ c \in 0 .. 3 /\ pos = base + Off(seqs)[c]
                         /\ parsed = Part(Took(kept, m, n, c, 0), left, chans, <<>>)
  BY <1>1, <1>2 DEF InTables
<1>4. /\ f \in Seq(Nat) /\ base \in Nat \ {0} /\ Holds(f, base, FlattenSeq(seqs))
      /\ seqs \in Seq(Seq(Nat)) /\ Len(seqs) = 4 /\ Len(kept.tables) = 4
  BY <1>2, Layout, TableSeqsTyped DEF Shown
<1>5. /\ Holds(f, pos, seqs[c + 1]) /\ pos \in Nat \ {0}
      /\ pos + Len(seqs[c + 1]) = base + Off(seqs)[c + 1]
  <2>1. c \in 0 .. Len(seqs) - 1
    BY <1>3, <1>4
  <2>2. PICK o : o = Off(seqs)
    OBVIOUS
  <2>3. /\ Holds(f, base + o[c], seqs[c + 1]) /\ base + o[c] \in Nat \ {0}
        /\ (base + o[c]) + Len(seqs[c + 1]) = base + o[c + 1]
    <3>1. f \in Seq(Nat) /\ seqs \in Seq(Seq(Nat)) /\ base \in Nat \ {0}
          /\ Holds(f, base, FlattenSeq(seqs))
      BY <1>4
    <3> QED
      BY <2>1, <2>2, <3>1, ItemThere
  <2> QED
    BY <1>3, <2>2, <2>3
<1>6. PICK t : t = kept.tables[c + 1]
  OBVIOUS
<1>7. seqs[c + 1] = TableStored(t) /\ t \in Seq(BytePair)
  <2>1. c + 1 \in 1 .. 4 /\ Shaped(kept)
    BY <1>3 DEF Shown
  <2> QED
    BY <1>2, <1>6, <2>1, TableSeqsTyped
<1>8. \/ section' = "refused" /\ ~ whole
      \/ Go(pos + Len(seqs[c + 1]),
            IF Len(parsed.song.tables) < 3 THEN "tables" ELSE "pattern_count", Put("tables", t))
  <2>1. Holds(Stored(kept), pos, TableStored(t)) /\ Stored(kept) \in Seq(Nat)
    BY <1>2, <1>4, <1>5, <1>7
  <2> QED
    BY <1>5, <1>7, <2>1, TableRead
<1>9. CASE section' = "refused" /\ ~ whole
  BY <1>9, RefusedWell
<1>10. CASE Go(pos + Len(seqs[c + 1]),
               IF Len(parsed.song.tables) < 3 THEN "tables" ELSE "pattern_count", Put("tables", t))
  <2>1. parsed' = Part(Took(kept, m, n, c + 1, 0), left, chans, <<>>)
    <3>1. c \in 0 .. Len(kept.tables) - 1 /\ Shaped(kept)
      BY <1>3, <1>4 DEF Shown
    <3>2. PICK none, zero : none = <<>> /\ zero = 0
      OBVIOUS
    <3>3. parsed = Part(Took(kept, m, n, c, zero), left, chans, none)
      BY <1>3, <3>2
    <3>4. Put("tables", kept.tables[c + 1]) = Part(Took(kept, m, n, c + 1, zero), left, chans, none)
      BY <3>1, <3>3, PutNext
    <3> QED
      BY <1>6, <1>10, <3>2, <3>4 DEF Go
  <2>2. Len(parsed.song.tables) = c
    <3>1. PICK ts, q : ts = kept.tables /\ q = Took(kept, m, n, c, 0)
      OBVIOUS
    <3>2. ts \in Seq(Seq(BytePair)) /\ Len(ts) = 4
      BY <3>1 DEF Shown, Shaped, SongSet
    <3>3. Len(SubSeq(ts, 1, c)) = c
      BY <1>3, <3>2, Taken
    <3>4. q.tables = SubSeq(ts, 1, c)
      BY <3>1 DEF Took
    <3>5. parsed.song = q
      BY <1>3, <3>1, PartFields
    <3> QED
      BY <3>3, <3>4, <3>5
  <2>3. pos' = base + Off(seqs)[c + 1]
    BY <1>5, <1>10 DEF Go
  <2>4. CASE c < 3
    <3>1. section' = "tables" /\ c + 1 \in 0 .. 3
      <4>1. section' = IF c < 3 THEN "tables" ELSE "pattern_count"
        BY <1>10, <2>2 DEF Go
      <4>2. c + 1 \in 0 .. 3
        BY <1>3, <2>4
      <4> QED
        BY <2>4, <4>1, <4>2
    <3>2. InTables(kept, pos', parsed', c + 1)
      BY <1>2, <2>1, <2>3, <3>1 DEF InTables
    <3> QED
      BY <3>1, <3>2 DEF InSection
  <2>5. CASE ~ (c < 3)
    <3>1. section' = "pattern_count" /\ c + 1 = 4
      <4>1. section' = IF c < 3 THEN "tables" ELSE "pattern_count"
        BY <1>10, <2>2 DEF Go
      <4>2. c + 1 = 4
        BY <1>3, <2>5
      <4> QED
        BY <2>5, <4>1, <4>2
    <3>2. InPatternCount(kept, pos', parsed')
      BY <1>2, <1>4, <2>1, <2>3, <3>1 DEF InPatternCount, PatternCountAt
    <3> QED
      BY <3>1, <3>2 DEF InSection
  <2> QED
    BY <2>4, <2>5
<1> QED
  BY <1>8, <1>9, <1>10

LEMMA PatternStep ==
  ASSUME Shown(kept), Agrees, section = "patterns", InSection(section, kept, pos, parsed),
         ReadPattern
  PROVE  InSection(section', kept, pos', parsed')
<1>1. PICK d : InPatterns(kept, pos, parsed, d)
  BY DEF InSection
<1>2. PICK f, n, seqs, m, i, base : /\ f = Stored(kept) /\ n = Len(kept.patterns)
                                    /\ seqs = PatternSeqs(kept) /\ m = Len(kept.subtunes)
                                    /\ i = Len(kept.instruments) /\ base = PatternsAt(kept)
  OBVIOUS
<1>3. PICK chans : /\ d \in 0 .. n - 1 /\ pos = base + Off(seqs)[d]
                   /\ parsed = Part(Took(kept, m, i, 4, d), n - d, chans, <<>>)
  BY <1>1, <1>2 DEF InPatterns
<1>4. /\ f \in Seq(Nat) /\ base \in Nat \ {0} /\ Holds(f, base, FlattenSeq(seqs))
      /\ seqs \in Seq(Seq(Nat)) /\ Len(seqs) = n /\ n \in Nat
  <2>1. Len(kept.patterns) \in Nat
    BY SectionsFit
  <2> QED
    BY <1>2, <2>1, Layout, PatternSeqsTyped DEF Shown
<1>5. /\ Holds(f, pos, seqs[d + 1]) /\ pos \in Nat \ {0}
      /\ pos + Len(seqs[d + 1]) = base + Off(seqs)[d + 1]
  <2>1. d \in 0 .. Len(seqs) - 1
    BY <1>3, <1>4
  <2>2. PICK o : o = Off(seqs)
    OBVIOUS
  <2>3. /\ Holds(f, base + o[d], seqs[d + 1]) /\ base + o[d] \in Nat \ {0}
        /\ (base + o[d]) + Len(seqs[d + 1]) = base + o[d + 1]
    <3>1. f \in Seq(Nat) /\ seqs \in Seq(Seq(Nat)) /\ base \in Nat \ {0}
          /\ Holds(f, base, FlattenSeq(seqs))
      BY <1>4
    <3> QED
      BY <2>1, <2>2, <3>1, ItemThere
  <2> QED
    BY <1>3, <2>2, <2>3
<1>6. PICK p : p = kept.patterns[d + 1]
  OBVIOUS
<1>7. /\ seqs[d + 1] = PatternStored(p) /\ p \in Seq(Byte \X Byte \X Byte \X Byte)
      /\ Len(p) \in 1 .. MAX_PATTROWS
  <2>1. d + 1 \in 1 .. Len(kept.patterns) /\ Shaped(kept)
    BY <1>2, <1>3, <1>4 DEF Shown
  <2> QED
    BY <1>2, <1>6, <2>1, PatternSeqsTyped, SectionsFit
<1>8. \/ section' = "refused" /\ ~ whole
      \/ Go(pos + Len(seqs[d + 1]), IF parsed.left > 1 THEN "patterns" ELSE "end",
            [Put("patterns", p) EXCEPT !.left = @ - 1])
  <2>1. Holds(Stored(kept), pos, PatternStored(p)) /\ Stored(kept) \in Seq(Nat)
    BY <1>2, <1>4, <1>5, <1>7
  <2> QED
    BY <1>5, <1>7, <2>1, PatternRead
<1>9. CASE section' = "refused" /\ ~ whole
  BY <1>9, RefusedWell
<1>10. CASE Go(pos + Len(seqs[d + 1]), IF parsed.left > 1 THEN "patterns" ELSE "end",
               [Put("patterns", p) EXCEPT !.left = @ - 1])
  <2>1. Put("patterns", p) = Part(Took(kept, m, i, 4, d + 1), n - d, chans, <<>>)
    <3>1. d \in 0 .. Len(kept.patterns) - 1 /\ Shaped(kept)
      BY <1>2, <1>3 DEF Shown
    <3>2. PICK none, l : none = <<>> /\ l = n - d
      OBVIOUS
    <3>3. parsed = Part(Took(kept, m, i, 4, d), l, chans, none)
      BY <1>3, <3>2
    <3>4. Put("patterns", kept.patterns[d + 1]) = Part(Took(kept, m, i, 4, d + 1), l, chans, none)
      BY <3>1, <3>3, PutNext
    <3> QED
      BY <1>6, <3>2, <3>4
  <2>2. parsed' = Part(Took(kept, m, i, 4, d + 1), (n - d) - 1, chans, <<>>)
    <3>1. PICK q : q = Put("patterns", p)
      OBVIOUS
    <3>2. [q EXCEPT !.left = @ - 1] = Part(Took(kept, m, i, 4, d + 1), (n - d) - 1, chans, <<>>)
      BY <2>1, <3>1, PartLess
    <3>3. parsed' = [Put("patterns", p) EXCEPT !.left = @ - 1]
      BY <1>10 DEF Go
    <3> QED
      BY <3>1, <3>2, <3>3
  <2>3. parsed.left = n - d
    BY <1>3, PartFields
  <2>4. pos' = base + Off(seqs)[d + 1]
    BY <1>5, <1>10 DEF Go
  <2>5. CASE n - d > 1
    <3>1. section' = "patterns" /\ d + 1 \in 0 .. n - 1 /\ (n - d) - 1 = n - (d + 1)
      BY <1>3, <1>4, <1>10, <2>3, <2>5, SMTT(30) DEF Go
    <3>2. InPatterns(kept, pos', parsed', d + 1)
      BY <1>2, <2>2, <2>4, <3>1 DEF InPatterns
    <3> QED
      BY <3>1, <3>2 DEF InSection
  <2>6. CASE ~ (n - d > 1)
    <3>1. section' = "end" /\ d + 1 = n
      BY <1>3, <1>4, <1>10, <2>3, <2>6 DEF Go
    <3>2. AtEnd(kept, pos', parsed')
      BY <1>2, <2>2, <2>4, <3>1 DEF AtEnd, EndAt
    <3> QED
      BY <3>1, <3>2 DEF InSection
  <2> QED
    BY <2>5, <2>6
<1> QED
  BY <1>8, <1>9, <1>10

LEMMA InstrumentCountStep ==
  ASSUME Shown(kept), Agrees, section = "instrument_count", InSection(section, kept, pos, parsed),
         ReadInstruments
  PROVE  InSection(section', kept, pos', parsed')
<1>1. InInstrumentCount(kept, pos, parsed)
  BY DEF InSection
<1>2. PICK f, n, m, seqs : /\ f = Stored(kept) /\ n = Len(kept.instruments)
                           /\ m = Len(kept.subtunes) /\ seqs = InstrumentSeqs(kept)
  OBVIOUS
<1>3. PICK left, chans : parsed = Part(Took(kept, m, 0, 0, 0), left, chans, <<>>)
  BY <1>1, <1>2 DEF InInstrumentCount
<1>4. f \in Seq(Nat) /\ pos \in Nat \ {0} /\ Holds(f, pos, <<n>>)
  BY <1>1, <1>2, Layout DEF InInstrumentCount
<1>5. n \in 0 .. MAX_INSTR - 1
  BY <1>2, SectionsFit
<1>6. \/ section' = "refused" /\ ~ whole
      \/ Go(pos + 1, IF n = 0 THEN "tables" ELSE "instruments", [parsed EXCEPT !.left = n])
  <2>1. ReadCount("instrument_count", 0, MAX_INSTR - 1, "instruments", "tables")
    BY DEF ReadInstruments
  <2>2. PICK high : high = MAX_INSTR - 1
    OBVIOUS
  <2>3. high \in Nat /\ 0 \in Nat
    <3>1. MAX_INSTR = 64
      BY DEF MAX_INSTR
    <3> QED
      BY <2>2, <3>1
  <2>4. Stored(kept) \in Seq(Nat) /\ Holds(Stored(kept), pos, <<n>>)
    BY <1>2, <1>4
  <2> QED
    BY <1>4, <1>5, <2>1, <2>2, <2>3, <2>4, CountRead
<1>7. CASE section' = "refused" /\ ~ whole
  BY <1>7, RefusedWell
<1>8. CASE Go(pos + 1, IF n = 0 THEN "tables" ELSE "instruments", [parsed EXCEPT !.left = n])
  <2>1. parsed' = Part(Took(kept, m, 0, 0, 0), n, chans, <<>>)
    <3>1. PICK q : q = Took(kept, m, 0, 0, 0)
      OBVIOUS
    <3>2. parsed = Part(q, left, chans, <<>>)
      BY <1>3, <3>1
    <3>3. [parsed EXCEPT !.left = n] = Part(q, n, chans, <<>>)
      BY <3>2, PartLeft
    <3> QED
      BY <1>8, <3>1, <3>3 DEF Go
  <2>2. pos' = InstrumentsAt(kept) /\ pos' \in Nat \ {0}
    <3>1. pos = InstrumentCountAt(kept)
      BY <1>1 DEF InInstrumentCount
    <3>2. pos' = pos + 1
      BY <1>8 DEF Go
    <3> QED
      BY <1>4, <3>1, <3>2 DEF InstrumentsAt
  <2>3. Off(seqs)[0] = 0
    <3>1. seqs \in Seq(Seq(Nat))
      BY <1>2, InstrumentSeqsTyped
    <3> QED
      BY <3>1, OffIs
  <2>4. pos' = InstrumentsAt(kept) + Off(seqs)[0]
    BY <2>2, <2>3
  <2>5. CASE n = 0
    <3>1. section' = "tables"
      BY <1>8, <2>5 DEF Go
    <3>2. TablesAt(kept) = pos'
      BY <1>2, <2>4, <2>5 DEF TablesAt
    <3>3. pos' = TablesAt(kept) + Off(TableSeqs(kept))[0]
      <4>1. TableSeqs(kept) \in Seq(Seq(Nat))
        BY TableSeqsTyped DEF Shown
      <4>2. Off(TableSeqs(kept))[0] = 0
        BY <4>1, OffIs
      <4> QED
        BY <2>2, <3>2, <4>2
    <3>4. InTables(kept, pos', parsed', 0)
      BY <1>2, <2>1, <2>5, <3>3 DEF InTables
    <3> QED
      BY <3>1, <3>4 DEF InSection
  <2>6. CASE n # 0
    <3>1. section' = "instruments" /\ 0 \in 0 .. n - 1 /\ n - 0 = n
      <4>1. section' = "instruments"
        BY <1>8, <2>6 DEF Go
      <4>2. 0 \in 0 .. n - 1 /\ n - 0 = n
        BY <1>5, <2>6
      <4> QED
        BY <4>1, <4>2
    <3>2. InInstruments(kept, pos', parsed', 0)
      BY <1>2, <2>1, <2>4, <3>1 DEF InInstruments
    <3> QED
      BY <3>1, <3>2 DEF InSection
  <2> QED
    BY <2>5, <2>6
<1> QED
  BY <1>6, <1>7, <1>8

LEMMA PatternCountStep ==
  ASSUME Shown(kept), Agrees, section = "pattern_count", InSection(section, kept, pos, parsed),
         ReadPatterns
  PROVE  InSection(section', kept, pos', parsed')
<1>1. InPatternCount(kept, pos, parsed)
  BY DEF InSection
<1>2. PICK f, n, m, i, seqs : /\ f = Stored(kept) /\ n = Len(kept.patterns)
                              /\ m = Len(kept.subtunes) /\ i = Len(kept.instruments)
                              /\ seqs = PatternSeqs(kept)
  OBVIOUS
<1>3. PICK left, chans : parsed = Part(Took(kept, m, i, 4, 0), left, chans, <<>>)
  BY <1>1, <1>2 DEF InPatternCount
<1>4. f \in Seq(Nat) /\ pos \in Nat \ {0} /\ Holds(f, pos, <<n>>)
  BY <1>1, <1>2, Layout DEF InPatternCount
<1>5. n \in 1 .. MAX_PATT
  BY <1>2, SectionsFit
<1>6. \/ section' = "refused" /\ ~ whole
      \/ Go(pos + 1, "patterns", [parsed EXCEPT !.left = n])
  <2>1. ReadCount("pattern_count", 1, MAX_PATT, "patterns", "patterns")
    BY DEF ReadPatterns
  <2>2. PICK high : high = MAX_PATT
    OBVIOUS
  <2>3. high \in Nat /\ 1 \in Nat
    BY <2>2 DEF MAX_PATT
  <2>4. Stored(kept) \in Seq(Nat) /\ Holds(Stored(kept), pos, <<n>>)
    BY <1>2, <1>4
  <2> QED
    BY <1>4, <1>5, <2>1, <2>2, <2>3, <2>4, CountRead
<1>7. CASE section' = "refused" /\ ~ whole
  BY <1>7, RefusedWell
<1>8. CASE Go(pos + 1, "patterns", [parsed EXCEPT !.left = n])
  <2>1. parsed' = Part(Took(kept, m, i, 4, 0), n, chans, <<>>)
    <3>1. PICK q : q = Took(kept, m, i, 4, 0)
      OBVIOUS
    <3>2. parsed = Part(q, left, chans, <<>>)
      BY <1>3, <3>1
    <3>3. [parsed EXCEPT !.left = n] = Part(q, n, chans, <<>>)
      BY <3>2, PartLeft
    <3> QED
      BY <1>8, <3>1, <3>3 DEF Go
  <2>2. pos' = PatternsAt(kept) /\ pos' \in Nat \ {0}
    <3>1. pos = PatternCountAt(kept)
      BY <1>1 DEF InPatternCount
    <3>2. pos' = pos + 1
      BY <1>8 DEF Go
    <3> QED
      BY <1>4, <3>1, <3>2 DEF PatternsAt
  <2>3. Off(seqs)[0] = 0
    <3>1. seqs \in Seq(Seq(Nat))
      BY <1>2, PatternSeqsTyped DEF Shown
    <3> QED
      BY <3>1, OffIs
  <2>4. pos' = PatternsAt(kept) + Off(seqs)[0]
    BY <2>2, <2>3
  <2>5. section' = "patterns" /\ 0 \in 0 .. n - 1 /\ n - 0 = n
    <3>1. section' = "patterns"
      BY <1>8 DEF Go
    <3>2. 0 \in 0 .. n - 1 /\ n - 0 = n
      BY <1>5 DEF MAX_PATT
    <3> QED
      BY <3>1, <3>2
  <2>6. InPatterns(kept, pos', parsed', 0)
    BY <1>2, <2>1, <2>4, <2>5 DEF InPatterns
  <2> QED
    BY <2>5, <2>6 DEF InSection
<1> QED
  BY <1>6, <1>7, <1>8

LEMMA EndStep ==
  ASSUME Shown(kept), Agrees, section = "end", InSection(section, kept, pos, parsed), ReadEnd
  PROVE  InSection(section', kept, pos', parsed')
<1>1. AtEnd(kept, pos, parsed)
  BY DEF InSection
<1>2. pos = Len(Stored(kept)) + 1 /\ Len(Stored(kept)) \in Nat
  <2>1. pos = EndAt(kept)
    BY <1>1 DEF AtEnd
  <2>2. Stored(kept) \in Seq(Nat) /\ EndAt(kept) = Len(Stored(kept)) + 1
    BY Layout
  <2> QED
    BY <2>1, <2>2
<1>3. parsed.song = kept
  <2>1. PICK so : so = Took(kept, Len(kept.subtunes), Len(kept.instruments), 4, Len(kept.patterns))
    OBVIOUS
  <2>2. PICK left, chans : parsed = Part(so, left, chans, <<>>)
    BY <1>1, <2>1 DEF AtEnd
  <2>3. parsed.song = so
    BY <2>2, PartFields
  <2>4. so = kept
    BY <2>1, TookAll DEF Shown
  <2> QED
    BY <2>3, <2>4
<1>4. Len(file) \in Nat /\ (whole => file = Stored(kept)) /\ (~ whole => Len(file) # Len(Stored(kept)))
  BY DEF Agrees
<1>5. CASE whole
  <2>1. pos = Len(file) + 1
    BY <1>2, <1>4, <1>5
  <2>2. section' = "read" /\ parsed' = parsed
    BY <2>1 DEF ReadEnd, Go
  <2> QED
    BY <1>3, <1>5, <2>2 DEF InSection
<1>6. CASE ~ whole
  <2>1. pos # Len(file) + 1
    BY <1>2, <1>4, <1>6
  <2>2. section' = "refused"
    BY <2>1 DEF ReadEnd, Refuse
  <2> QED
    BY <1>6, <2>2, RefusedWell
<1> QED
  BY <1>5, <1>6

\* An orderlist is where its subtune and its place in it say; a subtune's first is where the
\* subtune is, its last ends where the next one is.
LEMMA OrderThere ==
  ASSUME NEW song, Shown(song), NEW a \in 0 .. Len(song.subtunes) - 1, NEW s,
         s = song.subtunes[a + 1]
  PROVE  /\ s \in Seq(Orderlist) /\ Len(s) = Len(song.subtunes[1]) /\ Len(s) \in {3, 6}
         /\ OrderAt(song, a, 0) = OrdersAt + Off(SubtuneSeqs(song))[a]
         /\ OrderAt(song, a, Len(s)) = OrdersAt + Off(SubtuneSeqs(song))[a + 1]
         /\ OrderAt(song, a, 0) \in Nat \ {0}
         /\ \A c \in 0 .. Len(s) - 1 :
              /\ OrderAt(song, a, c) \in Nat \ {0}
              /\ Holds(Stored(song), OrderAt(song, a, c), OrderStored(s[c + 1]))
              /\ OrderAt(song, a, c) + Len(OrderStored(s[c + 1])) = OrderAt(song, a, c + 1)
              /\ s[c + 1] \in Orderlist /\ Len(s[c + 1].entries) \in 1 .. MAX_SONGLEN
<1>1. PICK f, n, subs, k, w, seqs, base, first, o :
        /\ f = Stored(song) /\ n = Len(song.subtunes) /\ subs = SubtuneSeqs(song)
        /\ k = a + 1 /\ w = Len(s) /\ seqs = OrderSeqs(s) /\ base = OrdersAt
        /\ first = Off(subs) /\ o = Off(seqs)
  OBVIOUS
<1>2. PICK start : start = base + first[a]
  OBVIOUS
<1>3. n \in 1 .. MAX_SONGS /\ n \in Nat
  BY <1>1, SectionsFit DEF MAX_SONGS
<1>4. k \in 1 .. n
  BY <1>1, <1>3
<1>5. /\ s \in Seq(Orderlist) /\ w = Len(song.subtunes[1]) /\ w \in {3, 6}
      /\ \A e \in 1 .. w : Len(s[e].entries) \in 1 .. MAX_SONGLEN
  BY <1>1, <1>4, SectionsFit
<1>6. /\ f \in Seq(Nat) /\ base \in Nat \ {0} /\ Holds(f, base, FlattenSeq(subs))
      /\ subs \in Seq(Seq(Nat)) /\ Len(subs) = n /\ subs[k] = FlattenSeq(seqs)
  BY <1>1, <1>4, Layout, SubtuneSeqsTyped DEF Shown
<1>7. /\ Holds(f, start, FlattenSeq(seqs)) /\ start \in Nat \ {0}
      /\ start + Len(FlattenSeq(seqs)) = base + first[a + 1]
  <2>1. a \in 0 .. Len(subs) - 1
    BY <1>1, <1>6
  <2>2. /\ f \in Seq(Nat) /\ subs \in Seq(Seq(Nat)) /\ base \in Nat \ {0}
        /\ Holds(f, base, FlattenSeq(subs))
    BY <1>6
  <2>3. /\ Holds(f, base + first[a], subs[a + 1]) /\ base + first[a] \in Nat \ {0}
        /\ (base + first[a]) + Len(subs[a + 1]) = base + first[a + 1]
    BY <1>1, <2>1, <2>2, ItemThere
  <2> QED
    BY <1>1, <1>2, <1>6, <2>3
<1>8. seqs \in Seq(Seq(Nat)) /\ Len(seqs) = w /\ \A e \in 1 .. w : seqs[e] = OrderStored(s[e])
  BY <1>1, <1>5, OrderSeqsTyped
<1>9. \A c : OrderAt(song, a, c) = start + o[c]
  BY <1>1, <1>2 DEF OrderAt
<1>10. OrderAt(song, a, 0) = start
  <2>1. o[0] = 0
    BY <1>1, <1>8, OffIs
  <2>2. start + 0 = start
    BY <1>7
  <2> QED
    BY <1>9, <2>1, <2>2
<1>11. OrderAt(song, a, w) = base + first[a + 1]
  <2>1. Len(FlattenSeq(seqs)) = o[w]
    BY <1>1, <1>8, FlatLength
  <2> QED
    BY <1>7, <1>9, <2>1
<1>12. ASSUME NEW c \in 0 .. w - 1
       PROVE  /\ OrderAt(song, a, c) \in Nat \ {0}
              /\ Holds(f, OrderAt(song, a, c), OrderStored(s[c + 1]))
              /\ OrderAt(song, a, c) + Len(OrderStored(s[c + 1])) = OrderAt(song, a, c + 1)
              /\ s[c + 1] \in Orderlist /\ Len(s[c + 1].entries) \in 1 .. MAX_SONGLEN
  <2>1. c \in 0 .. Len(seqs) - 1
    BY <1>8
  <2>2. /\ f \in Seq(Nat) /\ seqs \in Seq(Seq(Nat)) /\ start \in Nat \ {0}
        /\ Holds(f, start, FlattenSeq(seqs))
    BY <1>6, <1>7, <1>8
  <2>3. /\ Holds(f, start + o[c], seqs[c + 1]) /\ start + o[c] \in Nat \ {0}
        /\ (start + o[c]) + Len(seqs[c + 1]) = start + o[c + 1]
    BY <1>1, <2>1, <2>2, ItemThere, SMTT(30)
  <2>4. PICK e : e = c + 1
    OBVIOUS
  <2>5. e \in 1 .. w /\ e \in 1 .. Len(s) /\ s \in Seq(Orderlist)
    BY <1>1, <1>5, <2>4
  <2>6. s[e] \in Orderlist
    BY <2>5
  <2>7. seqs[e] = OrderStored(s[e]) /\ Len(s[e].entries) \in 1 .. MAX_SONGLEN
    BY <1>5, <1>8, <2>5
  <2>8. OrderAt(song, a, c) = start + o[c] /\ OrderAt(song, a, c + 1) = start + o[c + 1]
    BY <1>9
  <2> QED
    BY <2>3, <2>4, <2>6, <2>7, <2>8
<1> QED
  BY <1>1, <1>2, <1>5, <1>7, <1>10, <1>11, <1>12

\* A subtune's first orderlist is next.
LEMMA SubtuneBegins ==
  ASSUME NEW song, Shown(song), NEW a \in 0 .. Len(song.subtunes) - 1, NEW part, NEW chans,
         part = Part(Took(song, a, 0, 0, 0), Len(song.subtunes) - a, chans, <<>>)
  PROVE  InOrders(song, OrdersAt + Off(SubtuneSeqs(song))[a], part, a, 0)
<1>1. PICK s : s = song.subtunes[a + 1]
  OBVIOUS
<1>2. /\ s \in Seq(Orderlist) /\ Len(s) \in {3, 6}
      /\ OrderAt(song, a, 0) = OrdersAt + Off(SubtuneSeqs(song))[a]
  BY <1>1, OrderThere
<1>3. 0 \in 0 .. Len(s) - 1
  <2>1. PICK l : l = Len(s)
    OBVIOUS
  <2>2. l \in {3, 6}
    BY <1>2, <2>1
  <2>3. 0 \in 0 .. l - 1
    BY <2>2
  <2> QED
    BY <2>1, <2>3
<1>4. SubSeq(s, 1, 0) = <<>>
  BY <1>2, Taken
<1> QED
  BY <1>1, <1>2, <1>3, <1>4 DEF InOrders

\* What the reader keeps of a song it has read in part.
IsPart(part) == \E song, left, chans, lists : part = Part(song, left, chans, lists)

LEMMA HeaderStep ==
  ASSUME Shown(kept), Agrees, section = "header", InSection(section, kept, pos, parsed), ReadHeader
  PROVE  /\ InSection(section', kept, pos', parsed')
         /\ \/ section' = "refused" /\ ~ whole
            \/ /\ section' = "orders" /\ IsPart(parsed')
               /\ parsed'.chans = Channels(OrdersAt, Len(kept.subtunes))
<1>1. pos = 1
  BY DEF InSection
<1>2. PICK f, n, name : f = Stored(kept) /\ n = Len(kept.subtunes) /\ name = kept.name
  OBVIOUS
<1>3. f \in Seq(Nat) /\ Holds(f, 1, Padded(name)) /\ Holds(f, NameLen + 1, <<n>>)
  BY <1>2, Layout
<1>4. n \in 1 .. MAX_SONGS /\ name \in Seq(Byte \ {0}) /\ StringFits(name)
  BY <1>2, SectionsFit
<1>5. PICK chans : chans = Channels(OrdersAt, n)
  OBVIOUS
<1>6. \/ section' = "refused" /\ ~ whole
      \/ Go(OrdersAt, "orders",
            [song |-> [Empty EXCEPT !.name = name], left |-> n, chans |-> chans, lists |-> <<>>])
  BY <1>1, <1>2, <1>3, <1>4, <1>5, HeaderRead
<1>7. CASE section' = "refused" /\ ~ whole
  <2>1. InSection(section', kept, pos', parsed')
    BY <1>7, RefusedWell
  <2> QED
    BY <1>7, <2>1
<1>8. CASE Go(OrdersAt, "orders",
              [song |-> [Empty EXCEPT !.name = name], left |-> n, chans |-> chans, lists |-> <<>>])
  <2>1. section' = "orders" /\ pos' = OrdersAt
        /\ parsed' = Part([Empty EXCEPT !.name = name], n, chans, <<>>)
    BY <1>8 DEF Go, Part
  <2>2. [Empty EXCEPT !.name = name] = Took(kept, 0, 0, 0, 0)
    BY <1>2, TookAll DEF Shown
  <2>3. n - 0 = n /\ 0 \in 0 .. n - 1
    BY <1>4 DEF MAX_SONGS
  <2>4. InOrders(kept, OrdersAt + Off(SubtuneSeqs(kept))[0], parsed', 0, 0)
    <3>1. parsed' = Part(Took(kept, 0, 0, 0, 0), Len(kept.subtunes) - 0, chans, <<>>)
      BY <1>2, <2>1, <2>2, <2>3
    <3>2. PICK part, zero : part = parsed' /\ zero = 0
      OBVIOUS
    <3>3. InOrders(kept, OrdersAt + Off(SubtuneSeqs(kept))[zero], part, zero, 0)
      <4>1. zero \in 0 .. Len(kept.subtunes) - 1
        BY <1>2, <2>3, <3>2
      <4>2. part = Part(Took(kept, zero, 0, 0, 0), Len(kept.subtunes) - zero, chans, <<>>)
        BY <3>1, <3>2
      <4> QED
        BY <4>1, <4>2, SubtuneBegins
    <3> QED
      BY <3>2, <3>3
  <2>5. OrdersAt + Off(SubtuneSeqs(kept))[0] = OrdersAt
    <3>1. SubtuneSeqs(kept) \in Seq(Seq(Nat))
      BY SubtuneSeqsTyped DEF Shown
    <3>2. Off(SubtuneSeqs(kept))[0] = 0
      BY <3>1, OffIs
    <3>3. OrdersAt \in Nat
      BY NameLenAssumption DEF OrdersAt
    <3> QED
      BY <3>2, <3>3
  <2>6. InSection(section', kept, pos', parsed')
    BY <2>1, <2>4, <2>5 DEF InSection
  <2>7. IsPart(parsed')
    BY <2>1 DEF IsPart
  <2>8. parsed'.chans = chans
    BY <2>1 DEF Part
  <2> QED
    BY <1>2, <1>5, <2>1, <2>6, <2>7, <2>8
<1> QED
  BY <1>6, <1>7, <1>8

LEMMA OrderStep ==
  ASSUME Shown(kept), Agrees, section = "orders", InSection(section, kept, pos, parsed),
         parsed.chans = Len(kept.subtunes[1]), ReadOrderlist
  PROVE  InSection(section', kept, pos', parsed')
<1>1. PICK a, c : InOrders(kept, pos, parsed, a, c)
  BY DEF InSection
<1>2. PICK f, n, k, s, w :
        f = Stored(kept) /\ n = Len(kept.subtunes) /\ k = a + 1 /\ s = kept.subtunes[a + 1] /\ w = Len(s)
  OBVIOUS
<1>3. PICK chans : /\ a \in 0 .. n - 1 /\ c \in 0 .. w - 1 /\ pos = OrderAt(kept, a, c)
                   /\ parsed = Part(Took(kept, a, 0, 0, 0), n - a, chans, SubSeq(s, 1, c))
  BY <1>1, <1>2 DEF InOrders
<1>4. f \in Seq(Nat) /\ n \in Nat
  <2>1. Stored(kept) \in Seq(Nat)
    BY Layout
  <2>2. n \in 1 .. MAX_SONGS
    BY <1>2, SectionsFit
  <2>3. n \in Nat
    BY <2>2 DEF MAX_SONGS
  <2> QED
    BY <1>2, <2>1, <2>3
<1>5. a \in 0 .. Len(kept.subtunes) - 1 /\ Shaped(kept)
  BY <1>2, <1>3 DEF Shown
<1>6. /\ s \in Seq(Orderlist) /\ w = Len(kept.subtunes[1]) /\ w \in {3, 6}
      /\ OrderAt(kept, a, w) = OrdersAt + Off(SubtuneSeqs(kept))[k]
  <2>1. s = kept.subtunes[a + 1]
    BY <1>2
  <2>2. s \in Seq(Orderlist) /\ Len(s) = Len(kept.subtunes[1]) /\ Len(s) \in {3, 6}
    BY <1>5, <2>1, OrderThere
  <2>3. OrderAt(kept, a, Len(s)) = OrdersAt + Off(SubtuneSeqs(kept))[a + 1]
    BY <1>5, <2>1, OrderThere
  <2> QED
    BY <1>2, <2>2, <2>3
<1>7. PICK o, lists, next : /\ o = s[c + 1] /\ lists = SubSeq(s, 1, c + 1)
                            /\ next = OrderAt(kept, a, c + 1)
  OBVIOUS
<1>8. /\ pos \in Nat \ {0} /\ Holds(f, pos, OrderStored(o)) /\ pos + Len(OrderStored(o)) = next
      /\ o \in Orderlist /\ Len(o.entries) \in 1 .. MAX_SONGLEN
  BY <1>2, <1>3, <1>5, <1>7, OrderThere, SMTT(30)
<1>9. Append(parsed.lists, o) = lists /\ Len(lists) = c + 1
  <2>1. parsed.lists = SubSeq(s, 1, c)
    BY <1>3, PartFields
  <2>2. c \in 0 .. Len(s) - 1 /\ c + 1 \in 0 .. Len(s)
    BY <1>2, <1>3, <1>6
  <2>3. Append(SubSeq(s, 1, c), s[c + 1]) = SubSeq(s, 1, c + 1)
    BY <1>6, <2>2, Taken
  <2>4. Len(SubSeq(s, 1, c + 1)) = c + 1
    BY <1>6, <2>2, Taken
  <2> QED
    BY <1>7, <2>1, <2>3, <2>4
<1>10. parsed.left = n - a /\ parsed.chans = w
  BY <1>3, <1>6, PartFields
<1>11. \/ section' = "refused" /\ ~ whole
       \/ IF c + 1 < w
          THEN Go(next, "orders", [parsed EXCEPT !.lists = lists])
          ELSE Go(next, IF n - a > 1 THEN "orders" ELSE "instrument_count",
                  [Put("subtunes", lists) EXCEPT !.lists = <<>>, !.left = @ - 1])
  <2>1. Holds(Stored(kept), pos, OrderStored(o)) /\ Stored(kept) \in Seq(Nat)
    BY <1>2, <1>4, <1>8
  <2>2. PICK more, q : more = Append(parsed.lists, o) /\ q = pos + Len(OrderStored(o))
    OBVIOUS
  <2>3. \/ section' = "refused" /\ ~ whole
        \/ IF Len(more) < parsed.chans
           THEN Go(q, "orders", [parsed EXCEPT !.lists = more])
           ELSE Go(q, IF parsed.left > 1 THEN "orders" ELSE "instrument_count",
                   [Put("subtunes", more) EXCEPT !.lists = <<>>, !.left = @ - 1])
    BY <1>8, <2>1, <2>2, OrderRead
  <2>4. more = lists /\ Len(more) = c + 1 /\ q = next
    BY <1>8, <1>9, <2>2
  <2> QED
    BY <1>10, <2>3, <2>4
<1>12. CASE section' = "refused" /\ ~ whole
  BY <1>12, RefusedWell
<1>13. CASE c + 1 < w /\ Go(next, "orders", [parsed EXCEPT !.lists = lists])
  <2>1. parsed' = Part(Took(kept, a, 0, 0, 0), n - a, chans, lists)
    <3>1. PICK so, l, before : so = Took(kept, a, 0, 0, 0) /\ l = n - a /\ before = SubSeq(s, 1, c)
      OBVIOUS
    <3>2. parsed = Part(so, l, chans, before)
      BY <1>3, <3>1
    <3>3. [parsed EXCEPT !.lists = lists] = Part(so, l, chans, lists)
      BY <3>2, PartLists
    <3> QED
      BY <1>13, <3>1, <3>3 DEF Go
  <2>2. c + 1 \in 0 .. w - 1
    BY <1>3, <1>6, <1>13
  <2>3. section' = "orders" /\ pos' = OrderAt(kept, a, c + 1)
    BY <1>7, <1>13 DEF Go
  <2>4. InOrders(kept, pos', parsed', a, c + 1)
    BY <1>2, <1>3, <1>7, <2>1, <2>2, <2>3 DEF InOrders
  <2> QED
    BY <2>3, <2>4 DEF InSection
<1>14. CASE /\ ~ (c + 1 < w)
            /\ Go(next, IF n - a > 1 THEN "orders" ELSE "instrument_count",
                  [Put("subtunes", lists) EXCEPT !.lists = <<>>, !.left = @ - 1])
  <2>1. c + 1 = w
    BY <1>3, <1>6, <1>14
  <2>2. lists = s
    <3>1. SubSeq(s, 1, Len(s)) = s
      BY <1>6, Taken
    <3> QED
      BY <1>2, <1>7, <2>1, <3>1
  <2>3. Put("subtunes", s) = Part(Took(kept, k, 0, 0, 0), n - a, chans, SubSeq(s, 1, c))
    <3>2. PICK l, some, zero : l = n - a /\ some = SubSeq(s, 1, c) /\ zero = 0
      OBVIOUS
    <3>3. parsed = Part(Took(kept, a, zero, zero, zero), l, chans, some)
      BY <1>3, <3>2
    <3>4. Put("subtunes", kept.subtunes[a + 1]) = Part(Took(kept, a + 1, zero, zero, zero), l, chans, some)
      BY <1>5, <3>3, PutNext
    <3> QED
      BY <1>2, <3>2, <3>4
  <2>4. parsed' = Part(Took(kept, k, 0, 0, 0), (n - a) - 1, chans, <<>>)
    <3>1. PICK q, so, l, some : /\ q = Put("subtunes", s) /\ so = Took(kept, k, 0, 0, 0)
                                /\ l = n - a /\ some = SubSeq(s, 1, c)
      OBVIOUS
    <3>2. q = Part(so, l, chans, some)
      BY <2>3, <3>1
    <3>3. [q EXCEPT !.lists = <<>>, !.left = @ - 1] = Part(so, l - 1, chans, <<>>)
      <4>1. [q EXCEPT !.lists = <<>>, !.left = @ - 1] = [[q EXCEPT !.lists = <<>>] EXCEPT !.left = q.left - 1]
        OBVIOUS
      <4>2. PICK r, less : r = [q EXCEPT !.lists = <<>>] /\ less = q.left - 1
        OBVIOUS
      <4>3. r = Part(so, l, chans, <<>>)
        BY <3>2, <4>2, PartLists
      <4>4. less = l - 1
        BY <3>2, <4>2 DEF Part
      <4>5. [r EXCEPT !.left = less] = Part(so, l - 1, chans, <<>>)
        BY <4>3, <4>4, PartLeft
      <4>6. [[q EXCEPT !.lists = <<>>] EXCEPT !.left = q.left - 1] = [r EXCEPT !.left = less]
        BY <4>2
      <4> QED
        BY <4>1, <4>5, <4>6
    <3>4. parsed' = [Put("subtunes", lists) EXCEPT !.lists = <<>>, !.left = @ - 1]
      BY <1>14 DEF Go
    <3>5. parsed' = [q EXCEPT !.lists = <<>>, !.left = @ - 1]
      BY <2>2, <3>1, <3>4
    <3> QED
      BY <3>1, <3>3, <3>5
  <2>5. pos' = OrdersAt + Off(SubtuneSeqs(kept))[k]
    BY <1>6, <1>7, <1>14, <2>1 DEF Go
  <2>6. section' = IF n - a > 1 THEN "orders" ELSE "instrument_count"
    BY <1>14 DEF Go
  <2>7. (n - a) - 1 = n - k
    BY <1>2, <1>3, <1>4
  <2>8. CASE n - a > 1
    <3>1. k \in 0 .. n - 1
      BY <1>2, <1>3, <1>4, <2>8
    <3>2. PICK part, p : part = parsed' /\ p = OrdersAt + Off(SubtuneSeqs(kept))[k]
      OBVIOUS
    <3>3. part = Part(Took(kept, k, 0, 0, 0), Len(kept.subtunes) - k, chans, <<>>)
      BY <1>2, <2>4, <2>7, <3>2
    <3>4. k \in 0 .. Len(kept.subtunes) - 1
      BY <1>2, <3>1
    <3>5. InOrders(kept, OrdersAt + Off(SubtuneSeqs(kept))[k], part, k, 0)
      BY <3>3, <3>4, SubtuneBegins
    <3>6. InOrders(kept, pos', parsed', k, 0)
      BY <1>2, <2>5, <3>2, <3>5
    <3> QED
      BY <2>6, <2>8, <3>6 DEF InSection
  <2>9. CASE ~ (n - a > 1)
    <3>1. k = n
      BY <1>2, <1>3, <1>4, <2>9
    <3>2. InInstrumentCount(kept, pos', parsed')
      BY <1>2, <2>4, <2>5, <3>1 DEF InInstrumentCount, InstrumentCountAt
    <3>3. section' = "instrument_count"
      BY <2>6, <2>9
    <3> QED
      BY <3>2, <3>3 DEF InSection
  <2> QED
    BY <2>8, <2>9
<1> QED
  BY <1>11, <1>12, <1>13, <1>14

-----------------------------------------------------------------------------
(* Six channels are guessed where there are six.                           *)

\* Orderlist after orderlist, each at the end of the one before.
Walks(ends, p, m) == ends[0] = p /\ \A k \in 1 .. m : ends[k] = OrderEnd(ends[k - 1])

LEMMA OrderEndTyped ==
  ASSUME file \in Seq(Nat), NEW p \in Nat
  PROVE  OrderEnd(p) \in Nat
<1>1. CASE p \notin 1 .. Len(file)
  BY <1>1 DEF OrderEnd
<1>2. CASE p \in 1 .. Len(file)
  <2>1. PICK n : n = file[p]
    OBVIOUS
  <2>2. n \in Nat
    BY <1>2, <2>1
  <2>3. PICK fits : fits = (n >= 1 /\ p + n + 1 <= Len(file) /\ file[p + n] = LOOPSONG /\ file[p + n + 1] <= n)
    OBVIOUS
  <2>4. OrderEnd(p) = IF fits THEN p + n + 2 ELSE 0
    BY <1>2, <2>1, <2>3 DEF OrderEnd
  <2>5. p + n + 2 \in Nat
    BY <2>2
  <2> QED
    BY <2>4, <2>5
<1> QED
  BY <1>1, <1>2

LEMMA GuessIs ==
  ASSUME file \in Seq(Nat), NEW p \in Nat, NEW n \in Nat
  PROVE  \E ends : Walks(ends, p, 6 * n) /\ Channels(p, n) = IF ends[6 * n] = 0 THEN 3 ELSE 6
<1> DEFINE m == 6 * n
           Is(f) == f = [k \in 0 .. 6 * n |-> IF k = 0 THEN p ELSE OrderEnd(f[k - 1])]
           ends == CHOOSE f : Is(f)
<1>1. m \in Nat
  OBVIOUS
<1>2. Channels(p, n) = IF ends[6 * n] = 0 THEN 3 ELSE 6
  BY DEF Channels
<1>3. \E f : Is(f)
  <2> DEFINE g == [e \in (1 .. m) \X Nat |-> OrderEnd(e[2])]
  <2>1. g \in [(1 .. m) \X Nat -> Nat]
    <3> HIDE DEF m
    <3>1. ASSUME NEW e \in (1 .. m) \X Nat PROVE OrderEnd(e[2]) \in Nat
      <4>1. e[2] \in Nat
        OBVIOUS
      <4> QED
        BY <4>1, OrderEndTyped
    <3> QED
      BY <3>1
  <2>2. PICK f \in [0 .. m -> Nat] : Steps(f, p, g, m)
    <3> HIDE DEF g, m
    <3> QED
      BY <1>1, <2>1, StepsExist
  <2>3. ASSUME NEW k \in 0 .. m
        PROVE  f[k] = IF k = 0 THEN p ELSE OrderEnd(f[k - 1])
    <3>1. f[k] = IF k = 0 THEN p ELSE g[<<k, f[k - 1]>>]
      BY <2>2 DEF Steps
    <3>2. k # 0 => k \in 1 .. m /\ f[k - 1] \in Nat
      <4> HIDE DEF g, m
      <4> QED
        BY <1>1, <2>2
    <3>3. k # 0 => g[<<k, f[k - 1]>>] = OrderEnd(f[k - 1])
      <4> HIDE DEF m
      <4> QED
        BY <3>2
    <3> QED
      BY <3>1, <3>3
  <2>4. Is(f)
    <3> HIDE DEF g
    <3> QED
      BY <2>2, <2>3
  <2> QED
    BY <2>4
<1>4. Is(ends)
  <2> HIDE DEF Is
  <2> QED
    BY <1>3
<1>5. Walks(ends, p, 6 * n)
  <2> HIDE DEF ends
  <2>1. ends[0] = p
    <3>1. 0 \in 0 .. 6 * n
      OBVIOUS
    <3> QED
      BY <1>4, <3>1
  <2>2. ASSUME NEW k \in 1 .. 6 * n PROVE ends[k] = OrderEnd(ends[k - 1])
    <3>1. k \in 0 .. 6 * n /\ k # 0
      OBVIOUS
    <3> QED
      BY <1>4, <3>1
  <2> QED
    BY <2>1, <2>2 DEF Walks
<1> HIDE DEF ends
<1> QED
  BY <1>2, <1>5

LEMMA OrderEndIs ==
  ASSUME file \in Seq(Nat), NEW p \in Nat \ {0}, NEW o \in Orderlist,
         o.restart < Len(o.entries), Holds(file, p, OrderStored(o))
  PROVE  OrderEnd(p) = p + Len(OrderStored(o)) /\ p + Len(OrderStored(o)) \in Nat \ {0}
<1>1. PICK item, n, l : item = OrderStored(o) /\ n = Len(o.entries) /\ l = Len(file)
  OBVIOUS
<1>2. n \in Nat /\ l \in Nat /\ o.restart \in Nat
  <2>1. o.entries \in Seq(Byte \ {LOOPSONG}) /\ o.restart \in Byte
    BY DEF Orderlist
  <2>2. n \in Nat
    BY <1>1, <2>1
  <2>3. o.restart \in Nat
    <3>1. PICK r : r = o.restart
      OBVIOUS
    <3>2. r \in Byte
      BY <2>1, <3>1
    <3>3. r \in Nat
      BY <3>2 DEF Byte
    <3> QED
      BY <3>1, <3>3
  <2> QED
    BY <1>1, <2>2, <2>3
<1>3. /\ Len(item) = n + 3 /\ item[1] = n + 1 /\ item[n + 2] = LOOPSONG /\ item[n + 3] = o.restart
  BY <1>1, OrderStoredIs DEF OrderBytes
<1>4. p + (n + 3) - 1 <= l /\ \A j \in 1 .. n + 3 : file[p + j - 1] = item[j]
  BY <1>1, <1>3 DEF Holds
<1>5. p \in 1 .. l /\ file[p] = n + 1
  <2>1. 1 \in 1 .. n + 3 /\ p + 1 - 1 = p
    BY <1>2
  <2>2. file[p + 1 - 1] = item[1]
    BY <1>4, <2>1
  <2>3. p \in 1 .. l
    BY <1>2, <1>4
  <2> QED
    BY <1>3, <2>1, <2>2, <2>3
<1>6. file[p + (n + 1)] = LOOPSONG
  <2>1. n + 2 \in 1 .. n + 3 /\ p + (n + 2) - 1 = p + (n + 1)
    BY <1>2
  <2>2. file[p + (n + 2) - 1] = item[n + 2]
    BY <1>4, <2>1
  <2> QED
    BY <1>3, <2>1, <2>2
<1>7. file[p + (n + 1) + 1] = o.restart
  <2>1. n + 3 \in 1 .. n + 3 /\ p + (n + 3) - 1 = p + (n + 1) + 1
    BY <1>2
  <2>2. file[p + (n + 3) - 1] = item[n + 3]
    BY <1>4, <2>1
  <2> QED
    BY <1>3, <2>1, <2>2
<1>8. PICK q : q = n + 1
  OBVIOUS
<1>9. q >= 1 /\ p + q + 1 <= l /\ o.restart <= q /\ p + q + 2 = p + (n + 3) /\ p + (n + 3) \in Nat \ {0}
  <2>1. q >= 1 /\ p + q + 2 = p + (n + 3) /\ p + (n + 3) \in Nat \ {0}
    BY <1>2, <1>8
  <2>2. p + q + 1 <= l
    BY <1>2, <1>4, <1>8
  <2>3. o.restart <= q
    <3>1. PICK r : r = o.restart
      OBVIOUS
    <3>2. r \in Nat /\ r < n
      BY <1>1, <1>2, <3>1
    <3>3. r <= q
      BY <1>2, <1>8, <3>2
    <3> QED
      BY <3>1, <3>3
  <2> QED
    BY <2>1, <2>2, <2>3
<1>10. OrderEnd(p) = p + q + 2
  <2>1. file[p] = q /\ file[p + q] = LOOPSONG /\ file[p + q + 1] = o.restart
    BY <1>5, <1>6, <1>7, <1>8
  <2> QED
    BY <1>1, <1>5, <1>9, <2>1 DEF OrderEnd
<1> QED
  BY <1>1, <1>3, <1>9, <1>10

LEMMA RestartsFit ==
  ASSUME NEW song, Shown(song), NEW k \in 1 .. Len(song.subtunes), NEW s, s = song.subtunes[k],
         NEW c \in 1 .. Len(s)
  PROVE  s[c].restart < Len(s[c].entries)
<1>1. PICK t : t = song.subtunes
  OBVIOUS
<1>2. \A x \in Range(t) : \A o \in Range(x) : OrderValid(o, song)
  BY <1>1 DEF Shown, Valid
<1>3. t \in Seq(Seq(Orderlist)) /\ k \in 1 .. Len(t) /\ s = t[k]
  BY <1>1 DEF Shown, Shaped, SongSet
<1>4. DOMAIN t = 1 .. Len(t) /\ s \in Seq(Orderlist)
  BY <1>3
<1>5. s \in Range(t)
  BY <1>3, <1>4 DEF Range
<1>6. DOMAIN s = 1 .. Len(s)
  BY <1>4
<1>7. s[c] \in Range(s)
  BY <1>6 DEF Range
<1>8. OrderValid(s[c], song)
  BY <1>2, <1>5, <1>7
<1> QED
  BY <1>8 DEF OrderValid

\* A walk that is at an orderlist goes on to the next.
LEMMA WalkHops ==
  ASSUME NEW song, Shown(song), file = Stored(song), NEW a \in 0 .. Len(song.subtunes) - 1,
         NEW s, s = song.subtunes[a + 1], NEW c \in 0 .. Len(s) - 1
  PROVE  OrderEnd(OrderAt(song, a, c)) = OrderAt(song, a, c + 1)
<1>1. PICK p, o : p = OrderAt(song, a, c) /\ o = s[c + 1]
  OBVIOUS
<1>2. /\ p \in Nat \ {0} /\ Holds(file, p, OrderStored(o)) /\ p + Len(OrderStored(o)) = OrderAt(song, a, c + 1)
      /\ o \in Orderlist
  BY <1>1, OrderThere, SMTT(30)
<1>3. o.restart < Len(o.entries)
  <2>1. PICK k, e, l : k = a + 1 /\ e = c + 1 /\ l = Len(s)
    OBVIOUS
  <2>2. l \in {3, 6}
    BY <2>1, OrderThere
  <2>3. e \in 1 .. l
    BY <2>1, <2>2
  <2>4. k \in 1 .. Len(song.subtunes)
    <3>1. PICK n : n = Len(song.subtunes)
      OBVIOUS
    <3>2. n \in 1 .. MAX_SONGS
      BY <3>1, SectionsFit
    <3>3. k \in 1 .. n
      BY <2>1, <3>1, <3>2 DEF MAX_SONGS
    <3> QED
      BY <3>1, <3>3
  <2>5. e \in 1 .. Len(s) /\ s = song.subtunes[k]
    BY <2>1, <2>3
  <2>6. s[e].restart < Len(s[e].entries)
    BY <2>4, <2>5, RestartsFit
  <2> QED
    BY <1>1, <2>1, <2>6
<1>4. file \in Seq(Nat)
  BY Layout
<1>5. OrderEnd(p) = p + Len(OrderStored(o))
  BY <1>2, <1>3, <1>4, OrderEndIs
<1> QED
  BY <1>1, <1>2, <1>5

\* A whole file's song of six channels is taken for one (reader.py: determine_channels).
LEMMA SixGuessed ==
  ASSUME NEW song, Shown(song), file = Stored(song), Len(song.subtunes[1]) = 6
  PROVE  Channels(OrdersAt, Len(song.subtunes)) = 6
<1>1. PICK n, p, off : n = Len(song.subtunes) /\ p = OrdersAt /\ off = Off(SubtuneSeqs(song))
  OBVIOUS
<1>2. n \in 1 .. MAX_SONGS /\ n \in Nat
  <2>1. n \in 1 .. MAX_SONGS
    BY <1>1, SectionsFit
  <2> QED
    BY <2>1 DEF MAX_SONGS
<1>3. file \in Seq(Nat) /\ p \in Nat /\ p + off[n] \in Nat \ {0}
  <2>1. Stored(song) \in Seq(Nat) /\ OrdersAt \in Nat \ {0} /\ InstrumentCountAt(song) \in Nat \ {0}
    BY Layout
  <2>2. InstrumentCountAt(song) = p + off[n]
    BY <1>1 DEF InstrumentCountAt
  <2> QED
    BY <1>1, <2>1, <2>2
<1>4. PICK ends : Walks(ends, p, 6 * n) /\ Channels(p, n) = IF ends[6 * n] = 0 THEN 3 ELSE 6
  BY <1>2, <1>3, GuessIs
<1>5. off[0] = 0
  <2>1. SubtuneSeqs(song) \in Seq(Seq(Nat))
    BY SubtuneSeqsTyped DEF Shown
  <2> QED
    BY <1>1, <2>1, OffIs
<1>6. ends[0] = p + off[0]
  <2>1. p + 0 = p
    BY <1>3
  <2> QED
    BY <1>4, <1>5, <2>1 DEF Walks
<1>7. ASSUME NEW a \in 0 .. n - 1, ends[6 * a] = p + off[a]
      PROVE  ends[6 * (a + 1)] = p + off[a + 1]
  <2>1. PICK s : s = song.subtunes[a + 1]
    OBVIOUS
  <2>2. a \in 0 .. Len(song.subtunes) - 1
    BY <1>1
  <2>3. /\ OrderAt(song, a, 0) = p + off[a] /\ OrderAt(song, a, 6) = p + off[a + 1] /\ Len(s) = 6
    <3>1. Len(s) = 6
      BY <2>1, <2>2, OrderThere
    <3>2. OrderAt(song, a, Len(s)) = OrdersAt + Off(SubtuneSeqs(song))[a + 1]
      BY <2>1, <2>2, OrderThere
    <3>3. OrderAt(song, a, 0) = OrdersAt + Off(SubtuneSeqs(song))[a]
      BY <2>1, <2>2, OrderThere
    <3> QED
      BY <1>1, <3>1, <3>2, <3>3
  <2>4. PICK b : b = 6 * a
    OBVIOUS
  <2>5. b \in Nat /\ b + 6 <= 6 * n /\ 6 * (a + 1) = b + 6
    BY <1>2, <2>4
  <2>6. ASSUME NEW c \in 0 .. 5, ends[b + c] = OrderAt(song, a, c)
        PROVE  ends[b + (c + 1)] = OrderAt(song, a, c + 1)
    <3>1. PICK k : k = b + (c + 1)
      OBVIOUS
    <3>2. k \in 1 .. 6 * n /\ k - 1 = b + c
      BY <1>2, <2>5, <3>1
    <3>3. ends[k] = OrderEnd(ends[b + c])
      BY <1>4, <3>2 DEF Walks
    <3>4. OrderEnd(OrderAt(song, a, c)) = OrderAt(song, a, c + 1)
      <4>1. c \in 0 .. Len(s) - 1
        BY <2>3
      <4> QED
        BY <2>1, <2>2, <4>1, WalkHops
    <3> QED
      BY <2>6, <3>1, <3>3, <3>4
  <2>7. ends[b + 0] = OrderAt(song, a, 0)
    <3>1. b + 0 = b
      BY <2>5
    <3> QED
      BY <1>7, <2>3, <2>4, <3>1
  <2>8. ends[b + 1] = OrderAt(song, a, 1)
    BY <2>6, <2>7
  <2>9. ends[b + 2] = OrderAt(song, a, 2)
    BY <2>6, <2>8
  <2>10. ends[b + 3] = OrderAt(song, a, 3)
    BY <2>6, <2>9
  <2>11. ends[b + 4] = OrderAt(song, a, 4)
    BY <2>6, <2>10
  <2>12. ends[b + 5] = OrderAt(song, a, 5)
    BY <2>6, <2>11
  <2>13. ends[b + 6] = OrderAt(song, a, 6)
    BY <2>6, <2>12
  <2> QED
    BY <2>3, <2>5, <2>13
<1>8. ends[6 * n] = p + off[n]
  <2> DEFINE Bad == {a \in 0 .. n : ends[6 * a] # p + off[a]}
  <2>1. Bad = {}
    <3> SUFFICES ASSUME Bad # {} PROVE FALSE
      OBVIOUS
    <3>1. Bad \subseteq Nat
      BY <1>2
    <3>2. PICK a \in Bad : \A y \in Bad : a <= y
      <4> HIDE DEF Bad
      <4> QED
        BY <3>1, LeastOf
    <3>3. a \in 0 .. n /\ ends[6 * a] # p + off[a]
      OBVIOUS
    <3>4. CASE a = 0
      <4>1. 6 * a = 0
        BY <3>4
      <4> QED
        BY <1>6, <3>3, <3>4, <4>1
    <3>5. CASE a # 0
      <4>1. PICK b : b = a - 1
        OBVIOUS
      <4>2. b \in 0 .. n /\ b \in 0 .. n - 1 /\ a = b + 1 /\ ~ (a <= b)
        BY <1>2, <3>3, <3>5, <4>1
      <4>3. b \notin Bad
        <5> HIDE DEF Bad
        <5> QED
          BY <3>2, <4>2
      <4>4. ends[6 * b] = p + off[b]
        BY <4>2, <4>3
      <4>5. ends[6 * (b + 1)] = p + off[b + 1]
        BY <1>7, <4>2, <4>4
      <4> QED
        BY <3>3, <4>2, <4>5
    <3> QED
      BY <3>4, <3>5
  <2>2. n \in 0 .. n
    BY <1>2
  <2> QED
    BY <2>1, <2>2
<1>9. Channels(p, n) = 6
  <2>1. ends[6 * n] # 0
    BY <1>3, <1>8
  <2> QED
    BY <1>4, <2>1
<1> QED
  BY <1>1, <1>9

\* Past the header the number of channels stays what it was taken for.
SameChans == IsPart(parsed') /\ parsed'.chans = parsed.chans /\ section' \notin {"none", "header"}

LEMMA PartChans ==
  ASSUME NEW q, NEW song, NEW left, NEW chans, NEW lists, q = Part(song, left, chans, lists)
  PROVE  IsPart(q) /\ q.chans = chans
<1>1. q.chans = chans
  BY DEF Part
<1> QED
  BY <1>1 DEF IsPart

LEMMA ChansKept ==
  ASSUME IsPart(parsed), section \notin {"none", "header"}, Read
  PROVE  SameChans
<1>1. PICK song, left, chans, lists : parsed = Part(song, left, chans, lists)
  BY DEF IsPart
<1>2. parsed.chans = chans
  BY <1>1, PartFields
<1>3. ASSUME NEW q, NEW next, NEW after, NEW s, NEW l, NEW t, q = Part(s, l, chans, t),
             after \notin {"none", "header"}, Go(next, after, q)
      PROVE  SameChans
  <2>1. IsPart(q) /\ q.chans = chans
    BY <1>3, PartChans
  <2>2. parsed' = q /\ section' = after
    BY <1>3 DEF Go
  <2> QED
    BY <1>2, <1>3, <2>1, <2>2 DEF SameChans
<1>4. ASSUME Refuse PROVE SameChans
  <2>1. parsed' = parsed /\ section' = "refused"
    BY <1>4 DEF Refuse
  <2> QED
    BY <2>1 DEF SameChans
<1>5. ~ ReadHeader
  BY DEF ReadHeader, Reading
<1>6. ASSUME NEW what, NEW low, NEW high, NEW items, NEW after, ReadCount(what, low, high, items, after),
             items \notin {"none", "header"}, after \notin {"none", "header"}
      PROVE  SameChans
  <2>1. PICK n, next : n = file[pos] /\ next = pos + 1
    OBVIOUS
  <2>2. Refuse \/ Go(next, IF n = 0 THEN after ELSE items, [parsed EXCEPT !.left = n])
    BY <1>6, <2>1 DEF ReadCount
  <2>3. [parsed EXCEPT !.left = n] = Part(song, n, chans, lists)
    BY <1>1, PartLeft
  <2>4. PICK q, to : q = [parsed EXCEPT !.left = n] /\ to = IF n = 0 THEN after ELSE items
    OBVIOUS
  <2>5. to \notin {"none", "header"}
    BY <1>6, <2>4
  <2>6. Refuse \/ Go(next, to, q)
    BY <2>2, <2>4
  <2>7. q = Part(song, n, chans, lists)
    BY <2>3, <2>4
  <2> QED
    BY <1>3, <1>4, <2>5, <2>6, <2>7
<1>7. ASSUME ReadInstruments PROVE SameChans
  BY <1>6, <1>7 DEF ReadInstruments
<1>8. ASSUME ReadPatterns PROVE SameChans
  BY <1>6, <1>8 DEF ReadPatterns
<1>9. ASSUME ReadInstrument PROVE SameChans
  <2>1. PICK item, next, to :
          Refuse \/ /\ Go(next, to, [Put("instruments", item) EXCEPT !.left = @ - 1])
                    /\ to \notin {"none", "header"}
    <3>1. PICK item, next, to :
            /\ item = [params |-> SubSeq(file, pos, pos + 8), name |-> StringAt(pos + 9)]
            /\ next = pos + 9 + NameLen
            /\ to = IF parsed.left > 1 THEN "instruments" ELSE "tables"
      OBVIOUS
    <3>2. Refuse \/ Go(next, to, [Put("instruments", item) EXCEPT !.left = @ - 1])
      BY <1>9, <3>1 DEF ReadInstrument
    <3>3. to \notin {"none", "header"}
      BY <3>1
    <3> QED
      BY <3>2, <3>3
  <2>2. PICK r, s : r = Put("instruments", item) /\ s = WithInstrument(song, item)
    OBVIOUS
  <2>3. r = Part(s, left, chans, lists)
    BY <1>1, <2>2, PutInstrument
  <2>4. PICK q : q = [r EXCEPT !.left = @ - 1]
    OBVIOUS
  <2>5. q = Part(s, left - 1, chans, lists)
    BY <2>3, <2>4, PartLess
  <2>6. Refuse \/ (Go(next, to, q) /\ to \notin {"none", "header"})
    BY <2>1, <2>2, <2>4
  <2> QED
    BY <1>3, <1>4, <2>5, <2>6
<1>10. ASSUME ReadTable PROVE SameChans
  <2>1. PICK item, next, to :
          Refuse \/ (Go(next, to, Put("tables", item)) /\ to \notin {"none", "header"})
    BY <1>10 DEF ReadTable
  <2>2. PICK r, s : r = Put("tables", item) /\ s = WithTable(song, item)
    OBVIOUS
  <2>3. r = Part(s, left, chans, lists)
    BY <1>1, <2>2, PutTable
  <2>4. Refuse \/ (Go(next, to, r) /\ to \notin {"none", "header"})
    BY <2>1, <2>2
  <2> QED
    BY <1>3, <1>4, <2>3, <2>4
<1>11. ASSUME ReadPattern PROVE SameChans
  <2>1. PICK item, next, to :
          Refuse \/ /\ Go(next, to, [Put("patterns", item) EXCEPT !.left = @ - 1])
                    /\ to \notin {"none", "header"}
    <3>1. PICK n : n = IF Has(1) THEN file[pos] ELSE 0
      OBVIOUS
    <3>2. PICK item, next, to :
            /\ item = [k \in 1 .. n - 1 |-> SubSeq(file, pos + 4 * k - 3, pos + 4 * k)]
            /\ next = pos + 1 + 4 * n
            /\ to = IF parsed.left > 1 THEN "patterns" ELSE "end"
      OBVIOUS
    <3>3. Refuse \/ Go(next, to, [Put("patterns", item) EXCEPT !.left = @ - 1])
      BY <1>11, <3>1, <3>2 DEF ReadPattern
    <3>4. to \notin {"none", "header"}
      BY <3>2
    <3> QED
      BY <3>3, <3>4
  <2>2. PICK r, s : r = Put("patterns", item) /\ s = WithPattern(song, item)
    OBVIOUS
  <2>3. r = Part(s, left, chans, lists)
    BY <1>1, <2>2, PutPattern
  <2>4. PICK q : q = [r EXCEPT !.left = @ - 1]
    OBVIOUS
  <2>5. q = Part(s, left - 1, chans, lists)
    BY <2>3, <2>4, PartLess
  <2>6. Refuse \/ (Go(next, to, q) /\ to \notin {"none", "header"})
    BY <2>1, <2>2, <2>4
  <2> QED
    BY <1>3, <1>4, <2>5, <2>6
<1>12. ASSUME ReadEnd PROVE SameChans
  <2>1. Refuse \/ Go(pos, "read", parsed)
    BY <1>12 DEF ReadEnd
  <2> QED
    BY <1>1, <1>3, <1>4, <2>1
<1>13. ASSUME ReadOrderlist PROVE SameChans
  <2>1. PICK item, next, to :
          \/ Refuse
          \/ Go(next, "orders", [parsed EXCEPT !.lists = item])
          \/ /\ Go(next, to, [Put("subtunes", item) EXCEPT !.lists = <<>>, !.left = @ - 1])
             /\ to \notin {"none", "header"}
    <3>1. PICK n : n = IF Has(1) THEN file[pos] ELSE 0
      OBVIOUS
    <3>2. PICK item, next, to :
            /\ item = Append(parsed.lists, [entries |-> SubSeq(file, pos + 1, pos + n - 1),
                                            restart |-> file[pos + n + 1]])
            /\ next = pos + n + 2
            /\ to = IF parsed.left > 1 THEN "orders" ELSE "instrument_count"
      OBVIOUS
    <3>3. \/ Refuse
          \/ Go(next, "orders", [parsed EXCEPT !.lists = item])
          \/ Go(next, to, [Put("subtunes", item) EXCEPT !.lists = <<>>, !.left = @ - 1])
      BY <1>13, <3>1, <3>2 DEF ReadOrderlist
    <3>4. to \notin {"none", "header"}
      BY <3>2
    <3> QED
      BY <3>3, <3>4
  <2>2. ASSUME Go(next, "orders", [parsed EXCEPT !.lists = item]) PROVE SameChans
    <3>1. PICK q : q = [parsed EXCEPT !.lists = item]
      OBVIOUS
    <3>2. q = Part(song, left, chans, item)
      BY <1>1, <3>1, PartLists
    <3>3. Go(next, "orders", q)
      BY <2>2, <3>1
    <3> QED
      BY <1>3, <3>2, <3>3
  <2>3. ASSUME Go(next, to, [Put("subtunes", item) EXCEPT !.lists = <<>>, !.left = @ - 1]),
               to \notin {"none", "header"}
        PROVE  SameChans
    <3>1. PICK r, s : r = Put("subtunes", item) /\ s = WithSubtune(song, item)
      OBVIOUS
    <3>2. r = Part(s, left, chans, lists)
      BY <1>1, <3>1, PutSubtune
    <3>3. PICK u : u = [r EXCEPT !.lists = <<>>]
      OBVIOUS
    <3>4. u = Part(s, left, chans, <<>>)
      BY <3>2, <3>3, PartLists
    <3>5. PICK l, q : l = r.left - 1 /\ q = [u EXCEPT !.left = l]
      OBVIOUS
    <3>6. q = Part(s, l, chans, <<>>)
      BY <3>4, <3>5, PartLeft
    <3>7. [r EXCEPT !.lists = <<>>, !.left = @ - 1] = [[r EXCEPT !.lists = <<>>] EXCEPT !.left = r.left - 1]
      OBVIOUS
    <3>8. [[r EXCEPT !.lists = <<>>] EXCEPT !.left = r.left - 1] = q
      BY <3>3, <3>5
    <3>9. parsed' = [Put("subtunes", item) EXCEPT !.lists = <<>>, !.left = @ - 1]
          /\ pos' = next /\ section' = to
      BY <2>3 DEF Go
    <3>10. parsed' = [r EXCEPT !.lists = <<>>, !.left = @ - 1]
      BY <3>1, <3>9
    <3>11. Go(next, to, q)
      BY <3>7, <3>8, <3>9, <3>10 DEF Go
    <3> QED
      BY <1>3, <2>3, <3>6, <3>11
  <2> QED
    BY <1>4, <2>1, <2>2, <2>3
<1> QED
  BY <1>5, <1>7, <1>8, <1>9, <1>10, <1>11, <1>12, <1>13 DEF Read

-----------------------------------------------------------------------------
(* What is written is read.                                                *)

\* The channels were taken right: the guess is right, or the file is whole and has six.
Guessed ==
  \/ parsed.chans = Len(kept.subtunes[1])
  \/ whole /\ Len(kept.subtunes[1]) = 6

\* What the reader has is the song up to where it is, or the channels were taken wrong;
\* of a whole file's six channels they never are.
ReadWell ==
  /\ IsPart(parsed)
  /\ section # "none" => Shown(kept) /\ Agrees
  /\ section \notin {"none", "header"} /\ whole /\ Len(kept.subtunes[1]) = 6 => parsed.chans = 6
  /\ \/ InSection(section, kept, pos, parsed)
     \/ section \notin {"none", "header"} /\ parsed.chans # Len(kept.subtunes[1])

LEMMA InitRead ==
  ASSUME FileInit
  PROVE  ReadWell
<1>1. section = "none" /\ parsed = Part(Empty, 0, 0, <<>>)
  BY DEF FileInit, Part
<1>2. IsPart(parsed)
  BY <1>1 DEF IsPart
<1>3. InSection(section, kept, pos, parsed)
  BY <1>1 DEF InSection
<1> QED
  BY <1>1, <1>2, <1>3 DEF ReadWell

LEMMA WriteRead ==
  ASSUME ReadWell, NEW song, Shaped(song), Write(song)
  PROVE  ReadWell'
<1>1. /\ kept' = song /\ file' = Stored(song) /\ whole' = TRUE /\ section' = "header" /\ pos' = 1
      /\ parsed' = parsed /\ Shown(song)
  BY DEF Write, Shown
<1>2. IsPart(parsed)'
  BY <1>1 DEF ReadWell
<1>3. Shown(kept)'
  BY <1>1
<1>4. Agrees'
  <2>1. Stored(song) \in Seq(Nat)
    BY <1>1, Layout
  <2>2. file' \in Seq(Nat) /\ file' = Stored(kept') /\ Stored(kept') = Stored(song)
    BY <1>1, <2>1
  <2>3. \A i \in 1 .. Len(file') : i <= Len(Stored(kept')) => file'[i] = Stored(kept')[i]
    BY <2>2
  <2> QED
    BY <1>1, <2>2, <2>3 DEF Agrees
<1>5. InSection(section, kept, pos, parsed)'
  BY <1>1 DEF InSection
<1> QED
  BY <1>1, <1>2, <1>3, <1>4, <1>5 DEF ReadWell

LEMMA CutAgrees ==
  ASSUME NEW f \in Seq(Nat), NEW n \in 1 .. Len(f) - 1
  PROVE  /\ SubSeq(f, 1, n) \in Seq(Nat) /\ Len(SubSeq(f, 1, n)) # Len(f)
         /\ \A i \in 1 .. Len(SubSeq(f, 1, n)) : i <= Len(f) => SubSeq(f, 1, n)[i] = f[i]
<1>1. Len(f) \in Nat
  OBVIOUS
<1>2. n \in Nat /\ n < Len(f) /\ n <= Len(f)
  BY <1>1
<1>3. /\ SubSeq(f, 1, n) \in Seq(Nat) /\ Len(SubSeq(f, 1, n)) = n
      /\ \A i \in 1 .. n : SubSeq(f, 1, n)[i] = f[i]
  BY <1>1, <1>2
<1> QED
  BY <1>1, <1>2, <1>3

LEMMA GrownAgrees ==
  ASSUME NEW f \in Seq(Nat), NEW b \in Nat
  PROVE  /\ Append(f, b) \in Seq(Nat) /\ Len(Append(f, b)) # Len(f)
         /\ \A i \in 1 .. Len(Append(f, b)) : i <= Len(f) => Append(f, b)[i] = f[i]
<1>1. Len(f) \in Nat
  OBVIOUS
<1>2. /\ Append(f, b) \in Seq(Nat) /\ Len(Append(f, b)) = Len(f) + 1
      /\ \A i \in 1 .. Len(f) : Append(f, b)[i] = f[i]
  BY <1>1
<1>3. Len(f) + 1 # Len(f)
  BY <1>1
<1> QED
  BY <1>1, <1>2, <1>3

LEMMA DamageRead ==
  ASSUME ReadWell, Damage
  PROVE  ReadWell'
<1>1. /\ section = "header" /\ whole /\ whole' = FALSE /\ kept' = kept /\ section' = section
      /\ pos' = pos /\ parsed' = parsed
  BY DEF Damage
<1>2. IsPart(parsed) /\ Shown(kept) /\ Agrees /\ InSection(section, kept, pos, parsed)
  BY <1>1 DEF ReadWell
<1>3. file = Stored(kept) /\ file \in Seq(Nat)
  BY <1>1, <1>2 DEF Agrees
<1>4. /\ file' \in Seq(Nat) /\ Len(file') # Len(file)
      /\ \A i \in 1 .. Len(file') : i <= Len(file) => file'[i] = file[i]
  <2>1. \/ \E n \in 1 .. Len(file) - 1 : file' = SubSeq(file, 1, n)
        \/ \E b \in {0, 1, 255} : file' = Append(file, b)
    BY DEF Damage
  <2>2. PICK f, g : f = file /\ g = file'
    OBVIOUS
  <2>3. CASE \E n \in 1 .. Len(f) - 1 : g = SubSeq(f, 1, n)
    BY <1>3, <2>2, <2>3, CutAgrees
  <2>4. CASE \E b \in {0, 1, 255} : g = Append(f, b)
    BY <1>3, <2>2, <2>4, GrownAgrees
  <2> QED
    BY <2>1, <2>2, <2>3, <2>4
<1>5. Agrees'
  <2>1. Stored(kept') = Stored(kept)
    BY <1>1
  <2>2. PICK g, f : g = file' /\ f = file
    OBVIOUS
  <2>3. /\ g \in Seq(Nat) /\ Len(g) # Len(f) /\ f = Stored(kept')
        /\ \A i \in 1 .. Len(g) : i <= Len(f) => g[i] = f[i]
    BY <1>3, <1>4, <2>1, <2>2
  <2> QED
    BY <1>1, <2>2, <2>3 DEF Agrees
<1>6. Shown(kept)' /\ IsPart(parsed)'
  BY <1>1, <1>2
<1>7. InSection(section, kept, pos, parsed)'
  <2>1. pos = 1
    BY <1>1, <1>2 DEF InSection
  <2> QED
    BY <1>1, <2>1 DEF InSection
<1> QED
  BY <1>1, <1>5, <1>6, <1>7 DEF ReadWell

LEMMA StepRead ==
  ASSUME ReadWell, Read
  PROVE  ReadWell'
<1>1. kept' = kept /\ file' = file /\ whole' = whole /\ section # "none"
  BY DEF Read, ReadHeader, ReadOrderlist, ReadInstruments, ReadPatterns, ReadCount, ReadInstrument,
         ReadTable, ReadPattern, ReadEnd, Reading
<1>2. Shown(kept) /\ Agrees /\ IsPart(parsed)
  BY <1>1 DEF ReadWell
<1>3. Shown(kept)' /\ Agrees'
  <2>1. Shown(kept)'
    BY <1>1, <1>2
  <2>2. Agrees'
    BY <1>1, <1>2 DEF Agrees
  <2> QED
    BY <2>1, <2>2
<1>4. ASSUME InSection(section', kept, pos', parsed') PROVE InSection(section, kept, pos, parsed)'
  BY <1>1, <1>4 DEF InSection
<1>5. CASE section = "header"
  <2>1. ReadHeader /\ InSection(section, kept, pos, parsed)
    BY <1>5 DEF ReadWell, Read, ReadOrderlist, ReadInstruments, ReadPatterns, ReadCount,
         ReadInstrument, ReadTable, ReadPattern, ReadEnd, Reading
  <2>2. /\ InSection(section', kept, pos', parsed')
        /\ \/ section' = "refused" /\ ~ whole
           \/ /\ section' = "orders" /\ IsPart(parsed')
              /\ parsed'.chans = Channels(OrdersAt, Len(kept.subtunes))
    BY <1>2, <1>5, <2>1, HeaderStep
  <2>3. InSection(section, kept, pos, parsed)'
    BY <1>4, <2>2
  <2>4. CASE section' = "refused" /\ ~ whole
    <3>1. IsPart(parsed)'
      <4>1. parsed' = parsed
        BY <2>1, <2>4 DEF ReadHeader, Go, Refuse
      <4> QED
        BY <1>2, <4>1
    <3> QED
      BY <1>1, <1>3, <2>3, <2>4, <3>1 DEF ReadWell
  <2>5. CASE /\ section' = "orders" /\ IsPart(parsed')
             /\ parsed'.chans = Channels(OrdersAt, Len(kept.subtunes))
    <3>1. whole /\ Len(kept.subtunes[1]) = 6 => parsed'.chans = 6
      <4>1. whole => file = Stored(kept)
        BY <1>2 DEF Agrees
      <4> QED
        BY <1>2, <2>5, <4>1, SixGuessed
    <3>2. IsPart(parsed)'
      BY <2>5
    <3> QED
      BY <1>1, <1>3, <2>3, <3>1, <3>2 DEF ReadWell
  <2> QED
    BY <2>2, <2>4, <2>5
<1>6. CASE section # "header"
  <2>1. SameChans
    BY <1>1, <1>2, <1>6, ChansKept
  <2>2. /\ IsPart(parsed)' /\ parsed'.chans = parsed.chans /\ section' \notin {"none", "header"}
    BY <2>1 DEF SameChans
  <2>3. whole /\ Len(kept.subtunes[1]) = 6 => parsed'.chans = 6
    BY <1>1, <1>6, <2>2 DEF ReadWell
  <2>4. CASE parsed.chans = Len(kept.subtunes[1])
    <3>1. InSection(section, kept, pos, parsed)
      BY <2>4 DEF ReadWell
    <3>2. ~ ReadHeader
      BY <1>6 DEF ReadHeader, Reading
    <3>3. ASSUME ReadOrderlist PROVE InSection(section', kept, pos', parsed')
      <4>1. section = "orders"
        BY <3>3 DEF ReadOrderlist, Reading
      <4> QED
        BY <1>2, <2>4, <3>1, <3>3, <4>1, OrderStep
    <3>4. ASSUME ReadInstruments PROVE InSection(section', kept, pos', parsed')
      <4>1. section = "instrument_count"
        BY <3>4 DEF ReadInstruments, ReadCount, Reading
      <4> QED
        BY <1>2, <3>1, <3>4, <4>1, InstrumentCountStep
    <3>5. ASSUME ReadInstrument PROVE InSection(section', kept, pos', parsed')
      <4>1. section = "instruments"
        BY <3>5 DEF ReadInstrument, Reading
      <4> QED
        BY <1>2, <3>1, <3>5, <4>1, InstrumentStep
    <3>6. ASSUME ReadTable PROVE InSection(section', kept, pos', parsed')
      <4>1. section = "tables"
        BY <3>6 DEF ReadTable, Reading
      <4> QED
        BY <1>2, <3>1, <3>6, <4>1, TableStep
    <3>7. ASSUME ReadPatterns PROVE InSection(section', kept, pos', parsed')
      <4>1. section = "pattern_count"
        BY <3>7 DEF ReadPatterns, ReadCount, Reading
      <4> QED
        BY <1>2, <3>1, <3>7, <4>1, PatternCountStep
    <3>8. ASSUME ReadPattern PROVE InSection(section', kept, pos', parsed')
      <4>1. section = "patterns"
        BY <3>8 DEF ReadPattern, Reading
      <4> QED
        BY <1>2, <3>1, <3>8, <4>1, PatternStep
    <3>9. ASSUME ReadEnd PROVE InSection(section', kept, pos', parsed')
      <4>1. section = "end"
        BY <3>9 DEF ReadEnd, Reading
      <4> QED
        BY <1>2, <3>1, <3>9, <4>1, EndStep
    <3>10. InSection(section', kept, pos', parsed')
      BY <3>2, <3>3, <3>4, <3>5, <3>6, <3>7, <3>8, <3>9 DEF Read
    <3>11. InSection(section, kept, pos, parsed)'
      BY <1>4, <3>10
    <3> QED
      BY <1>1, <1>3, <2>2, <2>3, <3>11 DEF ReadWell
  <2>5. CASE parsed.chans # Len(kept.subtunes[1])
    <3>1. (parsed.chans # Len(kept.subtunes[1]))'
      BY <1>1, <2>2, <2>5
    <3> QED
      BY <1>1, <1>3, <2>2, <2>3, <3>1 DEF ReadWell
  <2> QED
    BY <2>4, <2>5
<1> QED
  BY <1>5, <1>6

LEMMA StillRead ==
  ASSUME ReadWell, UNCHANGED fileVars
  PROVE  ReadWell'
<1>1. /\ kept' = kept /\ file' = file /\ whole' = whole /\ section' = section /\ pos' = pos
      /\ parsed' = parsed
  BY DEF fileVars
<1>2. IsPart(parsed)' <=> IsPart(parsed)
  BY <1>1
<1>3. Shown(kept)' <=> Shown(kept)
  BY <1>1
<1>4. Agrees' <=> Agrees
  BY <1>1 DEF Agrees
<1>5. InSection(section, kept, pos, parsed) => InSection(section, kept, pos, parsed)'
  BY <1>1 DEF InSection
<1>6. /\ (parsed.chans # Len(kept.subtunes[1])) <=> (parsed.chans # Len(kept.subtunes[1]))'
      /\ (whole /\ Len(kept.subtunes[1]) = 6 => parsed.chans = 6)
           <=> (whole /\ Len(kept.subtunes[1]) = 6 => parsed.chans = 6)'
  BY <1>1
<1> QED
  BY <1>1, <1>2, <1>3, <1>4, <1>5, <1>6 DEF ReadWell

\* A song that is written is the song that is read, and a file that lost its end or gained
\* a byte is read as no song, for every song within the limits, every length of its parts
\* and every cut, where the channels are taken right; a whole file's six always are
\* (writer.py: build_sng; reader.py: parse_sng, determine_channels).
THEOREM WrittenIsRead ==
  ASSUME WithinLimits, \A song \in OwnSongs : Shaped(song)
  PROVE  Spec => [](Guessed => ReadsBack)
<1>1. Init => ReadWell
  BY InitRead DEF Init
<1>2. ReadWell /\ TInv /\ [Next]_vars => ReadWell'
  <2> SUFFICES ASSUME ReadWell, TInv, [Next]_vars PROVE ReadWell'
    OBVIOUS
  <2>1. ASSUME Import, UNCHANGED fileVars PROVE ReadWell'
    BY <2>1, StillRead
  <2>2. ASSUME WriteImported PROVE ReadWell'
    <3>1. Shaped(Imported) /\ Write(Imported)
      BY <2>2 DEF WriteImported, TInv
    <3>2. PICK song : song = Imported
      OBVIOUS
    <3> QED
      BY <3>1, <3>2, WriteRead
  <2>3. ASSUME WriteOwn PROVE ReadWell'
    <3>1. PICK song \in OwnSongs : Write(song)
      BY <2>3 DEF WriteOwn
    <3>2. Shaped(song)
      BY <3>1
    <3> QED
      BY <3>1, <3>2, WriteRead
  <2>4. ASSUME Damage PROVE ReadWell'
    BY <2>4, DamageRead
  <2>5. ASSUME Read PROVE ReadWell'
    BY <2>5, StepRead
  <2>6. ASSUME UNCHANGED vars PROVE ReadWell'
    <3>1. UNCHANGED fileVars
      BY <2>6 DEF vars
    <3> QED
      BY <3>1, StillRead
  <2> QED
    BY <2>1, <2>2, <2>3, <2>4, <2>5, <2>6 DEF Next
<1>3. ReadWell => (Guessed => ReadsBack)
  <2> SUFFICES ASSUME ReadWell, Guessed, section \in {"read", "refused"} PROVE ReadsBack
    BY DEF ReadsBack
  <2>1. parsed.chans = Len(kept.subtunes[1])
    BY DEF ReadWell, Guessed
  <2>2. InSection(section, kept, pos, parsed)
    BY <2>1 DEF ReadWell
  <2> QED
    BY <2>2 DEF InSection, ReadsBack
<1>4. Spec => []TInv
  BY TInvHolds
<1> QED
  BY <1>1, <1>2, <1>3, <1>4, PTL DEF Spec

=============================================================================
