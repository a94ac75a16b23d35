------------------------- MODULE TableProgramsProofs -------------------------
(***************************************************************************)
(* What is proved of TablePrograms, for every set of sources of bytes and  *)
(* every length of table: a stored program stays apart from the others,    *)
(* and a converted one plays what its walk of the source table plays.      *)
(*                                                                         *)
(* ProgramsPlaySame speaks of the first n steps heard from either table,   *)
(* for an n that goes twice round any loop. What is proved is more: a      *)
(* pairing of the two tables' rows, in which paired rows say the same and  *)
(* go on to paired rows. Each step of the conversion keeps one for the     *)
(* program being made; storing the program closes it.                      *)
(***************************************************************************)
EXTENDS TablePrograms, RecursionProofs, FiniteSetTheorems

Byte == 0 .. 255
Pair == Nat \X Nat

\* Rows that do not jump.
PlainRow == {r \in Pair : r[1] # TABLEJUMP}

\* A filter row that opens every band to every voice and to the external input:
\* its two nibbles make the byte of a jump (_filter_set).
Opens(row) == row[1] \in 240 .. 254 /\ row[2] % 16 = 15

\* What is converted is tables of bytes, as the reader gives them; no filter row
\* opens everything.
SourceOK(s) ==
  /\ s.kind \in {"wave", "pulse", "filter"}
  /\ s.table \in Seq(Byte \X Byte) /\ s.speeds \in Seq(Byte \X Byte)
  /\ s.asked \subseteq Nat \X Pair
  /\ s.kind = "filter" => \A p \in DOMAIN s.table : ~ Opens(s.table[p])

SourcesOK == \A s \in Sources : SourceOK(s)

\* The program at base ends at last, in its one jump: to 0 or back into itself.
EndsAt(t, base, last) ==
  /\ t[last][1] = TABLEJUMP
  /\ t[last][2] \in {0} \cup base .. last
  /\ \A p \in base .. last - 1 : t[p][1] # TABLEJUMP

Apart(t, base) == \E last \in base .. Len(t) : EndsAt(t, base, last)

\* The rows being made hold no jump and each position passed stands for one of
\* them or for the next; so what is stored behind them closes the program.
IInv ==
  /\ source \in Sources
  /\ target \in Seq(Pair) /\ Len(target) <= TableMax
  /\ rows \in Seq(PlainRow)
  /\ \A p \in DOMAIN mapped : mapped[p] \in 0 .. Len(rows)
  /\ band \in [pass : 0 .. 7, mask : 0 .. 15] /\ FilterSet(band) # TABLEJUMP
  /\ job = <<>> \/ job \in source.asked
  /\ DOMAIN programs \subseteq source.asked
  /\ \A a \in DOMAIN programs : programs[a] \in Nat \ {0} /\ Apart(target, programs[a])

-----------------------------------------------------------------------------
(* Rows.                                                                   *)

\* No converted row is a jump.
LEMMA WaveRowPlain ==
  ASSUME NEW l \in Byte \ {TABLEJUMP}, NEW r \in Byte
  PROVE  WaveStep(l, r).row \in PlainRow
<1>1. ASSUME NEW b \in Byte PROVE WaveArp(b).byte \in Nat
  BY DEF WaveArp, Byte
<1>2. ASSUME NEW b \in Byte \ {TABLEJUMP} PROVE WaveLeft(b) \in Nat \ {TABLEJUMP}
  BY DEF WaveLeft, Byte, TABLEJUMP, Lesser
<1> DEFINE command == l \in 240 .. 254
           ll      == IF command THEN 0 ELSE l
           rr      == IF command THEN 128 ELSE r
<1>3. WaveStep(l, r).row = <<WaveLeft(ll), WaveArp(rr).byte>>
  BY DEF WaveStep
<1>4. ll \in Byte \ {TABLEJUMP} /\ rr \in Byte
  BY DEF Byte, TABLEJUMP
<1>5. WaveLeft(ll) \in Nat \ {TABLEJUMP} /\ WaveArp(rr).byte \in Nat
  BY <1>1, <1>2, <1>4
<1> HIDE DEF ll, rr
<1> QED
  BY <1>3, <1>5 DEF PlainRow, Pair

LEMMA PulseRowPlain ==
  ASSUME NEW l \in Byte \ {TABLEJUMP}, NEW r \in Byte
  PROVE  PulseStep(l, r) \in PlainRow
BY DEF PulseStep, PlainRow, Pair, Byte, TABLEJUMP

\* The band of a row that does not open everything makes no jump.
LEMMA BandPlain ==
  ASSUME NEW l \in 128 .. 254, NEW r \in Byte, ~ Opens(<<l, r>>)
  PROVE  /\ BandOf(l, r) \in [pass : 0 .. 7, mask : 0 .. 15]
         /\ FilterSet(BandOf(l, r)) # TABLEJUMP
<1>1. (l \div 16) % 8 \in 0 .. 7 /\ r % 16 \in 0 .. 15
  BY DEF Byte
<1>2. (l \div 16) % 8 = 7 => l \in 240 .. 254
  OBVIOUS
<1>3. ~ ((l \div 16) % 8 = 7 /\ r % 16 = 15)
  BY <1>2 DEF Opens
<1> QED
  BY <1>1, <1>3 DEF BandOf, FilterSet, TABLEJUMP

\* The vibrato's steps hold no jump.
LEMMA VibratoPlain ==
  ASSUME SourceOK(source), NEW vib \in Pair
  PROVE  VibratoSteps(vib).rows \in Seq(PlainRow)
<1>1. SpeedValue(vib[2]).speed \in Nat
  <2>1. CASE vib[2] = 0 \/ vib[2] > Len(source.speeds)
    BY <2>1 DEF SpeedValue
  <2>2. CASE ~ (vib[2] = 0 \/ vib[2] > Len(source.speeds))
    <3>1. source.speeds[vib[2]] \in Byte \X Byte
      BY <2>2 DEF SourceOK, Pair
    <3>2. source.speeds[vib[2]][1] \in Byte /\ source.speeds[vib[2]][2] \in Byte
      BY <3>1
    <3>3. \A a, b \in Byte : 256 * a + b \in Nat
      BY DEF Byte
    <3> QED
      BY <2>2, <3>2, <3>3 DEF SpeedValue
  <2> QED
    BY <2>1, <2>2
<1> DEFINE speed == SpeedValue(vib[2]).speed
           delay == <<144 + Lesser(vib[1], 47), 0>>
           turn  == <<192 + Lesser(speed \div 256, 31), speed % 256>>
<1>2. VibratoSteps(vib).rows = IF speed = 0 THEN <<>>
                               ELSE (IF vib[1] = 0 THEN <<>> ELSE <<delay>>) \o <<turn>>
  BY DEF VibratoSteps
<1>3. delay \in PlainRow
  BY DEF Lesser, PlainRow, Pair, TABLEJUMP
<1>4. turn \in PlainRow
  <2> HIDE DEF speed
  <2>1. speed \div 256 \in Nat /\ speed % 256 \in Nat
    BY <1>1 DEF speed
  <2> QED
    BY <2>1 DEF Lesser, PlainRow, Pair, TABLEJUMP
<1> HIDE DEF speed, delay, turn
<1> QED
  BY <1>2, <1>3, <1>4

-----------------------------------------------------------------------------
(* Programs.                                                               *)

\* Rows put behind a table.
LEMMA Behind ==
  ASSUME NEW t \in Seq(Pair), NEW more \in Seq(Pair)
  PROVE  /\ t \o more \in Seq(Pair)
         /\ Len(t) \in Nat /\ Len(more) \in Nat /\ Len(t \o more) = Len(t) + Len(more)
         /\ \A p \in 1 .. Len(t) : (t \o more)[p] = t[p]
         /\ \A k \in 1 .. Len(more) : (t \o more)[Len(t) + k] = more[k]
<1>1. t \o more \in Seq(Pair) /\ Len(t) \in Nat /\ Len(more) \in Nat
  OBVIOUS
<1>2. Len(t \o more) = Len(t) + Len(more)
  OBVIOUS
<1>3. \A p \in 1 .. Len(t) : (t \o more)[p] = t[p]
  OBVIOUS
<1>4. ASSUME NEW k \in 1 .. Len(more) PROVE (t \o more)[Len(t) + k] = more[k]
  <2>1. Len(t) + k \in 1 .. Len(t) + Len(more) /\ Len(t) + k > Len(t)
    BY <1>1
  <2> QED
    BY <1>1, <2>1
<1> QED
  BY <1>1, <1>2, <1>3, <1>4

\* A program is apart in a table that goes on as well.
LEMMA StaysApart ==
  ASSUME NEW t \in Seq(Pair), NEW more \in Seq(Pair), NEW base \in Nat \ {0}, Apart(t, base)
  PROVE  Apart(t \o more, base)
<1>1. PICK last \in base .. Len(t) : EndsAt(t, base, last)
  BY DEF Apart
<1>2. \A p \in 1 .. Len(t) : (t \o more)[p] = t[p]
  BY Behind
<1>3. Len(t \o more) = Len(t) + Len(more) /\ Len(t) \in Nat /\ Len(more) \in Nat
  BY Behind
<1>4. EndsAt(t \o more, base, last)
  BY <1>1, <1>2 DEF EndsAt
<1>5. last \in base .. Len(t \o more)
  BY <1>1, <1>3
<1> QED
  BY <1>4, <1>5 DEF Apart

\* Plain rows and a jump to 0 or into them, put behind a table, are a program.
LEMMA ClosedApart ==
  ASSUME NEW t \in Seq(Pair), NEW made \in Seq(PlainRow), NEW to \in Nat,
         to \in {0} \cup Len(t) + 1 .. Len(t) + 1 + Len(made)
  PROVE  Apart(t \o Append(made, <<TABLEJUMP, to>>), Len(t) + 1)
<1> DEFINE all  == Append(made, <<TABLEJUMP, to>>)
           base == Len(t) + 1
           last == Len(t) + 1 + Len(made)
<1>1. /\ all \in Seq(Pair) /\ Len(all) = Len(made) + 1
      /\ all[Len(made) + 1] = <<TABLEJUMP, to>>
      /\ \A k \in 1 .. Len(made) : all[k] = made[k]
  BY DEF PlainRow, Pair, TABLEJUMP
<1> HIDE DEF all
<1>2. /\ Len(t \o all) = last
      /\ \A p \in base .. last : (t \o all)[p] = all[p - Len(t)]
  <2>0. Len(made) \in Nat
    OBVIOUS
  <2>1. Len(t \o all) = Len(t) + Len(all) /\ Len(t) \in Nat /\ Len(made) \in Nat
    <3>1. all \in Seq(Pair)
      BY <1>1
    <3> HIDE DEF base, last
    <3> QED
      BY <2>0, <3>1, Behind
  <2>2. ASSUME NEW p \in base .. last PROVE (t \o all)[p] = all[p - Len(t)]
    <3>1. p - Len(t) \in 1 .. Len(all) /\ Len(t) + (p - Len(t)) = p
      BY <1>1, <2>1
    <3> QED
      BY <1>1, <3>1, Behind
  <2> QED
    BY <1>1, <2>1, <2>2
<1>3. \A k \in 1 .. Len(made) : made[k][1] # TABLEJUMP
  BY DEF PlainRow
<1>4. EndsAt(t \o all, base, last)
  <2>1. (t \o all)[last] = <<TABLEJUMP, to>>
    BY <1>1, <1>2
  <2>2. ASSUME NEW p \in base .. last - 1 PROVE (t \o all)[p][1] # TABLEJUMP
    <3>1. p - Len(t) \in 1 .. Len(made)
      OBVIOUS
    <3>2. (t \o all)[p] = all[p - Len(t)]
      BY <1>2
    <3> QED
      BY <1>1, <1>3, <3>1, <3>2
  <2>3. (t \o all)[last][1] = TABLEJUMP /\ (t \o all)[last][2] \in {0} \cup base .. last
    BY <2>1
  <2> HIDE DEF base, last
  <2> QED
    BY <2>2, <2>3 DEF EndsAt
<1> QED
  BY <1>2, <1>4 DEF Apart, all

-----------------------------------------------------------------------------
(* Every step keeps the invariant.                                         *)

LEMMA InitIInv ==
  ASSUME Init
  PROVE  IInv
<1>1. <<>> \in Seq(Pair) /\ <<>> \in Seq(PlainRow) /\ Len(<<>>) = 0
  OBVIOUS
<1>2. DefaultBand \in [pass : 0 .. 7, mask : 0 .. 15] /\ FilterSet(DefaultBand) # TABLEJUMP
  BY DEF DefaultBand, FilterSet, TABLEJUMP
<1>3. DOMAIN <<>> = {}
  OBVIOUS
<1> QED
  BY <1>1, <1>2, <1>3, TableMaxAssumption DEF Init, IInv

\* A walk begins with no rows made.
LEMMA AskIInv ==
  ASSUME IInv, NEW a \in source.asked, Ask(a[1], a[2]), SourcesOK
  PROVE  IInv'
<1>1. /\ job' = <<a[1], a[2]>> /\ rows' = <<>> /\ mapped' = <<>> /\ band' = DefaultBand
      /\ job' \in source.asked
      /\ UNCHANGED <<source, target, programs>>
  BY DEF Ask
<1>2. <<>> \in Seq(PlainRow) /\ DOMAIN <<>> = {}
  OBVIOUS
<1>3. DefaultBand \in [pass : 0 .. 7, mask : 0 .. 15] /\ FilterSet(DefaultBand) # TABLEJUMP
  BY DEF DefaultBand, FilterSet, TABLEJUMP
<1> QED
  BY <1>1, <1>2, <1>3 DEF IInv

\* A position passed stands for a row made or the next.
LEMMA MarkedOK ==
  ASSUME NEW p, NEW at \in Nat, NEW n \in Nat, at <= n,
         NEW m, \A q \in DOMAIN m : m[q] \in 0 .. n
  PROVE  \A q \in DOMAIN With(m, p, at) : With(m, p, at)[q] \in 0 .. n
BY DEF With

LEMMA JumpIInv ==
  ASSUME IInv, Jump
  PROVE  IInv'
<1>1. /\ mapped' = With(mapped, pos, Len(rows))
      /\ UNCHANGED <<source, target, programs, job, rows, band>>
  BY DEF Jump, Marked
<1>2. Len(rows) \in Nat
  BY DEF IInv
<1>3. \A q \in DOMAIN mapped' : mapped'[q] \in 0 .. Len(rows)
  BY <1>1, <1>2, MarkedOK DEF IInv
<1> QED
  BY <1>1, <1>3 DEF IInv

\* A row made is plain, and one position or two stand for it.
LEMMA RowIInv ==
  ASSUME SourcesOK, IInv, Row
  PROVE  IInv'
<1> DEFINE l == source.table[pos][1]
           r == source.table[pos][2]
<1>1. /\ SourceOK(source) /\ pos \in DOMAIN source.table
      /\ source.table[pos] \in Byte \X Byte /\ source.table[pos] = <<l, r>>
      /\ l \in Byte \ {TABLEJUMP} /\ r \in Byte
      /\ UNCHANGED <<source, target, programs, job>>
  <2>1. SourceOK(source) /\ pos \in DOMAIN source.table /\ l # TABLEJUMP
        /\ UNCHANGED <<source, target, programs, job>>
    BY DEF Row, Walking, IInv, SourcesOK
  <2>2. source.table[pos] \in Byte \X Byte
    BY <2>1 DEF SourceOK
  <2> QED
    BY <2>1, <2>2
<1>1a. l \in Byte \ {TABLEJUMP} /\ r \in Byte
  BY <1>1
<1>1b. l \in 0 .. 254 /\ r \in 0 .. 255
  <2> HIDE DEF l, r
  <2> QED
    BY <1>1a DEF Byte, TABLEJUMP
<1>1c. l \in Nat \ {TABLEJUMP} /\ r \in Nat
  <2> HIDE DEF l, r
  <2> QED
    BY <1>1b DEF TABLEJUMP
<1>2. Len(rows) \in Nat /\ \A q \in DOMAIN Marked(pos, Len(rows)) :
                             Marked(pos, Len(rows))[q] \in 0 .. Len(rows)
  <2>1. Len(rows) \in Nat
    BY DEF IInv
  <2> QED
    BY <2>1, MarkedOK DEF IInv, Marked
<1> DEFINE BandOK(b)   == b \in [pass : 0 .. 7, mask : 0 .. 15] /\ FilterSet(b) # TABLEJUMP
           MappedOK(m) == \A q \in DOMAIN m : m[q] \in 0 .. Len(rows)
<1>3. /\ \E row \in PlainRow : rows' = Append(rows, row)
      /\ BandOK(band') /\ MappedOK(mapped')
  <2>0. BandOK(band)
    BY DEF IInv
  <2>1. CASE WaveRow
    BY <1>1, <1>2, <2>0, <2>1, WaveRowPlain DEF WaveRow
  <2>2. CASE PulseRow
    BY <1>1, <1>2, <2>0, <2>2, PulseRowPlain DEF PulseRow
  <2>3. CASE FilterRow
    <3>1. ASSUME NEW n \in Nat \ {TABLEJUMP}, NEW c \in Nat PROVE <<n, c>> \in PlainRow
      BY DEF PlainRow, Pair
    <3>2. ASSUME NEW b, BandOK(b) PROVE FilterSet(b) \in Nat \ {TABLEJUMP}
      BY <3>2 DEF FilterSet
    <3>3. CASE l >= 128
      <4> DEFINE cutoff == IF FilterMerges THEN source.table[pos + 1][2] ELSE 0
      <4>1. /\ band' = BandOf(l, r)
            /\ rows' = Append(rows, <<FilterSet(band'), cutoff>>)
            /\ mapped' = IF FilterMerges
                           THEN With(Marked(pos, Len(rows)), pos + 1, Len(rows))
                           ELSE Marked(pos, Len(rows))
        BY <2>3, <3>3 DEF FilterRow
      <4>2. cutoff \in Nat
        <5>1. FilterMerges => source.table[pos + 1] \in Byte \X Byte
          BY <1>1 DEF FilterMerges, SourceOK
        <5>2. FilterMerges => source.table[pos + 1][2] \in Byte
          BY <5>1
        <5> QED
          BY <5>2 DEF Byte
      <4>3. BandOK(band')
        <5>1. l \in 128 .. 254
          <6> HIDE DEF l, r
          <6> QED
            BY <1>1b, <3>3
        <5>2. ~ Opens(<<l, r>>)
          BY <1>1, <2>3 DEF SourceOK, FilterRow
        <5>3. band' = BandOf(l, r) /\ r \in Byte
          BY <1>1, <4>1
        <5> HIDE DEF l, r
        <5> QED
          BY <5>1, <5>2, <5>3, BandPlain
      <4>4. MappedOK(mapped')
        BY <1>2, <4>1, MarkedOK
      <4> HIDE DEF cutoff
      <4>5. <<FilterSet(band'), cutoff>> \in PlainRow
        <5>1. FilterSet(band') \in Nat \ {TABLEJUMP}
          BY <3>2, <4>3
        <5> QED
          BY <3>1, <4>2, <5>1
      <4> QED
        BY <4>1, <4>3, <4>4, <4>5
    <3>4. CASE ~ (l >= 128)
      <4> DEFINE left == IF l = 0 THEN FilterSet(band) ELSE l
      <4>1. band' = band /\ rows' = Append(rows, <<left, r>>) /\ mapped' = Marked(pos, Len(rows))
        BY <1>1, <2>3, <3>4 DEF FilterRow, Byte
      <4>2. left \in Nat \ {TABLEJUMP}
        <5>2. FilterSet(band) \in Nat \ {TABLEJUMP}
          BY <2>0, <3>2
        <5> HIDE DEF l, r
        <5> QED
          BY <1>1c, <5>2
      <4> HIDE DEF left
      <4>3. <<left, r>> \in PlainRow
        <5> HIDE DEF l, r
        <5> QED
          BY <1>1c, <3>1, <4>2
      <4> QED
        BY <1>2, <2>0, <4>1, <4>3
    <3> QED
      BY <3>3, <3>4
  <2> QED
    BY <2>1, <2>2, <2>3 DEF Row
<1>4. rows' \in Seq(PlainRow) /\ Len(rows') = Len(rows) + 1
  BY <1>3 DEF IInv
<1>5. \A q \in DOMAIN mapped' : mapped'[q] \in 0 .. Len(rows')
  BY <1>2, <1>3, <1>4
<1>6. band' \in [pass : 0 .. 7, mask : 0 .. 15] /\ FilterSet(band)' # TABLEJUMP
  BY <1>3 DEF FilterSet
<1> HIDE DEF MappedOK, BandOK, l, r
<1> QED
  BY <1>1, <1>4, <1>5, <1>6 DEF IInv

\* A program is stored behind the others, with its own jump at its end.
LEMMA StoreIInv ==
  ASSUME SourcesOK, IInv, Store
  PROVE  IInv'
<1> DEFINE loops == pos \in DOMAIN mapped
           vib   == IF job[2] = NoVibrato THEN [lost |-> {}, rows |-> <<>>]
                    ELSE VibratoSteps(job[2])
           base  == Len(target) + 1
           plain == ProgramRows(loops, vib.rows)
           to    == IF loops THEN LoopTo(base, mapped[pos]) ELSE 0
           made  == Append(plain, <<TABLEJUMP, to>>)
<1>1. /\ UNCHANGED <<source, rows, mapped, band>> /\ job # <<>>
      /\ \/ UNCHANGED <<target, programs, job>>
         \/ /\ ~ Overflows(made)
            /\ target' = target \o made /\ programs' = With(programs, job, base) /\ job' = <<>>
  BY DEF Store
<1>2. CASE UNCHANGED <<target, programs, job>>
  BY <1>1, <1>2 DEF IInv
<1>3. CASE /\ ~ Overflows(made)
           /\ target' = target \o made /\ programs' = With(programs, job, base) /\ job' = <<>>
  <2>1. SourceOK(source) /\ job \in source.asked /\ job[2] \in Pair
    BY <1>1 DEF IInv, SourcesOK, SourceOK
  <2>2. vib.rows \in Seq(PlainRow)
    BY <2>1, VibratoPlain
  <2>3. plain \in Seq(PlainRow) /\ (loops => plain = rows)
    BY <2>2 DEF ProgramRows, IInv
  <2>4. to \in Nat /\ to \in {0} \cup Len(target) + 1 .. Len(target) + 1 + Len(plain)
    BY <2>3 DEF LoopTo, IInv
  <2>5. target \in Seq(Pair)
    BY DEF IInv
  <2>6. made \in Seq(Pair) /\ target' \in Seq(Pair) /\ Len(target') <= TableMax
    <3>1. <<TABLEJUMP, to>> \in Pair
      BY <2>4 DEF Pair, TABLEJUMP
    <3>2. plain \in Seq(Pair)
      BY <2>3 DEF PlainRow
    <3> HIDE DEF plain, to
    <3>3. made \in Seq(Pair)
      BY <3>1, <3>2
    <3> HIDE DEF made
    <3>4. Len(target \o made) = Len(target) + Len(made)
      BY <2>5, <3>3, Behind
    <3>5. Len(target) + Len(made) <= TableMax
      BY <1>3, <2>5, <3>3, TableMaxAssumption DEF Overflows
    <3> QED
      BY <1>3, <2>5, <3>3, <3>4, <3>5
  <2>7. Apart(target', base)
    <3> HIDE DEF plain, to
    <3> QED
      BY <1>3, <2>3, <2>4, <2>5, ClosedApart
  <2> HIDE DEF made, plain, to, vib, loops
  <2>8. ASSUME NEW a \in DOMAIN programs
        PROVE  programs[a] \in Nat \ {0} /\ Apart(target', programs[a])
    BY <1>3, <2>5, <2>6, StaysApart DEF IInv
  <2>9. base \in Nat \ {0}
    BY <2>5
  <2>10. /\ DOMAIN programs' \subseteq source.asked
         /\ \A a \in DOMAIN programs' : programs'[a] \in Nat \ {0} /\ Apart(target', programs'[a])
    BY <1>3, <2>1, <2>7, <2>8, <2>9 DEF With, IInv
  <2> QED
    BY <1>1, <1>3, <2>6, <2>10 DEF IInv, Apart, EndsAt, FilterSet
<1> QED
  BY <1>1, <1>2, <1>3

\* The inductive invariant holds throughout.
THEOREM IInvHolds ==
  ASSUME SourcesOK
  PROVE  Spec => []IInv
<1>1. Init => IInv
  BY InitIInv
<1>2. IInv /\ [Next]_vars => IInv'
  <2> SUFFICES ASSUME IInv, [Next]_vars PROVE IInv'
    OBVIOUS
  <2>1. CASE \E a \in source.asked : Ask(a[1], a[2])
    BY <2>1, AskIInv
  <2>2. CASE Jump
    BY <2>2, JumpIInv
  <2>3. CASE Row
    BY <2>3, RowIInv
  <2>4. CASE Store
    BY <2>4, StoreIInv
  <2>5. CASE UNCHANGED vars
    BY <2>5 DEF IInv, vars, walk, Apart, EndsAt, FilterSet
  <2> QED
    BY <2>1, <2>2, <2>3, <2>4, <2>5 DEF Next
<1> QED
  BY <1>1, <1>2, PTL DEF Spec

\* A program ends in a jump of its own, to 0 or back into its own rows, however
\* many are stored behind it and wherever its walk looped (_store_program).
THEOREM ProgramsStayApart ==
  ASSUME SourcesOK
  PROVE  Spec => []ProgramsApart
<1>1. IInv => ProgramsApart
  BY DEF IInv, Apart, EndsAt, ProgramsApart
<1> QED
  BY <1>1, IInvHolds, PTL
-----------------------------------------------------------------------------
(* Walks of a table.                                                       *)

\* Where a walk of table t is after p, and all it comes to from a start.
After(t, p) == IF p = 0 THEN 0 ELSE Follow(t, p)

Places(t, start) ==
  LET f[k \in 0 .. Len(t)] == IF k = 0 THEN start
                              ELSE IF f[k - 1] = 0 THEN 0 ELSE Follow(t, f[k - 1])
  IN f

PlaceSteps(f, t, start, n) ==
  f = [k \in 0 .. n |-> IF k = 0 THEN start
                        ELSE IF f[k - 1] = 0 THEN 0 ELSE Follow(t, f[k - 1])]

\* The function of Playable, which its definition only chooses, exists: there is
\* one for each length.
LEMMA PlacesStep ==
  ASSUME NEW t, Len(t) \in Nat, NEW start
  PROVE  LET f == Places(t, start) IN
         /\ f = [k \in 0 .. Len(t) |-> IF k = 0 THEN start
                        ELSE IF f[k - 1] = 0 THEN 0 ELSE Follow(t, f[k - 1])]
<1> DEFINE S == {n \in Nat : ~ \E f : PlaceSteps(f, t, start, n)}
<1>1. S = {}
  <2> SUFFICES ASSUME S # {} PROVE FALSE
    OBVIOUS
  <2>1. PICK n \in S : \A m \in S : n <= m
    BY LeastOf
  <2>2. n \in Nat /\ ~ \E f : PlaceSteps(f, t, start, n)
    BY <2>1
  <2>3. CASE n = 0
    <3>1. PlaceSteps([k \in 0 .. 0 |-> start], t, start, 0)
      BY DEF PlaceSteps
    <3> QED
      BY <2>2, <2>3, <3>1
  <2>4. CASE n # 0
    <3>1. n - 1 \in Nat /\ ~ (n - 1 \in S)
      BY <2>1, <2>2, <2>4
    <3>2. PICK g : PlaceSteps(g, t, start, n - 1)
      BY <3>1
    <3> DEFINE h == [k \in 0 .. n |-> IF k = n THEN (IF g[n - 1] = 0 THEN 0 ELSE Follow(t, g[n - 1])) ELSE g[k]]
    <3>3. \A k \in 0 .. n - 1 : h[k] = g[k]
      BY <2>2
    <3>4. PlaceSteps(h, t, start, n)
      <4> SUFFICES ASSUME NEW k \in 0 .. n
                   PROVE  h[k] = IF k = 0 THEN start ELSE IF h[k - 1] = 0 THEN 0 ELSE Follow(t, h[k - 1])
        BY DEF PlaceSteps
      <4>1. CASE k = n
        BY <2>2, <2>4, <3>1, <3>3, <4>1
      <4>2. CASE k # n
        <5>1. k \in 0 .. n - 1 /\ (k # 0 => k - 1 \in 0 .. n - 1)
          BY <2>2, <4>2
        <5>2. g[k] = IF k = 0 THEN start ELSE IF g[k - 1] = 0 THEN 0 ELSE Follow(t, g[k - 1])
          BY <3>2, <5>1 DEF PlaceSteps
        <5> HIDE DEF h
        <5> QED
          BY <3>3, <5>1, <5>2
      <4> QED
        BY <4>1, <4>2
    <3> HIDE DEF h
    <3> QED
      BY <2>2, <3>4
  <2> QED
    BY <2>3, <2>4
<1>2. PICK g : PlaceSteps(g, t, start, Len(t))
  BY <1>1
<1>3. Places(t, start) = CHOOSE f : PlaceSteps(f, t, start, Len(t))
  BY DEF Places, PlaceSteps
<1> QED
  BY <1>2, <1>3 DEF PlaceSteps

Orbit(t, start) == {Places(t, start)[k] : k \in 0 .. Len(t)}

\* A walk that stays in its table for as many steps as it has rows has come
\* round by then: it never leaves it.
LEMMA OrbitClosed ==
  ASSUME NEW t \in Seq(Byte \X Byte), NEW start \in Nat, Playable(t, start)
  PROVE  /\ start \in Orbit(t, start) /\ start # 0
         /\ \A p \in Orbit(t, start) :
              /\ p = 0 \/ (p \in 1 .. Len(t) - 1 /\ t[p][1] # TABLEJUMP)
              /\ p # 0 => Follow(t, p) \in Orbit(t, start)
<1> DEFINE f == Places(t, start)
           n == Len(t)
<1>1. /\ \A k \in 0 .. n : f[k] = 0 \/ (f[k] \in DOMAIN t /\ t[f[k]][1] # TABLEJUMP)
      /\ start # 0 /\ t[n][1] = TABLEJUMP
  BY DEF Playable, Places
<1>2. n \in Nat /\ DOMAIN t = 1 .. n
  OBVIOUS
<1>3. f = [k \in 0 .. n |-> IF k = 0 THEN start
                            ELSE IF f[k - 1] = 0 THEN 0 ELSE Follow(t, f[k - 1])]
  BY <1>2, PlacesStep
<1> HIDE DEF f
<1>4. /\ f[0] = start
      /\ \A k \in 0 .. n - 1 : f[k + 1] = After(t, f[k])
  <2>1. f[0] = start
    BY <1>2, <1>3
  <2>2. ASSUME NEW k \in 0 .. n - 1 PROVE f[k + 1] = After(t, f[k])
    <3>1. k + 1 \in 0 .. n /\ k + 1 # 0 /\ (k + 1) - 1 = k
      BY <1>2
    <3>2. f[k + 1] = IF f[(k + 1) - 1] = 0 THEN 0 ELSE Follow(t, f[(k + 1) - 1])
      BY <1>3, <3>1
    <3> QED
      BY <3>1, <3>2 DEF After
  <2> QED
    BY <2>1, <2>2
<1>5. ASSUME NEW k \in 0 .. n
      PROVE  f[k] = 0 \/ (f[k] \in 1 .. n - 1 /\ t[f[k]][1] # TABLEJUMP)
  BY <1>1, <1>2
<1>6. n # 0
  BY <1>1, <1>2, <1>4
<1>7. PICK i \in 0 .. n, j \in 0 .. n : i < j /\ f[i] = f[j]
  <2>1. IsFiniteSet(0 .. n) /\ Cardinality(0 .. n) = n + 1
    BY <1>2, FS_Interval
  <2>2. IsFiniteSet(0 .. n - 1) /\ Cardinality(0 .. n - 1) = n
    <3>1. 0 \in Int /\ n - 1 \in Int /\ ~ (0 > n - 1) /\ (n - 1) - 0 + 1 = n
      BY <1>2, <1>6
    <3> QED
      BY <3>1, FS_Interval
  <2>3. f \in [0 .. n -> 0 .. n - 1]
    BY <1>2, <1>3, <1>5, <1>6
  <2>4. PICK x, y \in 0 .. n : x # y /\ f[x] = f[y]
    <3>1. Cardinality(0 .. n - 1) < Cardinality(0 .. n)
      BY <1>2, <2>1, <2>2
    <3> QED
      BY <2>1, <2>2, <2>3, <3>1, FS_PigeonHole
  <2>5. x < y \/ y < x
    BY <2>4
  <2> QED
    BY <2>4, <2>5
<1>8. \A r \in 0 .. n - j : f[i + r] = f[j + r]
  <2> DEFINE S == {r \in Nat : r <= n - j /\ f[i + r] # f[j + r]}
  <2> SUFFICES ASSUME NEW u \in 0 .. n - j, f[i + u] # f[j + u]
               PROVE  FALSE
    OBVIOUS
  <2>0. u \in S
    BY <1>2
  <2>1. PICK r \in S : \A q \in S : r <= q
    BY <2>0, LeastOf
  <2>2. r \in Nat /\ r <= n - j /\ f[i + r] # f[j + r]
    BY <2>1
  <2>3. r # 0
    BY <1>7, <2>2
  <2>4. r - 1 \in Nat /\ f[i + (r - 1)] = f[j + (r - 1)]
    <3>1. r - 1 \in Nat /\ ~ (r <= r - 1)
      BY <2>2, <2>3
    <3>2. r - 1 <= n - j
      BY <1>2, <2>2
    <3>3. ~ (r - 1 \in S)
      BY <2>1, <3>1
    <3> QED
      BY <3>1, <3>2, <3>3
  <2>5. /\ i + (r - 1) \in 0 .. n - 1 /\ j + (r - 1) \in 0 .. n - 1
        /\ (i + (r - 1)) + 1 = i + r /\ (j + (r - 1)) + 1 = j + r
    BY <1>7, <2>2, <2>3
  <2> QED
    BY <1>4, <2>2, <2>4, <2>5
<1>9. ASSUME NEW k \in 0 .. n
      PROVE  After(t, f[k]) \in {f[m] : m \in 0 .. n}
  <2>1. CASE k < n
    <3>1. k \in 0 .. n - 1 /\ k + 1 \in 0 .. n
      BY <2>1
    <3> QED
      BY <1>4, <3>1
  <2>2. CASE k = n
    <3> DEFINE m == i + (n - j)
    <3>1. n - j \in 0 .. n - j /\ j + (n - j) = n
      BY <1>2
    <3>2. f[m] = f[n]
      BY <1>8, <3>1
    <3>3. m \in 0 .. n - 1 /\ m + 1 \in 0 .. n
      BY <1>2, <1>7
    <3> HIDE DEF m
    <3> QED
      BY <1>4, <2>2, <3>2, <3>3
  <2>3. k < n \/ k = n
    <3>1. n \in Nat /\ k \in 0 .. n
      BY <1>2
    <3> HIDE DEF n
    <3> QED
      BY <3>1
  <2> QED
    BY <2>1, <2>2, <2>3
<1>10. Orbit(t, start) = {f[k] : k \in 0 .. n}
  BY DEF Orbit, f
<1> HIDE DEF n
<1>11. start \in {f[k] : k \in 0 .. n}
  BY <1>2, <1>4
<1>12. ASSUME NEW p \in {f[k] : k \in 0 .. n}
       PROVE  /\ p = 0 \/ (p \in 1 .. n - 1 /\ t[p][1] # TABLEJUMP)
              /\ p # 0 => Follow(t, p) \in {f[k] : k \in 0 .. n}
  <2>1. PICK k \in 0 .. n : p = f[k]
    OBVIOUS
  <2> QED
    BY <1>5, <1>9, <2>1 DEF After
<1> QED
  BY <1>1, <1>10, <1>11, <1>12 DEF n

-----------------------------------------------------------------------------
(* What is heard, a step at a time.                                        *)

Kinds == {"wave", "pulse", "filter"}
Bands == [pass : 0 .. 7, mask : 0 .. 15]

\* A filter step as the converter has it: a setting with no cutoff row behind it
\* sets cutoff 0.
FilterFilled(t, p, b) ==
  LET l == t[p][1]
      takes == p + 1 \in DOMAIN t /\ t[p + 1][1] = 0
  IN CASE l >= 128 -> [last |-> IF takes THEN p + 1 ELSE p, band |-> BandOf(l, t[p][2]),
                       heard |-> <<"set", BandOf(l, t[p][2]), IF takes THEN t[p + 1][2] ELSE 0>>]
       [] l = 0 -> [last |-> p, band |-> b, heard |-> <<"set", b, t[p][2]>>]
       [] OTHER -> [last |-> p, band |-> b, heard |-> <<"mod", l, t[p][2]>>]

\* What row p of a table says under band b, so filled, the last row it takes, the
\* band it leaves, and the row after it.
Said(kind, t, p, b) ==
  CASE kind = "wave"  -> WaveHeard(t[p][1], t[p][2])
    [] kind = "pulse" -> PulseHeard(t[p][1], t[p][2])
    [] OTHER          -> FilterFilled(t, p, b).heard

LastOf(kind, t, p) == IF kind = "filter" THEN FilterFilled(t, p, DefaultBand).last ELSE p

BandAfter(kind, t, p, b) == IF kind = "filter" THEN FilterFilled(t, p, b).band ELSE b

GoesOn(kind, t, p) == Follow(t, LastOf(kind, t, p))

\* What row p says, and the steps that leave a part to what sounded before.
Told(kind, t, p, b) == IF kind = "filter" THEN FilterHeard(t, p, b).heard ELSE Said(kind, t, p, b)

BandTold(kind, t, p, b) == IF kind = "filter" THEN FilterHeard(t, p, b).band ELSE b

Part(kind, said) == kind = "filter" /\ said[1] \in {"band", "cutoff"}

\* What a converted row says.
NinjaSaid(kind, row) ==
  CASE kind = "wave"  -> NinjaWaveHeard(row[1], row[2])
    [] kind = "pulse" -> NinjaPulseHeard(row[1], row[2])
    [] OTHER          -> NinjaFilterHeard(row[1], row[2])

\* A step of Heard, a step of NinjaHeard.
HeardStart(start) == [p |-> start, band |-> NoBand, out |-> <<>>]
HeardStep(kind, t, s) ==
  IF s.p = 0 THEN s
  ELSE LET l == t[s.p][1]
           r == t[s.p][2]
           filter == FilterHeard(t, s.p, s.band)
       IN CASE kind = "wave" ->
                 [s EXCEPT !.p = Follow(t, s.p), !.out = Append(@, WaveHeard(l, r))]
            [] kind = "pulse" ->
                 [s EXCEPT !.p = Follow(t, s.p), !.out = Append(@, PulseHeard(l, r))]
            [] OTHER ->
                 [p |-> Follow(t, filter.last), band |-> filter.band,
                  out |-> Append(s.out, filter.heard)]

NinjaStart(base) == [p |-> base, out |-> <<>>]
NinjaStep(kind, t, s) ==
  IF s.p = 0 THEN s
  ELSE [p |-> Follow(t, s.p),
        out |-> Append(s.out,
          CASE kind = "wave"  -> NinjaWaveHeard(t[s.p][1], t[s.p][2])
            [] kind = "pulse" -> NinjaPulseHeard(t[s.p][1], t[s.p][2])
            [] OTHER -> NinjaFilterHeard(t[s.p][1], t[s.p][2]))]

HeardSteps(f, kind, t, start, n) ==
  f = [k \in 0 .. n |-> IF k = 0 THEN HeardStart(start) ELSE HeardStep(kind, t, f[k - 1])]

NinjaSteps(f, kind, t, base, n) ==
  f = [k \in 0 .. n |-> IF k = 0 THEN NinjaStart(base) ELSE NinjaStep(kind, t, f[k - 1])]

\* What is heard is a function of the number of steps.
LEMMA HeardStepsExist ==
  ASSUME NEW kind, NEW t, NEW start, NEW l \in Nat
  PROVE  \E f : HeardSteps(f, kind, t, start, l)
<1> DEFINE S == {n \in Nat : ~ \E f : HeardSteps(f, kind, t, start, n)}
<1> SUFFICES ASSUME S # {} PROVE FALSE
  OBVIOUS
<1>1. PICK n \in S : \A m \in S : n <= m
  BY LeastOf
<1>2. n \in Nat /\ ~ \E f : HeardSteps(f, kind, t, start, n)
  BY <1>1
<1>3. CASE n = 0
  <2>1. HeardSteps([k \in 0 .. 0 |-> HeardStart(start)], kind, t, start, 0)
    BY DEF HeardSteps
  <2> QED
    BY <1>2, <1>3, <2>1
<1>4. CASE n # 0
  <2>1. n - 1 \in Nat /\ ~ (n - 1 \in S)
    BY <1>1, <1>2, <1>4
  <2>2. PICK g : HeardSteps(g, kind, t, start, n - 1)
    BY <2>1
  <2> DEFINE h == [k \in 0 .. n |-> IF k = n THEN HeardStep(kind, t, g[n - 1]) ELSE g[k]]
  <2>3. \A k \in 0 .. n - 1 : h[k] = g[k]
    BY <1>2
  <2>4. HeardSteps(h, kind, t, start, n)
    <3> SUFFICES ASSUME NEW k \in 0 .. n
                 PROVE  h[k] = IF k = 0 THEN HeardStart(start) ELSE HeardStep(kind, t, h[k - 1])
      BY DEF HeardSteps
    <3>1. CASE k = n
      BY <1>2, <1>4, <2>1, <2>3, <3>1
    <3>2. CASE k # n
      <4>1. k \in 0 .. n - 1 /\ (k # 0 => k - 1 \in 0 .. n - 1)
        BY <1>2, <3>2
      <4>2. g[k] = IF k = 0 THEN HeardStart(start) ELSE HeardStep(kind, t, g[k - 1])
        BY <2>2, <4>1 DEF HeardSteps
      <4> HIDE DEF h
      <4> QED
        BY <2>3, <4>1, <4>2
    <3> QED
      BY <3>1, <3>2
  <2> HIDE DEF h
  <2> QED
    BY <1>2, <2>4
<1> QED
  BY <1>3, <1>4

\* The same of a program's steps.
LEMMA NinjaStepsExist ==
  ASSUME NEW kind, NEW t, NEW base, NEW l \in Nat
  PROVE  \E f : NinjaSteps(f, kind, t, base, l)
<1> DEFINE S == {n \in Nat : ~ \E f : NinjaSteps(f, kind, t, base, n)}
<1> SUFFICES ASSUME S # {} PROVE FALSE
  OBVIOUS
<1>1. PICK n \in S : \A m \in S : n <= m
  BY LeastOf
<1>2. n \in Nat /\ ~ \E f : NinjaSteps(f, kind, t, base, n)
  BY <1>1
<1>3. CASE n = 0
  <2>1. NinjaSteps([k \in 0 .. 0 |-> NinjaStart(base)], kind, t, base, 0)
    BY DEF NinjaSteps
  <2> QED
    BY <1>2, <1>3, <2>1
<1>4. CASE n # 0
  <2>1. n - 1 \in Nat /\ ~ (n - 1 \in S)
    BY <1>1, <1>2, <1>4
  <2>2. PICK g : NinjaSteps(g, kind, t, base, n - 1)
    BY <2>1
  <2> DEFINE h == [k \in 0 .. n |-> IF k = n THEN NinjaStep(kind, t, g[n - 1]) ELSE g[k]]
  <2>3. \A k \in 0 .. n - 1 : h[k] = g[k]
    BY <1>2
  <2>4. NinjaSteps(h, kind, t, base, n)
    <3> SUFFICES ASSUME NEW k \in 0 .. n
                 PROVE  h[k] = IF k = 0 THEN NinjaStart(base) ELSE NinjaStep(kind, t, h[k - 1])
      BY DEF NinjaSteps
    <3>1. CASE k = n
      BY <1>2, <1>4, <2>1, <2>3, <3>1
    <3>2. CASE k # n
      <4>1. k \in 0 .. n - 1 /\ (k # 0 => k - 1 \in 0 .. n - 1)
        BY <1>2, <3>2
      <4>2. g[k] = IF k = 0 THEN NinjaStart(base) ELSE NinjaStep(kind, t, g[k - 1])
        BY <2>2, <4>1 DEF NinjaSteps
      <4> HIDE DEF h
      <4> QED
        BY <2>3, <4>1, <4>2
    <3> QED
      BY <3>1, <3>2
  <2> HIDE DEF h
  <2> QED
    BY <1>2, <2>4
<1> QED
  BY <1>3, <1>4

\* So what Heard gives comes from such a function.
LEMMA HeardIs ==
  ASSUME NEW t, NEW start, NEW n \in Nat
  PROVE  \E f : HeardSteps(f, source.kind, t, start, n) /\ Heard(t, start, n) = f[n].out
<1> DEFINE f == CHOOSE f : HeardSteps(f, source.kind, t, start, n)
<1>1. HeardSteps(f, source.kind, t, start, n)
  BY HeardStepsExist
<1>2. Heard(t, start, n) = f[n].out
  BY DEF Heard, HeardSteps, HeardStep, HeardStart
<1> QED
  BY <1>1, <1>2

\* And what NinjaHeard gives.
LEMMA NinjaHeardIs ==
  ASSUME NEW t, NEW base, NEW n \in Nat
  PROVE  \E f : NinjaSteps(f, source.kind, t, base, n) /\ NinjaHeard(t, base, n) = f[n].out
<1> DEFINE f == CHOOSE f : NinjaSteps(f, source.kind, t, base, n)
<1>1. NinjaSteps(f, source.kind, t, base, n)
  BY NinjaStepsExist
<1>2. NinjaHeard(t, base, n) = f[n].out
  BY DEF NinjaHeard, NinjaSteps, NinjaStep, NinjaStart
<1> QED
  BY <1>1, <1>2

\* What a played step leaves.
LEMMA StepOf ==
  ASSUME NEW kind \in Kinds, NEW t, NEW s, s = [p |-> s.p, band |-> s.band, out |-> s.out],
         s.p # 0
  PROVE  LET u == HeardStep(kind, t, s) IN
         /\ u = [p |-> u.p, band |-> u.band, out |-> u.out]
         /\ u.p = GoesOn(kind, t, s.p)
         /\ u.band = BandTold(kind, t, s.p, s.band)
         /\ u.out = Append(s.out, Told(kind, t, s.p, s.band))
<1> DEFINE b == s.band
           q == s.p
           o == s.out
<1>1. CASE kind = "wave"
  <2>1. HeardStep(kind, t, s) = [p |-> Follow(t, q), band |-> b,
                                 out |-> Append(o, WaveHeard(t[q][1], t[q][2]))]
    BY <1>1 DEF HeardStep
  <2> QED
    BY <1>1, <2>1 DEF GoesOn, LastOf, BandTold, Told, Said
<1>2. CASE kind = "pulse"
  <2>1. HeardStep(kind, t, s) = [p |-> Follow(t, q), band |-> b,
                                 out |-> Append(o, PulseHeard(t[q][1], t[q][2]))]
    BY <1>2 DEF HeardStep
  <2> QED
    BY <1>2, <2>1 DEF GoesOn, LastOf, BandTold, Told, Said
<1>3. CASE kind = "filter"
  <2>1. HeardStep(kind, t, s) = [p |-> Follow(t, FilterHeard(t, q, b).last),
                                 band |-> FilterHeard(t, q, b).band,
                                 out |-> Append(o, FilterHeard(t, q, b).heard)]
    BY <1>3 DEF HeardStep
  <2>2. FilterHeard(t, q, b).last = FilterFilled(t, q, DefaultBand).last
    BY DEF FilterHeard, FilterFilled
  <2> QED
    BY <1>3, <2>1, <2>2 DEF GoesOn, LastOf, BandTold, Told
<1> QED
  BY <1>1, <1>2, <1>3 DEF Kinds

\* What a played step of a program leaves.
LEMMA NinjaStepOf ==
  ASSUME NEW kind, NEW t, NEW s, s.p # 0
  PROVE  LET u == NinjaStep(kind, t, s) IN
         /\ u.p = Follow(t, s.p)
         /\ u.out = Append(s.out, NinjaSaid(kind, t[s.p]))
BY DEF NinjaStep, NinjaSaid

-----------------------------------------------------------------------------
(* A program that says what its table says.                                *)

\* Wherever a walk from the start comes to a row that sets no band, it comes
\* there under the same band: B has it.
Settled(kind, t, start, B) ==
  /\ B \in [DOMAIN t -> Bands]
  /\ B[start] = DefaultBand
  /\ \A p \in Orbit(t, start) \ {0} :
       LET q     == GoesOn(kind, t, p)
           after == BandAfter(kind, t, p, B[p])
       IN  /\ LastOf(kind, t, p) # p => B[p + 1] = after
           /\ kind = "filter" /\ q # 0 => t[q][1] >= 128 \/ B[q] = after

\* R pairs rows of the table with rows of the program: paired rows say the same
\* and go on to rows that are paired.
Alike(kind, t, B, p, row) == NinjaSaid(kind, row) = Said(kind, t, p, B[p])

Simulates(kind, t, start, made, base, B, R) ==
  /\ <<start, base>> \in R
  /\ \A e \in R :
       /\ e = <<e[1], e[2]>>
       /\ e[1] \in Orbit(t, start) \ {0}
       /\ e[2] \in Nat \ {0} /\ e[2] + 1 <= Len(made)
       /\ Alike(kind, t, B, e[1], made[e[2]])
       /\ \/ GoesOn(kind, t, e[1]) = 0 /\ Follow(made, e[2]) = 0
          \/ <<GoesOn(kind, t, e[1]), Follow(made, e[2])>> \in R

\* The band in force matters to rows that set none.
BandOK(kind, t, B, p, b) == kind = "filter" => t[p][1] >= 128 \/ b = B[p]

\* Then a row says what it says under B.
LEMMA SaidUnder ==
  ASSUME NEW kind \in Kinds, NEW t, NEW B, NEW p, NEW b, BandOK(kind, t, B, p, b)
  PROVE  /\ Said(kind, t, p, b) = Said(kind, t, p, B[p])
         /\ kind = "filter" => BandAfter(kind, t, p, b) = BandAfter(kind, t, p, B[p])
BY DEF Said, BandAfter, BandOK, FilterFilled, Kinds

\* A row that leaves nothing to what sounded before says what it says under B,
\* whatever setting was the last one heard, or none.
LEMMA ToldUnder ==
  ASSUME NEW kind \in Kinds, NEW t, NEW B, NEW p, NEW b, b = NoBand \/ BandOK(kind, t, B, p, b)
  PROVE  /\ Part(kind, Told(kind, t, p, b)) \/ Told(kind, t, p, b) = Said(kind, t, p, B[p])
         /\ kind = "filter" => \/ BandTold(kind, t, p, b) = NoBand
                               \/ BandTold(kind, t, p, b) = BandAfter(kind, t, p, B[p])
<1>1. CASE kind # "filter"
  BY <1>1 DEF Told, Said, Kinds
<1>2. CASE kind = "filter"
  <2> DEFINE l == t[p][1]
             r == t[p][2]
             takes == p + 1 \in DOMAIN t /\ t[p + 1][1] = 0
  <2>1. /\ Told(kind, t, p, b) = FilterHeard(t, p, b).heard
        /\ BandTold(kind, t, p, b) = FilterHeard(t, p, b).band
        /\ Said(kind, t, p, B[p]) = FilterFilled(t, p, B[p]).heard
        /\ BandAfter(kind, t, p, B[p]) = FilterFilled(t, p, B[p]).band
    BY <1>2 DEF Told, BandTold, Said, BandAfter
  <2>2. CASE l >= 128 /\ takes
    BY <2>1, <2>2 DEF FilterHeard, FilterFilled
  <2>3. CASE l >= 128 /\ ~ takes
    <3>1. FilterHeard(t, p, b).heard = <<"band", BandOf(l, r)>>
      BY <2>3 DEF FilterHeard
    <3>2. FilterHeard(t, p, b).band = FilterFilled(t, p, B[p]).band
      BY <2>3 DEF FilterHeard, FilterFilled
    <3> QED
      BY <1>2, <2>1, <3>1, <3>2 DEF Part
  <2>4. CASE ~ (l >= 128) /\ b = NoBand
    <3>1. FilterHeard(t, p, b).band = NoBand
      BY <2>4 DEF FilterHeard
    <3>2. CASE l = 0
      <4>1. FilterHeard(t, p, b).heard = <<"cutoff", r>>
        BY <2>4, <3>2 DEF FilterHeard
      <4> QED
        BY <1>2, <2>1, <3>1, <4>1 DEF Part
    <3>3. CASE l # 0
      <4>1. FilterHeard(t, p, b).heard = FilterFilled(t, p, B[p]).heard
        BY <2>4, <3>3 DEF FilterHeard, FilterFilled
      <4> QED
        BY <2>1, <3>1, <4>1
    <3> QED
      BY <3>2, <3>3
  <2>5. CASE ~ (l >= 128) /\ b # NoBand
    <3>1. b = B[p]
      BY <1>2, <2>5 DEF BandOK
    <3>2. FilterHeard(t, p, b) = FilterFilled(t, p, b)
      BY <2>5 DEF FilterHeard, FilterFilled
    <3> QED
      BY <2>1, <3>1, <3>2
  <2> QED
    BY <2>2, <2>3, <2>4, <2>5
<1> QED
  BY <1>1, <1>2

\* Then both are heard alike for any number of steps, where no step leaves a part
\* to what sounded before.
LEMMA SimulationHeard ==
  ASSUME NEW t, NEW start, NEW made, NEW base, NEW B, NEW R, NEW n \in Nat,
         source.kind \in Kinds, start # 0,
         Settled(source.kind, t, start, B),
         Simulates(source.kind, t, start, made, base, B, R),
         SetsWhole(Heard(t, start, n))
  PROVE  NinjaHeard(made, base, n) = Heard(t, start, n)
<1> DEFINE kind == source.kind
<1>1. PICK f : HeardSteps(f, kind, t, start, n) /\ Heard(t, start, n) = f[n].out
  BY HeardIs
<1>2. PICK g : NinjaSteps(g, kind, made, base, n) /\ NinjaHeard(made, base, n) = g[n].out
  BY NinjaHeardIs
<1>0. \A k \in DOMAIN f[n].out : ~ Part(kind, f[n].out[k])
  BY <1>1 DEF SetsWhole, Part
<1> HIDE DEF kind
<1>3. kind \in Kinds /\ Settled(kind, t, start, B) /\ Simulates(kind, t, start, made, base, B, R)
  BY DEF kind
<1> DEFINE All == {Told(kind, t, f[k].p, f[k].band) : k \in 0 .. n}
           Whole(out) == \A k \in DOMAIN out : ~ Part(kind, out[k])
           Same(s, u) ==
             /\ s = [p |-> s.p, band |-> s.band, out |-> s.out]
             /\ s.out \in Seq(All)
             /\ Whole(s.out) => s.out = u.out
             /\ \/ s.p = 0 /\ u.p = 0
                \/ /\ s.p # 0 /\ u.p # 0 /\ <<s.p, u.p>> \in R
                   /\ s.band = NoBand \/ BandOK(kind, t, B, s.p, s.band)
<1> HIDE DEF All
<1>4. ASSUME NEW s, NEW u, Same(s, u), Told(kind, t, s.p, s.band) \in All
      PROVE  Same(HeardStep(kind, t, s), NinjaStep(kind, made, u))
  <2>1. CASE s.p = 0
    <3>1. HeardStep(kind, t, s) = s /\ NinjaStep(kind, made, u) = u
      BY <1>4, <2>1 DEF HeardStep, NinjaStep
    <3> QED
      BY <1>4, <3>1
  <2>2. CASE s.p # 0
    <3>1. /\ <<s.p, u.p>> \in R /\ u.p # 0 /\ s.out \in Seq(All)
          /\ s.band = NoBand \/ BandOK(kind, t, B, s.p, s.band)
          /\ Whole(s.out) => s.out = u.out
      BY <1>4, <2>2
    <3> DEFINE v == HeardStep(kind, t, s)
               w == NinjaStep(kind, made, u)
               q == GoesOn(kind, t, s.p)
               told == Told(kind, t, s.p, s.band)
    <3>2. /\ v = [p |-> v.p, band |-> v.band, out |-> v.out]
          /\ v.p = q /\ v.band = BandTold(kind, t, s.p, s.band)
          /\ v.out = Append(s.out, told)
      BY <1>3, <1>4, <2>2, StepOf
    <3>3. w.p = Follow(made, u.p) /\ w.out = Append(u.out, NinjaSaid(kind, made[u.p]))
      BY <3>1, NinjaStepOf
    <3>4. /\ s.p \in Orbit(t, start) \ {0}
          /\ Alike(kind, t, B, s.p, made[u.p])
          /\ \/ q = 0 /\ Follow(made, u.p) = 0
             \/ <<q, Follow(made, u.p)>> \in R
      BY <1>3, <3>1 DEF Simulates
    <3>5. /\ Part(kind, told) \/ told = NinjaSaid(kind, made[u.p])
          /\ kind = "filter" => v.band = NoBand \/ v.band = BandAfter(kind, t, s.p, B[s.p])
      <4>1. /\ Part(kind, told) \/ told = Said(kind, t, s.p, B[s.p])
            /\ kind = "filter" => \/ BandTold(kind, t, s.p, s.band) = NoBand
                                  \/ BandTold(kind, t, s.p, s.band) = BandAfter(kind, t, s.p, B[s.p])
        <5> DEFINE p == s.p
                   b == s.band
        <5>1. kind \in Kinds /\ (b = NoBand \/ BandOK(kind, t, B, p, b))
          BY <1>3, <3>1
        <5> HIDE DEF p, b
        <5>2. /\ Part(kind, Told(kind, t, p, b)) \/ Told(kind, t, p, b) = Said(kind, t, p, B[p])
              /\ kind = "filter" => \/ BandTold(kind, t, p, b) = NoBand
                                    \/ BandTold(kind, t, p, b) = BandAfter(kind, t, p, B[p])
          BY <5>1, ToldUnder
        <5> QED
          BY <5>2 DEF p, b
      <4> HIDE DEF told, v
      <4> QED
        BY <3>2, <3>4, <4>1 DEF Alike
    <3>6. q # 0 => v.band = NoBand \/ BandOK(kind, t, B, q, v.band)
      <4>1. CASE kind = "filter"
        <5>1. q # 0 => t[q][1] >= 128 \/ B[q] = BandAfter(kind, t, s.p, B[s.p])
          BY <1>3, <3>4, <4>1 DEF Settled
        <5> HIDE DEF v, q
        <5> QED
          BY <3>5, <4>1, <5>1 DEF BandOK
      <4>2. CASE kind # "filter"
        BY <4>2 DEF BandOK
      <4> QED
        BY <4>1, <4>2
    <3>8. v.out \in Seq(All) /\ (Whole(v.out) => v.out = w.out)
      <4> HIDE DEF told, v, w, Whole
      <4>1. told \in All
        BY <1>4 DEF told
      <4>2. /\ v.out \in Seq(All) /\ Len(s.out) \in Nat
            /\ DOMAIN s.out = 1 .. Len(s.out) /\ DOMAIN v.out = 1 .. Len(s.out) + 1
            /\ \A k \in 1 .. Len(s.out) : v.out[k] = s.out[k]
            /\ v.out[Len(s.out) + 1] = told
        BY <3>1, <3>2, <4>1
      <4>3. ASSUME Whole(v.out) PROVE v.out = w.out
        <5>1. Whole(s.out) /\ ~ Part(kind, told)
          BY <4>2, <4>3 DEF Whole
        <5> QED
          BY <3>1, <3>2, <3>3, <3>5, <5>1
      <4> QED
        BY <4>2, <4>3
    <3>7. <<q, Follow(made, u.p)>> \in R => q # 0 /\ Follow(made, u.p) # 0
      <4> DEFINE e == <<q, Follow(made, u.p)>>
      <4>1. ASSUME e \in R PROVE e[1] # 0
        BY <1>3, <4>1 DEF Simulates
      <4>2. ASSUME e \in R PROVE e[2] # 0
        BY <1>3, <4>2 DEF Simulates
      <4> QED
        BY <4>1, <4>2
    <3> HIDE DEF v, w, q, told, Whole
    <3> QED
      BY <3>2, <3>3, <3>4, <3>6, <3>7, <3>8 DEF v, w
  <2> QED
    BY <2>1, <2>2
<1> HIDE DEF Same
<1>5. \A k \in 0 .. n : Same(f[k], g[k])
  <2> DEFINE S == {k \in Nat : k <= n /\ ~ Same(f[k], g[k])}
  <2> SUFFICES ASSUME NEW m \in 0 .. n, ~ Same(f[m], g[m])
               PROVE  FALSE
    OBVIOUS
  <2>1. m \in S
    OBVIOUS
  <2>2. PICK k \in S : \A j \in S : k <= j
    BY <2>1, LeastOf
  <2>3. k \in Nat /\ k <= n /\ ~ Same(f[k], g[k])
    BY <2>2
  <2>4. k \in 0 .. n
    BY <2>3
  <2>5. CASE k = 0
    <3>1. f[0] = HeardStart(start) /\ g[0] = NinjaStart(base)
      BY <1>1, <1>2, <2>4, <2>5 DEF HeardSteps, NinjaSteps
    <3>2. <<start, base>> \in R
      BY <1>3 DEF Simulates
    <3>3. <<start, base>>[2] # 0
      BY <1>3, <3>2 DEF Simulates
    <3>4. Same(HeardStart(start), NinjaStart(base))
      BY <3>2, <3>3 DEF Same, HeardStart, NinjaStart
    <3> QED
      BY <2>3, <2>5, <3>1, <3>4
  <2>6. CASE k # 0
    <3>1. k - 1 \in Nat /\ k - 1 <= n /\ ~ (k <= k - 1)
      BY <2>3, <2>6
    <3>2. ~ (k - 1 \in S)
      BY <2>2, <3>1
    <3>3. Same(f[k - 1], g[k - 1])
      BY <3>1, <3>2
    <3>5. Told(kind, t, f[k - 1].p, f[k - 1].band) \in All
      <4>1. k - 1 \in 0 .. n
        BY <3>1
      <4> QED
        BY <4>1 DEF All
    <3>4. f[k] = HeardStep(kind, t, f[k - 1]) /\ g[k] = NinjaStep(kind, made, g[k - 1])
      BY <1>1, <1>2, <2>4, <2>6 DEF HeardSteps, NinjaSteps
    <3> QED
      BY <1>4, <2>3, <3>3, <3>4, <3>5
  <2> QED
    BY <2>5, <2>6
<1>6. n \in 0 .. n
  OBVIOUS
<1> QED
  BY <1>0, <1>1, <1>2, <1>5, <1>6 DEF Same

-----------------------------------------------------------------------------
(* Converted rows.                                                         *)

\* A note out of reach is told.
LEMMA NoteLost ==
  ASSUME NEW r \in 0 .. 255, r \in 129 .. 139 \/ r > 223
  PROVE  WaveArp(r).lost # {}
<1>1. PICK arp : arp = WaveArp(r)
  OBVIOUS
<1>2. CASE r \in 129 .. 139
  <2>1. ~ (r = 128) /\ ~ (r > 223)
    BY <1>2
  <2>2. WaveArp(r) = [byte |-> 140, lost |-> {"note below C-1"}]
    BY <1>2, <2>1, Zenon DEF WaveArp
  <2>3. arp = [byte |-> 140, lost |-> {"note below C-1"}]
    BY <1>1, <2>2, Zenon
  <2>4. arp.lost # {}
    BY <2>3
  <2> QED
    BY <1>1, <2>4
<1>3. CASE r > 223
  <2>1. ~ (r = 128) /\ ~ (r \in 129 .. 139)
    BY <1>3
  <2>2. WaveArp(r) = [byte |-> 223, lost |-> {"note above B-7"}]
    BY <1>3, <2>1 DEF WaveArp
  <2>3. arp = [byte |-> 223, lost |-> {"note above B-7"}]
    BY <1>1, <2>2, Zenon
  <2>4. arp.lost # {}
    BY <2>3
  <2> QED
    BY <1>1, <2>4
<1> QED
  BY <1>2, <1>3

\* A wave row of which nothing is lost says what the table's says.
LEMMA WaveAlike ==
  ASSUME NEW l \in 0 .. 254, NEW r \in 0 .. 255, WaveStep(l, r).lost = {}
  PROVE  NinjaWaveHeard(WaveStep(l, r).row[1], WaveStep(l, r).row[2]) = WaveHeard(l, r)
<1> DEFINE command == l \in 240 .. 254
           ll   == IF command THEN 0 ELSE l
           arp  == WaveArp(IF command THEN 128 ELSE r)
           over == IF ll > 143 /\ ll \notin 224 .. 239 THEN {"waveform above $8F"} ELSE {}
           left == IF command THEN {"wavetable command"} ELSE {}
<1>0. /\ WaveStep(l, r).row = <<WaveLeft(ll), arp.byte>>
      /\ WaveStep(l, r).lost = arp.lost \cup left \cup over
  BY DEF WaveStep
<1> HIDE DEF command, ll, arp, over, left
<1>1a. arp.lost = {} /\ left = {} /\ over = {}
  <2>1. \A A, B, C : A \cup B \cup C = {} => A = {} /\ B = {} /\ C = {}
    OBVIOUS
  <2> QED
    BY <1>0, <2>1
<1>1b. \A x : {x} # {}
  OBVIOUS
<1>1. ~ command
  BY <1>1a, <1>1b DEF left
<1>2. /\ WaveStep(l, r).row = <<WaveLeft(l), WaveArp(r).byte>>
      /\ WaveArp(r).lost = {} /\ ~ (l > 143 /\ l \notin 224 .. 239)
  <2>1. ll = l /\ arp = WaveArp(r)
    BY <1>1 DEF ll, arp
  <2>2. ~ (ll > 143 /\ ll \notin 224 .. 239)
    BY <1>1a, <1>1b DEF over
  <2> QED
    BY <1>0, <1>1a, <2>1, <2>2
<1>3. WaveArp(r).byte = IF r = 128 THEN 0 ELSE r
  <2>1. ~ (r \in 129 .. 139) /\ ~ (r > 223)
    BY <1>2, NoteLost
  <2> QED
    BY <2>1 DEF WaveArp
<1>4. CASE l \in 0 .. 15
  <2>1. WaveLeft(l) = 144 + l
    BY <1>4 DEF WaveLeft
  <2> QED
    BY <1>2, <1>3, <1>4, <2>1 DEF NinjaWaveHeard, WaveHeard
<1>5. CASE l \in 224 .. 239
  <2>1. WaveLeft(l) = l - 224 /\ l % 16 = l - 224
    BY <1>5 DEF WaveLeft
  <2> QED
    BY <1>2, <1>3, <1>5, <2>1 DEF NinjaWaveHeard, WaveHeard
<1>6. CASE l \in 16 .. 143
  <2>1. WaveLeft(l) = l
    BY <1>6 DEF WaveLeft, Lesser
  <2> QED
    BY <1>2, <1>3, <1>6, <2>1 DEF NinjaWaveHeard, WaveHeard
<1> QED
  BY <1>1, <1>2, <1>4, <1>5, <1>6

\* A pulse row keeps both nibbles of its setting.
LEMMA PulseAlike ==
  ASSUME NEW l \in 0 .. 254, NEW r \in 0 .. 255
  PROVE  NinjaPulseHeard(PulseStep(l, r)[1], PulseStep(l, r)[2]) = PulseHeard(l, r)
<1>1. CASE l >= 128
  <2> DEFINE x == (r - (r % 16)) + (l % 16)
  <2>1. PulseStep(l, r) = <<128, x>>
    BY <1>1 DEF PulseStep
  <2>2. x % 16 = l % 16 /\ x \div 16 = r \div 16
    OBVIOUS
  <2> HIDE DEF x
  <2> QED
    BY <1>1, <2>1, <2>2 DEF NinjaPulseHeard, PulseHeard
<1>2. CASE ~ (l >= 128)
  BY <1>2 DEF PulseStep, NinjaPulseHeard, PulseHeard
<1> QED
  BY <1>1, <1>2

\* A band reads back from the byte it is packed in.
LEMMA BandReads ==
  ASSUME NEW b \in Bands, NEW c
  PROVE  NinjaFilterHeard(FilterSet(b), c) = <<"set", b, c>>
<1>1. b.pass \in 0 .. 7 /\ b.mask \in 0 .. 15 /\ b = [pass |-> b.pass, mask |-> b.mask]
  BY DEF Bands
<1> DEFINE p == b.pass
           m == b.mask
           s == 16 * (p + 8) + m
<1>2. s >= 128 /\ (s \div 16) % 8 = p /\ s % 16 = m
  <2> HIDE DEF p, m
  <2>1. p \in 0 .. 7 /\ m \in 0 .. 15
    BY <1>1 DEF p, m
  <2>2. s \div 16 = p + 8 /\ s % 16 = m
    BY <2>1
  <2> QED
    BY <2>1, <2>2
<1> QED
  BY <1>1, <1>2 DEF FilterSet, NinjaFilterHeard

-----------------------------------------------------------------------------
(* The walk of a program being made.                                       *)

\* Where the position stands: at q, or at the jump before it.
Stands(t, p, q) == p = q \/ (p \in DOMAIN t /\ t[p][1] = TABLEJUMP /\ t[p][2] = q)

\* R pairs rows of the table with the rows made of them, q is the table's row
\* that is next: it follows the row made last. A position passed is paired; one
\* on a jump may stand for the row that is next.
Walks(B, R, q) ==
  LET t     == source.table
      start == job[1]
      kind  == source.kind
  IN  /\ Settled(kind, t, start, B)
      /\ q \in Orbit(t, start)
      /\ Stands(t, pos, q)
      /\ q # 0 => BandOK(kind, t, B, q, band)
      /\ IF Len(rows) = 0 THEN q = start ELSE <<start, 0>> \in R
      /\ \A e \in R :
           /\ e = <<e[1], e[2]>>
           /\ e[1] \in Orbit(t, start) \ {0}
           /\ e[2] \in 0 .. Len(rows) - 1
           /\ Alike(kind, t, B, e[1], rows[e[2] + 1])
           /\ IF e[2] + 1 = Len(rows) THEN GoesOn(kind, t, e[1]) = q
              ELSE <<GoesOn(kind, t, e[1]), e[2] + 1>> \in R
      /\ \A p \in DOMAIN mapped :
           LET goal == IF t[p][1] = TABLEJUMP THEN t[p][2] ELSE p
           IN  /\ p \in DOMAIN t
               /\ \/ <<goal, mapped[p]>> \in R
                  \/ t[p][1] = TABLEJUMP /\ pos = q /\ goal = q /\ mapped[p] = Len(rows)

\* What a program is that nothing was left out of.
Sound(a) == a[2] = NoVibrato /\ dropped = {} /\ Playable(source.table, a[1])

\* The filter programs asked for come to each row under one band: of others the
\* converter keeps the first band it meets.
BandsSettle ==
  \A s \in Sources : \A a \in s.asked :
    s.kind = "filter" /\ a[2] = NoVibrato /\ Playable(s.table, a[1])
      => \E B : Settled("filter", s.table, a[1], B)

\* The programs stored say what their walks say.
Kept ==
  \A a \in DOMAIN programs : Sound(a) =>
    \E B, R : /\ Settled(source.kind, source.table, a[1], B)
              /\ Simulates(source.kind, source.table, a[1], target, programs[a], B, R)

\* The inductive invariant, with IInv: the program being made is paired so far.
PInv ==
  /\ job # <<>> /\ ~ failed /\ Sound(job) => \E B, R, q : Walks(B, R, q)
  /\ Kept

\* The table converted, as the lemmas below need it.
LEMMA SourceIs ==
  ASSUME SourcesOK, IInv
  PROVE  /\ source \in Sources /\ source.kind \in Kinds /\ source.asked \subseteq Nat \X Pair
         /\ source.table \in Seq(Byte \X Byte)
         /\ \A p \in DOMAIN source.table :
              /\ source.table[p] = <<source.table[p][1], source.table[p][2]>>
              /\ source.table[p][1] \in 0 .. 255 /\ source.table[p][2] \in 0 .. 255
<1>1. SourceOK(source) /\ source \in Sources
  BY DEF SourcesOK, IInv
<1>2. ASSUME NEW p \in DOMAIN source.table PROVE source.table[p] \in Byte \X Byte
  BY <1>1 DEF SourceOK
<1>3. ASSUME NEW p \in DOMAIN source.table
      PROVE  /\ source.table[p] = <<source.table[p][1], source.table[p][2]>>
             /\ source.table[p][1] \in 0 .. 255 /\ source.table[p][2] \in 0 .. 255
  <2> DEFINE row == source.table[p]
  <2>1. row \in Byte \X Byte
    BY <1>2
  <2> HIDE DEF row
  <2>2. row = <<row[1], row[2]>> /\ row[1] \in 0 .. 255 /\ row[2] \in 0 .. 255
    BY <2>1 DEF Byte
  <2> QED
    BY <2>2 DEF row
<1>4. /\ source.kind \in Kinds /\ source.asked \subseteq Nat \X Pair
      /\ source.table \in Seq(Byte \X Byte)
  BY <1>1 DEF SourceOK, Kinds
<1> QED
  BY <1>1, <1>3, <1>4

\* A walk begins with nothing paired.
LEMMA AskWalks ==
  ASSUME SourcesOK, BandsSettle, IInv, NEW a \in source.asked, Ask(a[1], a[2]),
         a[2] = NoVibrato, Playable(source.table, a[1])
  PROVE  \E B : Walks(B, {}, a[1])'
<1> DEFINE t == source.table
           start == a[1]
<1>1. /\ job'[1] = start /\ pos' = start /\ rows' = <<>> /\ mapped' = <<>>
      /\ band' = DefaultBand /\ source' = source
  BY DEF Ask
<1>2. /\ start \in Orbit(t, start) /\ start # 0
      /\ start \in DOMAIN t /\ start \in Nat
      /\ \A p \in Orbit(t, start) : p # 0 => p \in DOMAIN t
  <2>1. start \in Nat /\ t \in Seq(Byte \X Byte)
    BY SourceIs
  <2>2. DOMAIN t = 1 .. Len(t) /\ Len(t) \in Nat
    BY <2>1
  <2> HIDE DEF t, start
  <2>3. /\ start \in Orbit(t, start) /\ start # 0
        /\ \A p \in Orbit(t, start) : p = 0 \/ p \in 1 .. Len(t) - 1
    BY <2>1, OrbitClosed DEF t, start
  <2> QED
    BY <2>1, <2>2, <2>3
<1>3. \E B : Settled(source.kind, t, start, B)
  <2>1. CASE source.kind = "filter"
    BY <2>1, SourceIs DEF BandsSettle
  <2>2. CASE source.kind # "filter"
    <3> DEFINE B == [p \in DOMAIN t |-> DefaultBand]
    <3>1. B \in [DOMAIN t -> Bands] /\ B[start] = DefaultBand
      BY <1>2 DEF DefaultBand, Bands
    <3>2. \A p : LastOf(source.kind, t, p) = p
      BY <2>2 DEF LastOf
    <3> HIDE DEF B
    <3>3. Settled(source.kind, t, start, B)
      BY <2>2, <3>1, <3>2 DEF Settled
    <3> QED
      BY <3>3
  <2> QED
    BY <2>1, <2>2
<1>4. PICK B : Settled(source.kind, t, start, B)
  BY <1>3
<1>5. BandOK(source.kind, t, B, start, DefaultBand)
  BY <1>4 DEF BandOK, Settled
<1>6. Len(<<>>) = 0 /\ DOMAIN <<>> = {}
  OBVIOUS
<1>7. Stands(t, start, start)
  BY DEF Stands
<1> HIDE DEF t, start
<1>8. Walks(B, {}, start)'
  BY <1>1, <1>2, <1>4, <1>5, <1>6, <1>7 DEF Walks, t
<1> QED
  BY <1>8 DEF start

\* A jump makes no row: it stands for the row that is next.
LEMMA JumpWalks ==
  ASSUME SourcesOK, IInv, Jump, NEW B, NEW R, NEW q, Walks(B, R, q), Playable(source.table, job[1]),
         job \in source.asked
  PROVE  Walks(B, R, q)'
<1> DEFINE t == source.table
<1>1. /\ pos \in DOMAIN t /\ t[pos][1] = TABLEJUMP
      /\ mapped' = With(mapped, pos, Len(rows)) /\ pos' = t[pos][2]
      /\ UNCHANGED <<source, job, rows, band>>
  BY DEF Jump, Walking, Marked
<1>2. q = 0 \/ t[q][1] # TABLEJUMP
  <2>1. job[1] \in Nat /\ t \in Seq(Byte \X Byte)
    BY SourceIs
  <2> QED
    BY <2>1, OrbitClosed DEF Walks
<1>3. pos # q
  <2>1. pos # 0
    <3>1. t \in Seq(Byte \X Byte)
      BY SourceIs
    <3>2. DOMAIN t = 1 .. Len(t)
      BY <3>1
    <3> QED
      BY <1>1, <3>2
  <2> QED
    BY <1>1, <1>2, <2>1
<1>4. t[pos][2] = q
  BY <1>3 DEF Walks, Stands
<1>5. pos' = q /\ Stands(t, q, q)
  BY <1>1, <1>4 DEF Stands
<1>6. ASSUME NEW p \in DOMAIN mapped'
      PROVE  LET goal == IF t[p][1] = TABLEJUMP THEN t[p][2] ELSE p
             IN  /\ p \in DOMAIN t
                 /\ \/ <<goal, mapped'[p]>> \in R
                    \/ t[p][1] = TABLEJUMP /\ goal = q /\ mapped'[p] = Len(rows)
  <2>1. CASE p = pos
    BY <1>1, <1>4, <2>1 DEF With
  <2>2. CASE p # pos
    <3>1. p \in DOMAIN mapped /\ mapped'[p] = mapped[p]
      BY <1>1, <2>2 DEF With
    <3> QED
      BY <3>1 DEF Walks
  <2> QED
    BY <2>1, <2>2
<1>7. Walks(B, R, q)
  OBVIOUS
<1> QED
  BY <1>1, <1>5, <1>6, <1>7 DEF Walks

-----------------------------------------------------------------------------
(* A row is made.                                                          *)

\* What a row made says, and what it takes of the table.
Makes(row) ==
  LET t    == source.table
      kind == source.kind
      last == LastOf(kind, t, pos)
      k    == Len(rows)
  IN  /\ rows' = Append(rows, row)
      /\ NinjaSaid(kind, row) = Said(kind, t, pos, band)
      /\ pos' = last + 1
      /\ band' = BandAfter(kind, t, pos, band)
      /\ \/ last = pos /\ mapped' = With(mapped, pos, k)
         \/ /\ kind = "filter" /\ last = pos + 1
            /\ pos + 1 \in DOMAIN t /\ t[pos + 1][1] = 0
            /\ mapped' = With(With(mapped, pos, k), pos + 1, k)
            /\ NinjaSaid(kind, row) = <<"set", band', t[pos + 1][2]>>

\* A row made says what the table's row says under the band there, a merged one what
\* both its rows say.
LEMMA RowMakes ==
  ASSUME SourcesOK, IInv, Row, ~ failed', dropped' = {}
  PROVE  \E row : Makes(row)
<1> DEFINE t == source.table
           l == t[pos][1]
           r == t[pos][2]
           k == Len(rows)
<1>1. /\ pos \in DOMAIN t /\ l # TABLEJUMP
      /\ WaveRow \/ PulseRow \/ FilterRow
  BY DEF Row, Walking
<1>2. t[pos] = <<l, r>> /\ l \in 0 .. 254 /\ r \in 0 .. 255
  <2>1. t[pos] = <<l, r>> /\ l \in 0 .. 255 /\ r \in 0 .. 255
    BY <1>1, SourceIs
  <2>2. l # 255
    BY <1>1 DEF TABLEJUMP
  <2> HIDE DEF l, r
  <2> QED
    BY <2>1, <2>2
<1>3. CASE WaveRow
  <2> DEFINE step == WaveStep(l, r)
  <2>1. /\ source.kind = "wave" /\ rows' = Append(rows, step.row) /\ Unsupported(step.lost)
        /\ mapped' = With(mapped, pos, k) /\ pos' = pos + 1 /\ band' = band
    BY <1>3 DEF WaveRow, Marked
  <2>2. step.lost = {}
    <3> HIDE DEF step
    <3> QED
      BY <2>1 DEF Unsupported
  <2>3. NinjaWaveHeard(step.row[1], step.row[2]) = WaveHeard(l, r)
    <3> HIDE DEF l, r
    <3> QED
      BY <1>2, <2>2, WaveAlike
  <2> HIDE DEF step
  <2> QED
    BY <2>1, <2>3 DEF Makes, NinjaSaid, Said, LastOf, BandAfter
<1>4. CASE PulseRow
  <2> DEFINE row == PulseStep(l, r)
  <2>1. /\ source.kind = "pulse" /\ rows' = Append(rows, row)
        /\ mapped' = With(mapped, pos, k) /\ pos' = pos + 1 /\ band' = band
    BY <1>4 DEF PulseRow, Marked
  <2>3. NinjaPulseHeard(row[1], row[2]) = PulseHeard(l, r)
    <3> HIDE DEF l, r
    <3> QED
      BY <1>2, PulseAlike
  <2> HIDE DEF row
  <2> QED
    BY <2>1, <2>3 DEF Makes, NinjaSaid, Said, LastOf, BandAfter
<1>5. CASE FilterRow
  <2>0. source.kind = "filter" /\ band \in Bands /\ FilterSet(band) # TABLEJUMP
    BY <1>5 DEF FilterRow, IInv, Bands
  <2>1. CASE l >= 128
    <3> DEFINE cutoff == IF FilterMerges THEN t[pos + 1][2] ELSE 0
               b      == BandOf(l, r)
               row    == <<FilterSet(b), cutoff>>
    <3>1. /\ band' = b /\ rows' = Append(rows, row)
          /\ mapped' = IF FilterMerges THEN With(With(mapped, pos, k), pos + 1, k)
                       ELSE With(mapped, pos, k)
          /\ pos' = IF FilterMerges THEN pos + 2 ELSE pos + 1
      BY <1>5, <2>1 DEF FilterRow, Marked
    <3>2. b \in Bands
      <4>1. (l \div 16) % 8 \in 0 .. 7 /\ r % 16 \in 0 .. 15
        <5> HIDE DEF l, r
        <5> QED
          BY <1>2
      <4> QED
        BY <4>1 DEF BandOf, Bands
    <3>3. NinjaFilterHeard(row[1], row[2]) = <<"set", b, cutoff>>
      <4> HIDE DEF b, cutoff
      <4>1. NinjaFilterHeard(FilterSet(b), cutoff) = <<"set", b, cutoff>>
        BY <3>2, BandReads
      <4> QED
        BY <4>1
    <3>4. /\ FilterFilled(t, pos, band).heard = <<"set", b, cutoff>>
          /\ FilterFilled(t, pos, band).band = b
          /\ FilterFilled(t, pos, DefaultBand).last = IF FilterMerges THEN pos + 1 ELSE pos
      BY <2>1 DEF FilterFilled, FilterMerges
    <3>6. pos \in Nat
      <4>1. t \in Seq(Byte \X Byte)
        BY SourceIs
      <4>2. DOMAIN t = 1 .. Len(t) /\ Len(t) \in Nat
        BY <4>1
      <4> QED
        BY <1>1, <4>2
    <3> HIDE DEF b, cutoff, l, r
    <3>7. CASE FilterMerges
      <4>1. cutoff = t[pos + 1][2] /\ pos + 1 \in DOMAIN t /\ t[pos + 1][1] = 0
        BY <3>7 DEF cutoff, FilterMerges
      <4>2. pos' = (pos + 1) + 1
        BY <3>1, <3>6, <3>7
      <4> HIDE DEF row
      <4> QED
        BY <2>0, <3>1, <3>3, <3>4, <3>7, <4>1, <4>2 DEF Makes, NinjaSaid, Said, LastOf, BandAfter
    <3>8. CASE ~ FilterMerges
      <4> HIDE DEF row
      <4> QED
        BY <2>0, <3>1, <3>3, <3>4, <3>8 DEF Makes, NinjaSaid, Said, LastOf, BandAfter
    <3> QED
      BY <3>7, <3>8
  <2>2. CASE l = 0
    <3> DEFINE row == <<FilterSet(band), r>>
    <3>1. /\ rows' = Append(rows, row) /\ mapped' = With(mapped, pos, k) /\ pos' = pos + 1
          /\ band' = band
      BY <1>5, <2>2 DEF FilterRow, Marked
    <3>2. NinjaFilterHeard(row[1], row[2]) = <<"set", band, r>>
      <4> HIDE DEF r
      <4>1. NinjaFilterHeard(FilterSet(band), r) = <<"set", band, r>>
        BY <2>0, BandReads
      <4> QED
        BY <4>1
    <3>3. /\ FilterFilled(t, pos, band) = [last |-> pos, band |-> band, heard |-> <<"set", band, r>>]
          /\ FilterFilled(t, pos, DefaultBand).last = pos
      BY <2>2 DEF FilterFilled
    <3> HIDE DEF row, r, l
    <3> QED
      BY <2>0, <3>1, <3>2, <3>3 DEF Makes, NinjaSaid, Said, LastOf, BandAfter
  <2>3. CASE l \in 1 .. 127
    <3> DEFINE row == <<l, r>>
    <3>1. /\ rows' = Append(rows, row) /\ mapped' = With(mapped, pos, k) /\ pos' = pos + 1
          /\ band' = band
      <4>1. ~ (l >= 128) /\ ~ (l = 0)
        BY <2>3
      <4> QED
        BY <1>5, <4>1 DEF FilterRow, Marked
    <3>2. NinjaFilterHeard(row[1], row[2]) = <<"mod", l, r>>
      <4>1. row[1] = l /\ row[2] = r /\ ~ (l >= 128)
        BY <2>3
      <4> HIDE DEF row, l, r
      <4> QED
        BY <4>1 DEF NinjaFilterHeard
    <3>3. /\ FilterFilled(t, pos, band) = [last |-> pos, band |-> band, heard |-> <<"mod", l, r>>]
          /\ FilterFilled(t, pos, DefaultBand).last = pos
      BY <2>3 DEF FilterFilled
    <3> HIDE DEF row, r, l
    <3> QED
      BY <2>0, <3>1, <3>2, <3>3 DEF Makes, NinjaSaid, Said, LastOf, BandAfter
  <2>4. l >= 128 \/ l = 0 \/ l \in 1 .. 127
    <3> HIDE DEF l, r
    <3> QED
      BY <1>2
  <2> QED
    BY <2>1, <2>2, <2>3, <2>4
<1> QED
  BY <1>1, <1>3, <1>4, <1>5

\* A row made goes on with the pairing.
LEMMA RowWalks ==
  ASSUME SourcesOK, IInv, Row, ~ failed', dropped' = {}, job \in source.asked,
         Playable(source.table, job[1]), NEW B, NEW R, NEW q, Walks(B, R, q)
  PROVE  \E R2, q2 : Walks(B, R2, q2)'
<1> DEFINE t     == source.table
           start == job[1]
           kind  == source.kind
           k     == Len(rows)
           last  == LastOf(kind, t, pos)
           q2    == GoesOn(kind, t, pos)
           R2    == R \cup {<<pos, k>>} \cup (IF last = pos THEN {} ELSE {<<pos + 1, k>>})
<1>1. PICK row : Makes(row)
  BY RowMakes
<1>2. /\ pos \in DOMAIN t /\ t[pos][1] # TABLEJUMP
      /\ UNCHANGED <<source, job>>
  BY DEF Row, Walking
<1>3. /\ start \in Nat /\ t \in Seq(Byte \X Byte) /\ kind \in Kinds
      /\ Len(t) \in Nat /\ DOMAIN t = 1 .. Len(t)
  <2>1. start \in Nat /\ t \in Seq(Byte \X Byte) /\ kind \in Kinds
    BY SourceIs
  <2> QED
    BY <2>1
<1>4. pos = q
  BY <1>2 DEF Walks, Stands
<1> HIDE DEF t, start, kind, last, q2
<1>5. /\ pos \in Orbit(t, start) \ {0} /\ pos \in 1 .. Len(t) - 1
      /\ Settled(kind, t, start, B) /\ BandOK(kind, t, B, pos, band)
  <2>1. pos # 0
    BY <1>2, <1>3
  <2>2. pos \in Orbit(t, start) /\ Settled(kind, t, start, B) /\ BandOK(kind, t, B, pos, band)
    BY <1>4, <2>1 DEF Walks, t, start, kind
  <2>3. pos \in 1 .. Len(t) - 1
    BY <1>3, <2>1, <2>2, OrbitClosed DEF t, start
  <2> QED
    BY <2>1, <2>2, <2>3
<1>6. /\ Said(kind, t, pos, band) = Said(kind, t, pos, B[pos])
      /\ kind = "filter" => BandAfter(kind, t, pos, band) = BandAfter(kind, t, pos, B[pos])
  BY <1>3, <1>5, SaidUnder
<1>7. last # pos => /\ kind = "filter" /\ last = pos + 1 /\ pos + 1 \in DOMAIN t
                    /\ t[pos + 1][1] = 0
                    /\ NinjaSaid(kind, row) = <<"set", band', t[pos + 1][2]>>
  BY <1>1 DEF Makes, last, kind, t
<1>8. /\ last \in Orbit(t, start) \ {0} /\ last \in 1 .. Len(t) - 1
      /\ GoesOn(kind, t, last) = q2 /\ q2 = Follow(t, last)
  <2>0. q2 = Follow(t, last)
    BY DEF GoesOn, q2, last
  <2>1. CASE last = pos
    BY <1>5, <2>0, <2>1 DEF q2
  <2>2. CASE last # pos
    <3>1. Follow(t, pos) = pos + 1
      BY <1>7, <2>2 DEF Follow, TABLEJUMP
    <3>2. pos + 1 \in Orbit(t, start) /\ pos + 1 # 0
      <4>1. Follow(t, pos) \in Orbit(t, start)
        <5>1. Playable(t, start)
          BY DEF t, start
        <5> QED
          BY <1>3, <1>5, <5>1, OrbitClosed
      <4> QED
        BY <1>5, <3>1, <4>1
    <3>3. last \in 1 .. Len(t) - 1
      BY <1>3, <1>7, <2>2, <3>2, OrbitClosed DEF t, start
    <3>4. LastOf(kind, t, last) = last
      BY <1>7, <2>2 DEF LastOf, FilterFilled
    <3> QED
      BY <1>7, <2>0, <2>2, <3>2, <3>3, <3>4 DEF GoesOn
  <2> QED
    BY <2>1, <2>2
<1>9. /\ q2 \in Orbit(t, start)
      /\ Stands(t, pos', q2)
  <2>1. q2 \in Orbit(t, start)
    BY <1>3, <1>8, OrbitClosed DEF t, start
  <2>2. pos' = last + 1 /\ last + 1 \in DOMAIN t
    BY <1>1, <1>3, <1>8 DEF Makes, last, kind, t
  <2> QED
    BY <1>8, <2>1, <2>2 DEF Stands, Follow
<1>10. q2 # 0 => BandOK(kind, t, B, q2, band')
  <2>1. band' = BandAfter(kind, t, pos, band)
    BY <1>1 DEF Makes, kind, t
  <2>2. kind = "filter" /\ q2 # 0 => t[q2][1] >= 128 \/ B[q2] = BandAfter(kind, t, pos, B[pos])
    BY <1>5 DEF Settled, q2
  <2> QED
    BY <1>6, <2>1, <2>2 DEF BandOK
<1>11. /\ k \in Nat /\ Len(rows') = k + 1 /\ rows'[k + 1] = row
       /\ \A i \in 1 .. k : rows'[i] = rows[i]
  <2>1. rows' = Append(rows, row) /\ rows \in Seq(PlainRow)
    BY <1>1 DEF Makes, IInv
  <2> QED
    BY <2>1
<1> HIDE DEF k, R2
<1>12. ASSUME NEW e \in R2
       PROVE  /\ e = <<e[1], e[2]>>
              /\ e[1] \in Orbit(t, start) \ {0}
              /\ e[2] \in 0 .. Len(rows') - 1
              /\ Alike(kind, t, B, e[1], rows'[e[2] + 1])
              /\ IF e[2] + 1 = Len(rows') THEN GoesOn(kind, t, e[1]) = q2
                 ELSE <<GoesOn(kind, t, e[1]), e[2] + 1>> \in R2
  <2>1. CASE e \in R
    <3>1. /\ e = <<e[1], e[2]>> /\ e[1] \in Orbit(t, start) \ {0}
          /\ e[2] \in 0 .. k - 1
          /\ Alike(kind, t, B, e[1], rows[e[2] + 1])
          /\ IF e[2] + 1 = k THEN GoesOn(kind, t, e[1]) = q
             ELSE <<GoesOn(kind, t, e[1]), e[2] + 1>> \in R
      BY <2>1 DEF Walks, t, start, kind, k
    <3>2. e[2] + 1 \in 1 .. k /\ e[2] \in 0 .. Len(rows') - 1 /\ e[2] + 1 # Len(rows')
      BY <1>11, <3>1
    <3>3. <<GoesOn(kind, t, e[1]), e[2] + 1>> \in R2
      BY <1>4, <3>1 DEF R2
    <3> QED
      BY <1>11, <3>1, <3>2, <3>3
  <2>2. CASE e = <<pos, k>>
    <3>1. Alike(kind, t, B, pos, row)
      BY <1>1, <1>6 DEF Alike, Makes, kind, t
    <3> QED
      BY <1>5, <1>11, <2>2, <3>1 DEF q2
  <2>3. CASE last # pos /\ e = <<pos + 1, k>>
    <3>1. B[pos + 1] = BandAfter(kind, t, pos, B[pos])
      BY <1>5, <1>7, <2>3 DEF Settled, last
    <3>2. band' = B[pos + 1]
      BY <1>1, <1>6, <1>7, <2>3, <3>1 DEF Makes, kind, t
    <3>3. Said(kind, t, pos + 1, B[pos + 1]) = <<"set", B[pos + 1], t[pos + 1][2]>>
      BY <1>7, <2>3 DEF Said, FilterFilled
    <3>4. Alike(kind, t, B, pos + 1, row)
      BY <1>7, <2>3, <3>2, <3>3 DEF Alike
    <3> QED
      BY <1>7, <1>8, <1>11, <2>3, <3>4
  <2> QED
    BY <2>1, <2>2, <2>3 DEF R2
<1>13. ASSUME NEW p \in DOMAIN mapped'
       PROVE  LET goal == IF t[p][1] = TABLEJUMP THEN t[p][2] ELSE p
              IN  p \in DOMAIN t /\ <<goal, mapped'[p]>> \in R2
  <2>1. CASE p = pos
    <3>1. mapped'[p] = k
      BY <1>1, <2>1 DEF Makes, With, k
    <3> QED
      BY <1>2, <2>1, <3>1 DEF R2
  <2>2. CASE p # pos /\ last # pos /\ p = pos + 1
    <3>1. mapped'[p] = k
      BY <1>1, <2>2 DEF Makes, With, k, last, kind, t
    <3> QED
      BY <1>7, <2>2, <3>1 DEF R2, TABLEJUMP
  <2>3. CASE p # pos /\ ~ (last # pos /\ p = pos + 1)
    <3>1. p \in DOMAIN mapped /\ mapped'[p] = mapped[p]
      <4>1. \/ mapped' = With(mapped, pos, k)
            \/ last # pos /\ mapped' = With(With(mapped, pos, k), pos + 1, k)
        <5>1. ~ (pos + 1 = pos)
          BY <1>5
        <5> QED
          BY <1>1, <5>1 DEF Makes, last, kind, t, k
      <4>2. CASE mapped' = With(mapped, pos, k)
        BY <2>3, <4>2 DEF With
      <4>3. CASE last # pos /\ mapped' = With(With(mapped, pos, k), pos + 1, k)
        BY <2>3, <4>3 DEF With
      <4> QED
        BY <4>1, <4>2, <4>3
    <3> QED
      BY <1>4, <3>1 DEF Walks, R2, t, k
  <2> QED
    BY <2>1, <2>2, <2>3
<1>14. <<start, 0>> \in R2
  <2>1. CASE k = 0
    BY <1>4, <2>1 DEF Walks, R2, k, start
  <2>2. CASE k # 0
    BY <2>2 DEF Walks, R2, k, start
  <2> QED
    BY <2>1, <2>2
<1>15. Len(rows') # 0
  BY <1>11
<1>16. PICK Q, X : Q = q2 /\ X = R2
  OBVIOUS
<1>17. Walks(B, X, Q)'
  <2>1. source' = source /\ job' = job
    BY <1>2
  <2> HIDE DEF R2, q2, t, start, kind, last, k
  <2>2. /\ Settled(kind, t, start, B) /\ Q \in Orbit(t, start) /\ Stands(t, pos', Q)
        /\ Q # 0 => BandOK(kind, t, B, Q, band')
        /\ <<start, 0>> \in X /\ Len(rows') # 0
    BY <1>5, <1>9, <1>10, <1>14, <1>15, <1>16
  <2>3. \A e \in X :
          /\ e = <<e[1], e[2]>>
          /\ e[1] \in Orbit(t, start) \ {0}
          /\ e[2] \in 0 .. Len(rows') - 1
          /\ Alike(kind, t, B, e[1], rows'[e[2] + 1])
          /\ IF e[2] + 1 = Len(rows') THEN GoesOn(kind, t, e[1]) = Q
             ELSE <<GoesOn(kind, t, e[1]), e[2] + 1>> \in X
    BY <1>12, <1>16
  <2>4. \A p \in DOMAIN mapped' :
          LET goal == IF t[p][1] = TABLEJUMP THEN t[p][2] ELSE p
          IN  p \in DOMAIN t /\ <<goal, mapped'[p]>> \in X
    BY <1>13, <1>16
  <2> QED
    BY <2>1, <2>2, <2>3, <2>4 DEF Walks, t, start, kind
<1> QED
  BY <1>17

-----------------------------------------------------------------------------
(* A program is stored.                                                    *)

\* The walk ends at its stop, or where it came round: at a row paired before.
LEMMA WalkEnds ==
  ASSUME SourcesOK, IInv, ~ failed, job # <<>>, ~ Walking, job \in source.asked,
         Playable(source.table, job[1]), NEW B, NEW R, NEW q, Walks(B, R, q)
  PROVE  /\ Len(rows) # 0
         /\ IF pos \in DOMAIN mapped THEN <<q, mapped[pos]>> \in R ELSE q = 0
<1> DEFINE t == source.table
           start == job[1]
<1>1. /\ start \in Nat /\ t \in Seq(Byte \X Byte) /\ Len(t) \in Nat /\ DOMAIN t = 1 .. Len(t)
  <2>1. start \in Nat /\ t \in Seq(Byte \X Byte)
    BY SourceIs
  <2> QED
    BY <2>1
<1> HIDE DEF t, start
<1>2. q = 0 \/ (q \in DOMAIN t /\ t[q][1] # TABLEJUMP)
  <2>1. q \in Orbit(t, start)
    BY DEF Walks, t, start
  <2>2. q = 0 \/ (q \in 1 .. Len(t) - 1 /\ t[q][1] # TABLEJUMP)
    BY <1>1, <2>1, OrbitClosed DEF t, start
  <2> QED
    BY <1>1, <2>2
<1>3. start # 0
  BY <1>1, OrbitClosed DEF t, start
<1>4. Stands(t, pos, q)
  BY DEF Walks, t
<1>5. CASE pos \in DOMAIN mapped
  <2> DEFINE goal == IF t[pos][1] = TABLEJUMP THEN t[pos][2] ELSE pos
  <2>1. /\ pos \in DOMAIN t
        /\ \/ <<goal, mapped[pos]>> \in R
           \/ t[pos][1] = TABLEJUMP /\ pos = q
    BY <1>5 DEF Walks, t
  <2>2. pos = q => t[pos][1] # TABLEJUMP
    BY <1>1, <1>2, <2>1
  <2>3. goal = q /\ <<goal, mapped[pos]>> \in R
    BY <1>4, <2>1, <2>2 DEF Stands
  <2>4. <<goal, mapped[pos]>>[2] \in 0 .. Len(rows) - 1
    BY <2>3 DEF Walks
  <2>5. Len(rows) # 0
    BY <2>4
  <2> QED
    BY <1>5, <2>3, <2>5
<1>6. CASE pos \notin DOMAIN mapped
  <2>1. pos \notin DOMAIN t
    BY <1>6 DEF Walking, t
  <2>2. q = 0
    BY <1>2, <1>4, <2>1 DEF Stands
  <2>3. Len(rows) # 0
    BY <1>3, <2>2 DEF Walks, start
  <2> QED
    BY <1>6, <2>2, <2>3
<1> QED
  BY <1>5, <1>6

\* The program stored says what its walk said.
LEMMA StoreSimulates ==
  ASSUME SourcesOK, IInv, Store, ~ failed', dropped' = {}, job \in source.asked, job[2] = NoVibrato,
         Playable(source.table, job[1]), NEW B, NEW R, NEW q, Walks(B, R, q)
  PROVE  \E S : Simulates(source.kind, source.table, job[1], target', Len(target) + 1, B, S)
<1> DEFINE t     == source.table
           kind  == source.kind
           start == job[1]
           base  == Len(target) + 1
           n     == Len(rows)
           loops == pos \in DOMAIN mapped
           to    == IF loops THEN base + mapped[pos] ELSE 0
           made  == Append(rows, <<TABLEJUMP, to>>)
           S     == {<<e[1], base + e[2]>> : e \in R}
<1>1. ~ failed /\ job # <<>> /\ ~ Walking
  BY DEF Store
<1>2. target' = target \o made
  <2>1. target' = target \o Append(ProgramRows(loops, <<>>), <<TABLEJUMP, to>>)
    BY DEF Store, LoopTo
  <2>2. ProgramRows(loops, <<>>) = rows
    BY DEF ProgramRows, IInv
  <2> QED
    BY <2>1, <2>2
<1>3. /\ rows \in Seq(PlainRow) /\ n \in Nat /\ target \in Seq(Pair)
      /\ base \in Nat \ {0} /\ to \in Nat
      /\ \A k \in 1 .. n : rows[k][1] # TABLEJUMP
  <2>1. rows \in Seq(PlainRow) /\ target \in Seq(Pair)
    BY DEF IInv
  <2>2. n \in Nat /\ base \in Nat \ {0}
    BY <2>1
  <2>3. to \in Nat
    BY <2>2 DEF IInv
  <2>4. \A k \in 1 .. n : rows[k][1] # TABLEJUMP
    BY <2>1 DEF PlainRow
  <2> QED
    BY <2>1, <2>2, <2>3, <2>4
<1> HIDE DEF loops, to
<1>4. /\ made \in Seq(Pair) /\ Len(made) = n + 1 /\ made[n + 1] = <<TABLEJUMP, to>>
      /\ \A k \in 1 .. n : made[k] = rows[k]
  BY <1>3 DEF PlainRow, Pair, TABLEJUMP
<1> HIDE DEF made, n
<1>5. /\ Len(target') = base + n
      /\ \A k \in 1 .. n + 1 : target'[Len(target) + k] = made[k]
  <2>1. /\ Len(target \o made) = Len(target) + Len(made) /\ Len(target) \in Nat
        /\ \A k \in 1 .. Len(made) : (target \o made)[Len(target) + k] = made[k]
    BY <1>3, <1>4, Behind
  <2>2. Len(target) + (n + 1) = base + n
    BY <1>3, <2>1
  <2> HIDE DEF base
  <2> QED
    BY <1>2, <1>4, <2>1, <2>2
<1>6. /\ \A i \in 0 .. n - 1 : target'[base + i] = rows[i + 1]
      /\ target'[base + n] = <<TABLEJUMP, to>>
  <2>0. Len(target) \in Nat
    BY <1>3
  <2>1. ASSUME NEW i \in 0 .. n PROVE target'[base + i] = made[i + 1]
    <3>1. i + 1 \in 1 .. n + 1 /\ Len(target) + (i + 1) = base + i
      BY <1>3, <2>0
    <3> QED
      BY <1>5, <3>1
  <2>2. \A i \in 0 .. n - 1 : i \in 0 .. n /\ i + 1 \in 1 .. n
    BY <1>3
  <2>3. n \in 0 .. n
    BY <1>3
  <2> QED
    BY <1>4, <2>1, <2>2, <2>3
<1> HIDE DEF base
<1>7. DOMAIN target' = 1 .. base + n
  <2>1. target' \in Seq(Pair)
    BY <1>2, <1>3, <1>4
  <2> QED
    BY <1>5, <2>1
<1>8. /\ \A i \in 0 .. n - 2 : Follow(target', base + i) = base + (i + 1)
      /\ n # 0 => Follow(target', base + (n - 1)) = to
  <2>1. ASSUME NEW i \in 0 .. n - 2 PROVE Follow(target', base + i) = base + (i + 1)
    <3>1. /\ i + 1 \in 0 .. n - 1 /\ (base + i) + 1 = base + (i + 1)
          /\ base + (i + 1) \in 1 .. base + n /\ (i + 1) + 1 \in 1 .. n
      BY <1>3
    <3>2. target'[base + (i + 1)][1] # TABLEJUMP
      BY <1>3, <1>6, <3>1
    <3> QED
      BY <1>7, <3>1, <3>2 DEF Follow
  <2>2. ASSUME n # 0 PROVE Follow(target', base + (n - 1)) = to
    <3>1. (base + (n - 1)) + 1 = base + n /\ base + n \in 1 .. base + n
      BY <1>3, <2>2
    <3> QED
      BY <1>6, <1>7, <3>1 DEF Follow
  <2> QED
    BY <2>1, <2>2
<1>9. /\ n # 0 /\ (IF loops THEN <<q, mapped[pos]>> \in R ELSE q = 0)
  BY <1>1, WalkEnds DEF n, loops
<1>10. <<start, base>> \in S
  <2>1. <<start, 0>> \in R
    BY <1>9 DEF Walks, n
  <2>2. base + <<start, 0>>[2] = base
    BY <1>3
  <2> QED
    BY <2>1, <2>2
<1>11. ASSUME NEW x \in S
       PROVE  /\ x = <<x[1], x[2]>>
              /\ x[1] \in Orbit(t, start) \ {0}
              /\ x[2] \in Nat \ {0} /\ x[2] + 1 <= Len(target')
              /\ Alike(kind, t, B, x[1], target'[x[2]])
              /\ \/ GoesOn(kind, t, x[1]) = 0 /\ Follow(target', x[2]) = 0
                 \/ <<GoesOn(kind, t, x[1]), Follow(target', x[2])>> \in S
  <2>1. PICK e \in R : x = <<e[1], base + e[2]>>
    OBVIOUS
  <2>2. /\ e = <<e[1], e[2]>>
        /\ e[1] \in Orbit(t, start) \ {0}
        /\ e[2] \in 0 .. n - 1
        /\ Alike(kind, t, B, e[1], rows[e[2] + 1])
        /\ IF e[2] + 1 = n THEN GoesOn(kind, t, e[1]) = q
           ELSE <<GoesOn(kind, t, e[1]), e[2] + 1>> \in R
    BY DEF Walks, n
  <2>3. x[1] = e[1] /\ x[2] = base + e[2] /\ x = <<x[1], x[2]>>
    BY <2>1
  <2>4. x[2] \in Nat \ {0} /\ x[2] + 1 <= Len(target')
    <3>1. e[2] \in Nat /\ e[2] + 1 <= n
      BY <1>3, <2>2
    <3>2. base + e[2] \in Nat \ {0} /\ (base + e[2]) + 1 <= base + n
      BY <1>3, <3>1
    <3> QED
      BY <1>5, <2>3, <3>2
  <2>5. Alike(kind, t, B, x[1], target'[x[2]])
    BY <1>6, <2>2, <2>3
  <2>6. \/ GoesOn(kind, t, e[1]) = 0 /\ Follow(target', base + e[2]) = 0
        \/ <<GoesOn(kind, t, e[1]), Follow(target', base + e[2])>> \in S
    <3>1. CASE e[2] + 1 = n
      <4>1. Follow(target', base + e[2]) = to /\ GoesOn(kind, t, e[1]) = q
        <5>1. e[2] = n - 1
          BY <1>3, <2>2, <3>1
        <5> QED
          BY <1>8, <1>9, <2>2, <3>1, <5>1
      <4>2. CASE loops
        <5>1. to = base + mapped[pos] /\ <<q, mapped[pos]>> \in R
          BY <1>9, <4>2 DEF to
        <5>2. <<q, base + mapped[pos]>> \in S
          <6> DEFINE d == <<q, mapped[pos]>>
          <6>1. d[1] = q /\ d[2] = mapped[pos]
            OBVIOUS
          <6>2. <<d[1], base + d[2]>> \in S
            BY <5>1
          <6> QED
            BY <6>1, <6>2
        <5> QED
          BY <4>1, <5>1, <5>2
      <4>3. CASE ~ loops
        BY <1>9, <4>1, <4>3 DEF to
      <4> QED
        BY <4>2, <4>3
    <3>2. CASE e[2] + 1 # n
      <4>1. e[2] \in 0 .. n - 2
        BY <1>3, <2>2, <3>2
      <4>2. Follow(target', base + e[2]) = base + (e[2] + 1)
        BY <1>8, <4>1
      <4>3. <<GoesOn(kind, t, e[1]), base + (e[2] + 1)>> \in S
        <5> DEFINE d == <<GoesOn(kind, t, e[1]), e[2] + 1>>
        <5>1. d \in R
          BY <2>2, <3>2
        <5>2. <<d[1], base + d[2]>> \in S
          BY <5>1
        <5> QED
          BY <5>2
      <4> QED
        BY <4>2, <4>3
    <3> QED
      BY <3>1, <3>2
  <2> QED
    BY <2>2, <2>3, <2>4, <2>5, <2>6
<1>12. Simulates(kind, t, start, target', base, B, S)
  <2> HIDE DEF S, t, kind, start
  <2> QED
    BY <1>10, <1>11 DEF Simulates
<1> QED
  BY <1>12 DEF base

\* A program says the same in a table that goes on.
LEMMA StillSimulates ==
  ASSUME NEW made \in Seq(Pair), NEW more \in Seq(Pair), NEW kind, NEW t, NEW start, NEW base,
         NEW B, NEW R, Simulates(kind, t, start, made, base, B, R)
  PROVE  Simulates(kind, t, start, made \o more, base, B, R)
<1> DEFINE all == made \o more
<1>1. /\ all \in Seq(Pair) /\ Len(made) \in Nat /\ Len(more) \in Nat
      /\ Len(all) = Len(made) + Len(more)
      /\ \A p \in 1 .. Len(made) : all[p] = made[p]
  BY Behind
<1>2. DOMAIN made = 1 .. Len(made) /\ DOMAIN all = 1 .. Len(all)
  BY <1>1
<1> HIDE DEF all
<1>3. ASSUME NEW e \in R
      PROVE  /\ e[2] + 1 <= Len(all) /\ all[e[2]] = made[e[2]]
             /\ Follow(all, e[2]) = Follow(made, e[2])
  <2>1. e[2] \in Nat \ {0} /\ e[2] + 1 <= Len(made)
    BY DEF Simulates
  <2>2. /\ e[2] \in 1 .. Len(made) /\ e[2] + 1 \in 1 .. Len(made) /\ e[2] + 1 \in 1 .. Len(all)
    BY <1>1, <2>1
  <2> QED
    BY <1>1, <1>2, <2>1, <2>2 DEF Follow
<1> QED
  BY <1>3 DEF Simulates, all

\* Every step keeps the pairings.
LEMMA InitPInv ==
  ASSUME Init
  PROVE  PInv
BY DEF Init, PInv, Kept

\* What was left out stays left out.
LEMMA DroppedGrows ==
  ASSUME Next
  PROVE  /\ source' = source
         /\ dropped' = {} => dropped = {}
         /\ ~ failed
<1>1. CASE \E a \in source.asked : Ask(a[1], a[2])
  BY <1>1 DEF Ask
<1>2. CASE Jump
  BY <1>2 DEF Jump, Walking
<1>3. CASE Row
  <2>1. source' = source /\ ~ failed
    BY <1>3 DEF Row, Walking
  <2>2. \/ UNCHANGED dropped
        \/ \E lost : dropped' = dropped \cup lost
    BY <1>3 DEF Row, WaveRow, PulseRow, FilterRow, Unsupported
  <2> QED
    BY <2>1, <2>2
<1>4. CASE Store
  <2>1. source' = source /\ ~ failed
    BY <1>4 DEF Store
  <2>2. \/ UNCHANGED dropped
        \/ \E lost : dropped' = dropped \cup lost
    BY <1>4 DEF Store
  <2> QED
    BY <2>1, <2>2
<1> QED
  BY <1>1, <1>2, <1>3, <1>4 DEF Next

\* A program stored is rows behind the table.
LEMMA StoredIs ==
  ASSUME SourcesOK, IInv, Store, ~ UNCHANGED <<target, programs>>
  PROVE  \E made \in Seq(Pair) :
           /\ target' = target \o made /\ programs' = With(programs, job, Len(target) + 1)
           /\ job # <<>> /\ ~ failed'
<1> DEFINE loops == pos \in DOMAIN mapped
           vib   == IF job[2] = NoVibrato THEN [lost |-> {}, rows |-> <<>>]
                    ELSE VibratoSteps(job[2])
           base  == Len(target) + 1
           plain == ProgramRows(loops, vib.rows)
           to    == IF loops THEN LoopTo(base, mapped[pos]) ELSE 0
           made  == Append(plain, <<TABLEJUMP, to>>)
<1>1. /\ target' = target \o made /\ programs' = With(programs, job, base)
      /\ job # <<>> /\ ~ failed'
  BY DEF Store
<1>2. SourceOK(source) /\ job \in source.asked /\ job[2] \in Pair
  BY <1>1 DEF IInv, SourcesOK, SourceOK
<1>3. vib.rows \in Seq(PlainRow)
  BY <1>2, VibratoPlain
<1>4. plain \in Seq(PlainRow)
  BY <1>3 DEF ProgramRows, IInv
<1>5. to \in Nat
  BY DEF LoopTo, IInv
<1> HIDE DEF plain, to
<1>6. plain \in Seq(Pair) /\ <<TABLEJUMP, to>> \in Pair
  BY <1>4, <1>5 DEF PlainRow, Pair, TABLEJUMP
<1>7. made \in Seq(Pair)
  BY <1>6
<1> QED
  BY <1>1, <1>7

\* Whatever is made, asked for or stored.
LEMMA NextPInv ==
  ASSUME SourcesOK, BandsSettle, IInv, IInv', PInv, Next
  PROVE  PInv'
<1>0. /\ source' = source /\ (dropped' = {} => dropped = {}) /\ ~ failed
  BY DroppedGrows
<1>1. ASSUME job' # <<>>, ~ failed', Sound(job)'
      PROVE  (\E B, R, q : Walks(B, R, q))'
  <2>1. /\ job'[2] = NoVibrato /\ dropped' = {} /\ dropped = {}
        /\ Playable(source.table, job'[1])
    BY <1>0, <1>1 DEF Sound
  <2>2. CASE \E a \in source.asked : Ask(a[1], a[2])
    <3>1. PICK a \in source.asked : Ask(a[1], a[2])
      BY <2>2
    <3>2. job' = <<a[1], a[2]>>
      BY <3>1 DEF Ask
    <3>3. \E B : Walks(B, {}, a[1])'
      BY <2>1, <3>1, <3>2, AskWalks
    <3> QED
      BY <3>3
  <2>3. CASE Jump \/ Row
    <3>1. job' = job /\ job # <<>>
      BY <2>3 DEF Jump, Row, Walking
    <3>2. Sound(job) /\ job \in source.asked
      BY <2>1, <3>1 DEF Sound, IInv
    <3>3. PICK B, R, q : Walks(B, R, q)
      BY <1>0, <3>1, <3>2 DEF PInv
    <3>4. CASE Jump
      <4>1. Walks(B, R, q)'
        BY <2>1, <3>1, <3>2, <3>3, <3>4, JumpWalks
      <4> QED
        BY <4>1
    <3>5. CASE Row
      <4>1. \E R2, q2 : Walks(B, R2, q2)'
        BY <1>1, <2>1, <3>1, <3>2, <3>3, <3>5, RowWalks
      <4> QED
        BY <4>1
    <3> QED
      BY <2>3, <3>4, <3>5
  <2>4. CASE Store
    <3>1. job' = job \/ job' = <<>>
      BY <2>4 DEF Store
    <3>2. failed' \/ job' = <<>>
      BY <2>4 DEF Store
    <3> QED
      BY <1>1, <3>2
  <2> QED
    BY <2>2, <2>3, <2>4 DEF Next
<1>2. Kept'
  <2>1. CASE UNCHANGED <<target, programs>>
    BY <1>0, <2>1 DEF PInv, Kept, Sound
  <2>2. CASE ~ UNCHANGED <<target, programs>>
    <3>1. Store
      BY <2>2 DEF Next, Ask, Jump, Row
    <3> DEFINE base == Len(target) + 1
    <3>2. PICK made : /\ target' = target \o made /\ programs' = With(programs, job, base)
                      /\ job # <<>> /\ ~ failed'
                      /\ made \in Seq(Pair)
      BY <2>2, <3>1, StoredIs
    <3>3. ASSUME NEW a \in DOMAIN programs', Sound(a)'
          PROVE  \E B, R : /\ Settled(source.kind, source.table, a[1], B)
                           /\ Simulates(source.kind, source.table, a[1], target', programs'[a], B, R)
      <4>1. Sound(a) /\ dropped' = {}
        BY <1>0, <3>3 DEF Sound
      <4>2. CASE a = job
        <5>1. job \in source.asked /\ programs'[a] = base
          BY <3>2, <4>2 DEF IInv, With
        <5>2. PICK B, R, q : Walks(B, R, q)
          BY <1>0, <3>2, <4>1, <4>2 DEF PInv
        <5>3. PICK S : Simulates(source.kind, source.table, job[1], target', base, B, S)
          BY <3>1, <3>2, <4>1, <4>2, <5>1, <5>2, StoreSimulates DEF Sound
        <5>4. Settled(source.kind, source.table, job[1], B)
          BY <5>2 DEF Walks
        <5> QED
          BY <4>2, <5>1, <5>3, <5>4
      <4>3. CASE a # job
        <5>1. a \in DOMAIN programs /\ programs'[a] = programs[a]
          BY <3>2, <4>3 DEF With
        <5>2. PICK B, R : /\ Settled(source.kind, source.table, a[1], B)
                          /\ Simulates(source.kind, source.table, a[1], target, programs[a], B, R)
          BY <4>1, <5>1 DEF PInv, Kept
        <5>3. target \in Seq(Pair)
          BY DEF IInv
        <5>4. Simulates(source.kind, source.table, a[1], target', programs'[a], B, R)
          BY <3>2, <5>1, <5>2, <5>3, StillSimulates
        <5> QED
          BY <5>2, <5>4
      <4> QED
        BY <4>2, <4>3
    <3> QED
      BY <1>0, <3>3 DEF Kept
  <2> QED
    BY <2>1, <2>2
<1> QED
  BY <1>1, <1>2 DEF PInv

\* A stored program plays, step for step, what its walk of the source table plays,
\* jumps laid straight, filter rows merged, loop absolute, and whatever is stored
\* before and behind it (_walk_table, _wave_program, _pulse_program,
\* _filter_program, _store_program).
THEOREM ProgramsPlayTheirWalk ==
  ASSUME SourcesOK, BandsSettle
  PROVE  Spec => []ProgramsPlaySame
<1>1. Init => PInv
  BY InitPInv
<1>2. IInv /\ IInv' /\ PInv /\ [Next]_vars => PInv'
  <2> SUFFICES ASSUME IInv, IInv', PInv, [Next]_vars PROVE PInv'
    OBVIOUS
  <2>1. CASE Next
    BY <2>1, NextPInv
  <2>2. CASE UNCHANGED vars
    <3>1. /\ source' = source /\ job' = job /\ pos' = pos /\ rows' = rows /\ mapped' = mapped
          /\ band' = band /\ failed' = failed /\ dropped' = dropped
          /\ target' = target /\ programs' = programs
      BY <2>2 DEF vars, walk
    <3>2. ASSUME NEW B, NEW R, NEW q, Walks(B, R, q) PROVE Walks(B, R, q)'
      BY <3>1, <3>2 DEF Walks
    <3>3. Sound(job)' => Sound(job)
      BY <3>1 DEF Sound
    <3>4. Kept'
      BY <3>1 DEF PInv, Kept, Sound
    <3>5. (job # <<>> /\ ~ failed /\ Sound(job))' => (\E B, R, q : Walks(B, R, q))'
      <4> SUFFICES ASSUME job # <<>>, ~ failed, Sound(job) PROVE (\E B, R, q : Walks(B, R, q))'
        BY <3>1, <3>3
      <4>1. PICK B, R, q : Walks(B, R, q)
        BY DEF PInv
      <4>2. Walks(B, R, q)'
        BY <3>2, <4>1
      <4> QED
        BY <4>2
    <3> QED
      BY <3>4, <3>5 DEF PInv
  <2> QED
    BY <2>1, <2>2
<1>3. IInv /\ PInv => ProgramsPlaySame
  <2> SUFFICES ASSUME IInv, PInv, NEW a \in DOMAIN programs, a[2] = NoVibrato, dropped = {},
                      Playable(source.table, a[1]),
                      SetsWhole(Heard(source.table, a[1], 2 * Len(source.table) + 1))
               PROVE  PlaysSame(a, Heard(source.table, a[1], 2 * Len(source.table) + 1))
    BY DEF ProgramsPlaySame
  <2>1. PICK B, R : /\ Settled(source.kind, source.table, a[1], B)
                    /\ Simulates(source.kind, source.table, a[1], target, programs[a], B, R)
    BY DEF PInv, Kept, Sound
  <2>2. source.kind \in Kinds /\ a[1] # 0
    BY SourceIs DEF Playable
  <2>3. 2 * Len(source.table) + 1 \in Nat
    <3>1. source.table \in Seq(Byte \X Byte)
      BY SourceIs
    <3>2. Len(source.table) \in Nat
      BY <3>1
    <3> QED
      BY <3>2
  <2> QED
    BY <2>1, <2>2, <2>3, SimulationHeard DEF PlaysSame
<1> QED
  BY <1>1, <1>2, <1>3, IInvHolds, PTL DEF Spec
=============================================================================
