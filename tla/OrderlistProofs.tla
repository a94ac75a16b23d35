--------------------------- MODULE OrderlistProofs ---------------------------
(***************************************************************************)
(* What the two walks do on a well-formed orderlist, for every list and    *)
(* every state: where a packed list has the editor's entries, what one     *)
(* call of the sequencer returns, and that it is the converter's step.     *)
(* These lemmas are about operators only; Sequencer's and RowClock's       *)
(* proofs both rest on them.                                               *)
(***************************************************************************)
EXTENDS Orderlist, TLAPS

-----------------------------------------------------------------------------
\* The three kinds of entry exclude one another.
LEMMA PatternKind ==
  ASSUME NEW b, IsPattern(b)
  PROVE  ~ IsRepeat(b) /\ ~ IsTranspose(b)
  BY DEF IsPattern, IsRepeat, IsTranspose, LOOPSONG, REPEAT, TRANSDOWN

(* The packed list of a well-formed orderlist.                             *)

\* The packed list keeps the length, the end mark and the restart.
LEMMA PackedEnds ==
  ASSUME NEW o, WellFormed(o)
  PROVE  /\ o.size \in 1 .. BYTES - 2
         /\ o.restart \in 0 .. o.size - 1
         /\ PackedOrder(o)[o.size] = LOOPSONG
         /\ PackedOrder(o)[o.size + 1] = o.restart
<1>1. o.size \in 1 .. 254 /\ o.restart \in 0 .. o.size - 1
  BY DEF WellFormed, IsOrderlist, BYTES
<1>2. o.size \in 0 .. o.size + 1 /\ o.size + 1 \in 0 .. o.size + 1
  BY <1>1
<1>3. EditorOrder(o)[o.size] = LOOPSONG /\ EditorOrder(o)[o.size + 1] = o.restart
  BY <1>1, <1>2 DEF EditorOrder
<1>4. /\ PackedOrder(o)[o.size] = EditorOrder(o)[o.size]
      /\ PackedOrder(o)[o.size + 1] = EditorOrder(o)[o.size + 1]
  BY <1>1, <1>2 DEF PackedOrder
<1> QED
  BY <1>1, <1>3, <1>4 DEF BYTES

\* The packed list at a position of the editor's list.
LEMMA PackedAt ==
  ASSUME NEW o, WellFormed(o), NEW i \in 0 .. o.size - 1
  PROVE  PackedOrder(o)[i] = IF PairAt(o, i) THEN o.entries[i + 1]
                             ELSE IF PairAt(o, i - 1) THEN o.entries[i - 1]
                             ELSE o.entries[i]
<1>1. o.size \in 1 .. 254
  BY DEF WellFormed, IsOrderlist, BYTES
<1>2. i \in 0 .. o.size + 1 /\ ~ (i >= o.size)
  BY <1>1
<1> QED
  BY <1>2 DEF PackedOrder

\* An entry of a well-formed list: a repeat makes a pair, a transpose is
\* followed by an entry of another kind.
LEMMA EntryAt ==
  ASSUME NEW o, WellFormed(o), NEW i \in 0 .. o.size - 1
  PROVE  /\ o.size \in Nat
         /\ o.entries[i] \in 0 .. 254
         /\ IsRepeat(o.entries[i]) => PairAt(o, i) /\ o.entries[i] # REPEAT
         /\ IsTranspose(o.entries[i]) =>
              i + 1 < o.size /\ ~ IsTranspose(o.entries[i + 1])
<1>1. o.size \in 1 .. 254
  BY DEF WellFormed, IsOrderlist, BYTES
<1>7. o.entries \in [0 .. o.size - 1 -> 0 .. 254]
  BY DEF WellFormed, IsOrderlist, LOOPSONG
<1>2. IsRepeat(o.entries[i]) =>
        i + 1 < o.size /\ IsPattern(o.entries[i + 1]) /\ o.entries[i] # REPEAT
  BY DEF WellFormed, WellOrdered, RepeatsCount
<1>3. IsTranspose(o.entries[i]) => i + 1 < o.size /\ ~ IsTranspose(o.entries[i + 1])
  BY DEF WellFormed, WellOrdered
<1>4. o.size \in Nat
  BY <1>1
<1>8. o.entries[i] \in 0 .. 254
  BY <1>7
<1>5. IsRepeat(o.entries[i]) => i \in 0 .. o.size - 2
  <2>1. o.size \in Int /\ i \in Int /\ 0 <= i
    BY <1>1
  <2>2. i + 1 < o.size => i \in 0 .. o.size - 2
    BY <2>1
  <2> QED
    BY <1>2, <2>2
<1>6. IsRepeat(o.entries[i]) => PairAt(o, i)
  BY <1>2, <1>5 DEF PairAt
<1> QED
  BY <1>2, <1>3, <1>4, <1>8, <1>6

\* A packed repeat trails the pattern the editor shows after it.
LEMMA PackedRepeat ==
  ASSUME NEW o, WellFormed(o), NEW i \in 0 .. o.size, IsRepeat(PackedOrder(o)[i])
  PROVE  /\ i \in 1 .. o.size - 1
         /\ PairAt(o, i - 1)
         /\ PackedOrder(o)[i] = o.entries[i - 1]
         /\ IsPattern(o.entries[i])
         /\ PackedOrder(o)[i] - REPEAT \in 1 .. 15
<1>1. o.size \in 1 .. 254 /\ i \in 0 .. o.size - 1
  BY PackedEnds DEF IsRepeat, LOOPSONG, TRANSDOWN, REPEAT, BYTES
<1>2. ~ PairAt(o, i)
  <2>1. ASSUME PairAt(o, i)
        PROVE  PackedOrder(o)[i] = o.entries[i + 1] /\ IsPattern(o.entries[i + 1])
    BY <1>1, <2>1, PackedAt DEF PairAt
  <2> QED
    BY SMTT(30), <2>1 DEF IsPattern, IsRepeat, REPEAT, TRANSDOWN
<1>3. PairAt(o, i - 1)
  BY <1>1, <1>2, PackedAt, EntryAt
<1>4. i - 1 \in 0 .. o.size - 1 /\ i - 1 + 1 = i /\ i \in 1 .. o.size - 1
  BY <1>1, <1>3 DEF PairAt
<1>5. PackedOrder(o)[i] = o.entries[i - 1]
  BY <1>1, <1>2, <1>3, PackedAt
<1>6. IsRepeat(o.entries[i - 1]) /\ o.entries[i - 1] # REPEAT /\ IsPattern(o.entries[i])
  BY <1>3, <1>4, EntryAt DEF PairAt
<1> QED
  BY <1>3, <1>4, <1>5, <1>6 DEF IsRepeat, REPEAT, TRANSDOWN

\* A packed transpose stands where the editor has it, a pattern after it.
LEMMA PackedTranspose ==
  ASSUME NEW o, WellFormed(o), NEW i \in 0 .. o.size - 1
  PROVE  /\ PackedOrder(o)[i] \in 0 .. 254
         /\ IsTranspose(PackedOrder(o)[i]) <=> IsTranspose(o.entries[i])
         /\ IsTranspose(o.entries[i]) => PackedOrder(o)[i] = o.entries[i]
         /\ IsTranspose(o.entries[i]) =>
              i + 1 < o.size /\ IsPattern(PackedOrder(o)[i + 1])
<1> USE DEF IsPattern, IsRepeat, IsTranspose, REPEAT, TRANSDOWN, LOOPSONG
<1>1. o.size \in 1 .. 254
  BY PackedEnds DEF BYTES
<1>2. CASE PairAt(o, i)
  <2>1. IsRepeat(o.entries[i]) /\ IsPattern(o.entries[i + 1])
    BY <1>1, <1>2 DEF PairAt
  <2>2. PackedOrder(o)[i] = o.entries[i + 1]
    BY <1>2, PackedAt
  <2>3. ~ IsTranspose(o.entries[i]) /\ ~ IsTranspose(o.entries[i + 1])
    BY SMTT(30), <2>1
  <2>4. o.entries[i + 1] \in 0 .. 207
    BY <2>1
  <2>5. PackedOrder(o)[i] \in 0 .. 254
    BY <2>2, <2>4
  <2> QED
    BY <2>2, <2>3, <2>5
<1>3. CASE ~ PairAt(o, i) /\ PairAt(o, i - 1)
  <2>1. i - 1 + 1 = i /\ IsRepeat(o.entries[i - 1]) /\ IsPattern(o.entries[i])
    BY <1>1, <1>3 DEF PairAt
  <2>2. PackedOrder(o)[i] = o.entries[i - 1]
    BY <1>3, PackedAt
  <2>3. ~ IsTranspose(o.entries[i]) /\ ~ IsTranspose(o.entries[i - 1])
    BY SMTT(30), <2>1
  <2>4. o.entries[i - 1] \in 208 .. 223
    BY <2>1
  <2>5. PackedOrder(o)[i] \in 0 .. 254
    BY <2>2, <2>4
  <2> QED
    BY <2>2, <2>3, <2>5
<1>4. CASE ~ PairAt(o, i) /\ ~ PairAt(o, i - 1)
  <2>1. PackedOrder(o)[i] = o.entries[i] /\ o.entries[i] \in 0 .. 254
    BY <1>4, PackedAt, EntryAt
  <2>2. ASSUME IsTranspose(o.entries[i])
        PROVE  i + 1 < o.size /\ IsPattern(PackedOrder(o)[i + 1])
    <3>1. i + 1 \in 0 .. o.size - 1 /\ i + 1 < o.size /\ ~ IsTranspose(o.entries[i + 1])
      BY <1>1, <2>2, EntryAt
    <3>2. ~ PairAt(o, i + 1 - 1)
      BY <2>2 DEF PairAt
    <3>3. CASE PairAt(o, i + 1)
      BY SMTT(30), <3>1, <3>3, PackedAt DEF PairAt
    <3>4. CASE ~ PairAt(o, i + 1)
      <4>1. PackedOrder(o)[i + 1] = o.entries[i + 1]
        BY <3>1, <3>2, <3>4, PackedAt
      <4>2. o.entries[i + 1] \in 0 .. 254 /\ ~ IsRepeat(o.entries[i + 1])
        BY <3>1, <3>4, EntryAt
      <4> QED
        BY <3>1, <4>1, <4>2
    <3> QED
      BY <3>3, <3>4
  <2> QED
    BY <2>1, <2>2
<1> QED
  BY <1>2, <1>3, <1>4

\* A packed pattern is the pattern of a pair, its repeat after it, or stands
\* where the editor has it, no repeat after it.
LEMMA PackedPattern ==
  ASSUME NEW o, WellFormed(o), NEW i \in 0 .. o.size - 1, IsPattern(PackedOrder(o)[i])
  PROVE  \/ /\ PairAt(o, i)
            /\ PackedOrder(o)[i] = o.entries[i + 1]
            /\ PackedOrder(o)[i + 1] = o.entries[i]
            /\ IsRepeat(PackedOrder(o)[i + 1])
         \/ /\ ~ PairAt(o, i)
            /\ ~ IsRepeat(o.entries[i])
            /\ PackedOrder(o)[i] = o.entries[i]
            /\ ~ IsRepeat(PackedOrder(o)[i + 1])
<1>1. o.size \in 1 .. 254
  BY PackedEnds DEF BYTES
<1>2. CASE PairAt(o, i)
  <2>1. i + 1 \in 0 .. o.size - 1 /\ i + 1 - 1 = i /\ IsRepeat(o.entries[i])
    BY <1>1, <1>2 DEF PairAt
  <2>2. ~ PairAt(o, i + 1)
    BY SMTT(30), <1>2 DEF PairAt, IsPattern, IsRepeat, REPEAT, TRANSDOWN
  <2>3. PackedOrder(o)[i + 1] = o.entries[i] /\ PackedOrder(o)[i] = o.entries[i + 1]
    BY <1>2, <2>1, <2>2, PackedAt
  <2> QED
    BY <1>2, <2>1, <2>3
<1>3. CASE ~ PairAt(o, i)
  <2>1. ~ PairAt(o, i - 1)
    <3>1. ASSUME PairAt(o, i - 1)
          PROVE  PackedOrder(o)[i] = o.entries[i - 1] /\ IsRepeat(o.entries[i - 1])
      BY <1>3, <3>1, PackedAt DEF PairAt
    <3> QED
      BY SMTT(30), <3>1 DEF IsPattern, IsRepeat, REPEAT, TRANSDOWN
  <2>2. PackedOrder(o)[i] = o.entries[i]
    BY <1>3, <2>1, PackedAt
  <2>3. i + 1 \in 0 .. o.size /\ i + 1 - 1 = i
    BY <1>1
  <2>4. ~ IsRepeat(PackedOrder(o)[i + 1])
    BY <1>3, <2>3, PackedRepeat
  <2> QED
    BY <1>3, <2>2, <2>4, EntryAt
<1> QED
  BY <1>2, <1>3

\* The byte after a trailing repeat is no repeat.
LEMMA AfterPair ==
  ASSUME NEW o, WellFormed(o), NEW i \in 1 .. o.size - 1, PairAt(o, i - 1)
  PROVE  ~ IsRepeat(PackedOrder(o)[i + 1])
<1>1. o.size \in 1 .. 254
  BY PackedEnds DEF BYTES
<1>2. i + 1 \in 0 .. o.size /\ i - 1 + 1 = i /\ i + 1 - 1 = i
  BY <1>1
<1>3. IsPattern(o.entries[i])
  BY <1>2 DEF PairAt
<1>4. ~ IsRepeat(o.entries[i])
  BY SMTT(30), <1>3 DEF IsPattern, IsRepeat, REPEAT, TRANSDOWN
<1>5. ~ PairAt(o, i)
  BY <1>4 DEF PairAt
<1> QED
  BY <1>2, <1>5, PackedRepeat

-----------------------------------------------------------------------------
(* Where one call of the sequencer stands.                                 *)

\* On a trailing repeat the call loops nowhere, shifts nothing, and counts.
LEMMA AtRepeat ==
  ASSUME NEW o, WellFormed(o), NEW s, s.songptr \in 0 .. o.size,
         IsRepeat(PackedOrder(o)[s.songptr])
  PROVE  /\ ~ AtLoop(PackedOrder(o), s)
         /\ ~ Shifts(PackedOrder(o), s)
         /\ PlayPos(PackedOrder(o), s) = s.songptr
         /\ Replays(PackedOrder(o), s)
<1>1. ~ AtLoop(PackedOrder(o), s)
  BY DEF AtLoop, IsRepeat, LOOPSONG, REPEAT, TRANSDOWN
<1>2. EntryPos(PackedOrder(o), s) = s.songptr
  BY <1>1 DEF EntryPos
<1>3. ~ Shifts(PackedOrder(o), s)
  BY <1>2 DEF Shifts, IsRepeat, REPEAT, TRANSDOWN
<1>4. PlayPos(PackedOrder(o), s) = s.songptr
  BY <1>2, <1>3 DEF PlayPos
<1>5. Replays(PackedOrder(o), s)
  BY <1>4 DEF Replays, IsRepeat, REPEAT, TRANSDOWN
<1> QED
  BY <1>1, <1>3, <1>4, <1>5

\* Elsewhere the call reads a pattern, after at most one transpose, inside the list.
LEMMA AtPattern ==
  ASSUME NEW o, WellFormed(o), NEW s, s.songptr \in 0 .. o.size,
         ~ IsRepeat(PackedOrder(o)[s.songptr])
  PROVE  /\ AtLoop(PackedOrder(o), s) <=> s.songptr = o.size
         /\ EntryPos(PackedOrder(o), s) \in 0 .. o.size - 1
         /\ EntryPos(PackedOrder(o), s) =
              IF s.songptr = o.size THEN o.restart ELSE s.songptr
         /\ Shifts(PackedOrder(o), s) <=>
              IsTranspose(o.entries[EntryPos(PackedOrder(o), s)])
         /\ PlayPos(PackedOrder(o), s) \in 0 .. o.size - 1
         /\ IsPattern(PackedOrder(o)[PlayPos(PackedOrder(o), s)])
         /\ ~ Replays(PackedOrder(o), s)
<1> DEFINE P == PackedOrder(o)
           e == EntryPos(P, s)
<1>1. o.size \in 1 .. 254 /\ o.restart \in 0 .. o.size - 1 /\ P[o.size] = 255
      /\ P[o.size + 1] = o.restart
  BY PackedEnds DEF BYTES, LOOPSONG
<1>2. AtLoop(P, s) <=> s.songptr = o.size
  <2>1. ASSUME s.songptr # o.size
        PROVE  P[s.songptr] # 255
    <3>1. s.songptr \in 0 .. o.size - 1
      BY <1>1, <2>1
    <3>2. P[s.songptr] \in 0 .. 254
      BY <3>1, PackedTranspose
    <3> QED
      BY <3>2
  <2> QED
    BY <1>1, <2>1 DEF AtLoop, LOOPSONG
<1>3. e = IF s.songptr = o.size THEN o.restart ELSE s.songptr
  BY <1>1, <1>2 DEF EntryPos
<1>4. e \in 0 .. o.size - 1
  BY <1>1, <1>3
<1>5. ~ IsRepeat(P[e])
  <2>1. CASE s.songptr = o.size
    <3>1. ~ PairAt(o, e - 1)
      BY <2>1, <1>3 DEF WellFormed, RestartWhole
    <3>2. e \in 0 .. o.size
      BY <1>1, <1>4
    <3> QED
      BY <3>1, <3>2, PackedRepeat
  <2>2. CASE s.songptr # o.size
    BY <2>2, <1>3
  <2> QED
    BY <2>1, <2>2
<1> HIDE DEF e, P
<1>6. P[e] \in 0 .. 254 /\ (IsTranspose(P[e]) <=> IsTranspose(o.entries[e]))
      /\ (IsTranspose(o.entries[e]) => e + 1 < o.size /\ IsPattern(P[e + 1]))
  BY <1>4, PackedTranspose DEF P
<1>7. Shifts(P, s) <=> IsTranspose(P[e])
  BY <1>6 DEF Shifts, IsTranspose, TRANSDOWN, LOOPSONG, e
<1>8. PlayPos(P, s) = IF IsTranspose(P[e]) THEN e + 1 ELSE e
  BY <1>4, <1>7 DEF PlayPos, e
<1>9. PlayPos(P, s) \in 0 .. o.size - 1 /\ IsPattern(P[PlayPos(P, s)])
  <2>1. CASE IsTranspose(P[e])
    BY <2>1, <1>1, <1>4, <1>6, <1>8
  <2>2. CASE ~ IsTranspose(P[e])
    <3>1. IsPattern(P[e])
      BY <2>2, <1>5, <1>6
         DEF IsPattern, IsRepeat, IsTranspose, REPEAT, TRANSDOWN, LOOPSONG
    <3> QED
      BY <2>2, <3>1, <1>4, <1>8
  <2> QED
    BY <2>1, <2>2
<1>10. ~ Replays(P, s)
  BY <1>9 DEF Replays, IsPattern, REPEAT
<1> QED
  BY <1>2, <1>3, <1>4, <1>6, <1>7, <1>9, <1>10 DEF P, e

-----------------------------------------------------------------------------
(* One call of the sequencer.                                              *)

\* What holds between two calls: on a trailing repeat the counter has not
\* reached the count and the pattern is the pair's; elsewhere no count is open.
SeqOK(o, s) ==
  /\ s \in [songptr : 0 .. o.size, trans : Byte, repeat : 0 .. 14,
            pattnum : 0 .. REPEAT - 1, loops : 0 .. LoopCap]
  /\ IsRepeat(PackedOrder(o)[s.songptr]) =>
       /\ s.repeat + 1 <= PackedOrder(o)[s.songptr] - REPEAT
       /\ s.pattnum = o.entries[s.songptr]
  /\ ~ IsRepeat(PackedOrder(o)[s.songptr]) => s.repeat = 0

\* The call's result on a trailing repeat.
LEMMA RepeatCall ==
  ASSUME NEW o, WellFormed(o), NEW s, SeqOK(o, s), IsRepeat(PackedOrder(o)[s.songptr])
  PROVE  /\ Replays(PackedOrder(o), s)
         /\ Sequence(PackedOrder(o), s) =
              IF PackedOrder(o)[s.songptr] - REPEAT = s.repeat + 1
                THEN [s EXCEPT !.repeat = 0, !.songptr = s.songptr + 1]
                ELSE [s EXCEPT !.repeat = s.repeat + 1]
<1> DEFINE P == PackedOrder(o)
<1>1. s \in [songptr : 0 .. o.size, trans : Byte, repeat : 0 .. 14,
             pattnum : 0 .. REPEAT - 1, loops : 0 .. LoopCap]
  BY DEF SeqOK
<1>2. o.size \in 1 .. 254 /\ s.songptr \in 1 .. o.size - 1
  BY <1>1, PackedEnds, PackedRepeat DEF BYTES
<1>3. ~ AtLoop(P, s) /\ ~ Shifts(P, s) /\ PlayPos(P, s) = s.songptr /\ Replays(P, s)
  BY <1>1, AtRepeat
<1>4. (s.songptr + 1) % BYTES = s.songptr + 1 /\ (s.repeat + 1) % BYTES = s.repeat + 1
  BY <1>1, <1>2 DEF BYTES
<1>5. [s EXCEPT !.trans = @, !.loops = @] = s
  BY <1>1
<1> HIDE DEF P
<1>6. SequenceRead(P, s) = s
  BY <1>3, <1>5 DEF SequenceRead
<1>7. Sequence(P, s) = SequenceRepeat(P, s, s)
  BY <1>3, <1>6 DEF Sequence
<1>8. Sequence(P, s) =
        IF P[s.songptr] - REPEAT = s.repeat + 1
          THEN [s EXCEPT !.repeat = 0, !.songptr = s.songptr + 1]
          ELSE [s EXCEPT !.repeat = s.repeat + 1]
  BY <1>3, <1>4, <1>7 DEF SequenceRepeat, SequenceNext
<1> QED
  BY <1>3, <1>8 DEF P

\* The call's result elsewhere: the pattern at the position read, the transpose
\* before it, and the loop mark counted where one is read.
LEMMA PatternCall ==
  ASSUME NEW o, WellFormed(o), NEW s, SeqOK(o, s), ~ IsRepeat(PackedOrder(o)[s.songptr])
  PROVE  /\ ~ Replays(PackedOrder(o), s)
         /\ PlayPos(PackedOrder(o), s) \in 0 .. o.size - 1
         /\ Sequence(PackedOrder(o), s) =
              [songptr |-> PlayPos(PackedOrder(o), s) + 1,
               trans   |-> IF Shifts(PackedOrder(o), s)
                             THEN (PackedOrder(o)[EntryPos(PackedOrder(o), s)] - TRANSUP) % BYTES
                             ELSE s.trans,
               repeat  |-> 0,
               pattnum |-> PackedOrder(o)[PlayPos(PackedOrder(o), s)],
               loops   |-> IF s.songptr = o.size THEN CountLoop(s.loops) ELSE s.loops]
<1> DEFINE P   == PackedOrder(o)
           pos == PlayPos(P, s)
           trans == IF Shifts(P, s) THEN (P[EntryPos(P, s)] - TRANSUP) % BYTES ELSE s.trans
           loops == IF AtLoop(P, s) THEN CountLoop(s.loops) ELSE s.loops
<1>1. s \in [songptr : 0 .. o.size, trans : Byte, repeat : 0 .. 14,
             pattnum : 0 .. REPEAT - 1, loops : 0 .. LoopCap] /\ s.repeat = 0
  BY DEF SeqOK
<1>2. o.size \in 1 .. 254
  BY PackedEnds DEF BYTES
<1>3. /\ AtLoop(P, s) <=> s.songptr = o.size
      /\ pos \in 0 .. o.size - 1
      /\ ~ Replays(P, s)
  BY <1>1, AtPattern
<1>4. (pos + 1) % BYTES = pos + 1
  BY <1>2, <1>3 DEF BYTES
<1>5. loops = IF s.songptr = o.size THEN CountLoop(s.loops) ELSE s.loops
  BY <1>3
<1> HIDE DEF trans, loops, pos, P
<1>6. Sequence(P, s) = [[s EXCEPT !.trans = trans, !.loops = loops]
                          EXCEPT !.pattnum = P[pos], !.songptr = pos + 1]
  BY <1>3, <1>4 DEF Sequence, SequenceRead, SequenceNext, trans, loops, pos
<1>7. Sequence(P, s) = [songptr |-> pos + 1, trans |-> trans, repeat |-> 0,
                        pattnum |-> P[pos], loops |-> loops]
  BY <1>1, <1>6
<1> QED
  BY <1>3, <1>5, <1>7 DEF P, pos, trans

\* Before the first call nothing is counted.
LEMMA StartOK ==
  ASSUME NEW o, WellFormed(o)
  PROVE  SeqOK(o, SeqStart) /\ ~ IsRepeat(PackedOrder(o)[0])
<1>1. o.size \in 1 .. 254 /\ 0 \in 0 .. o.size
  BY PackedEnds DEF BYTES
<1>2. ~ IsRepeat(PackedOrder(o)[0])
  BY <1>1, PackedRepeat
<1>3. SeqStart \in [songptr : 0 .. o.size, trans : Byte, repeat : 0 .. 14,
                    pattnum : 0 .. REPEAT - 1, loops : 0 .. LoopCap]
  BY <1>1, LoopCapAssumption DEF SeqStart, Byte, BYTES, REPEAT
<1> QED
  BY <1>2, <1>3 DEF SeqOK, SeqStart

\* The pattern just read, where the position it leaves behind has it: at a pair
\* the position rests on the repeat.
LEMMA PatternRead ==
  ASSUME NEW o, WellFormed(o), NEW s, SeqOK(o, s), ~ IsRepeat(PackedOrder(o)[s.songptr]),
         NEW p, p = PlayPos(PackedOrder(o), s)
  PROVE  /\ p + 1 \in 1 .. o.size
         /\ IsPattern(PackedOrder(o)[p])
         /\ \/ /\ PairAt(o, p)
               /\ IsRepeat(PackedOrder(o)[p + 1])
               /\ PackedOrder(o)[p + 1] = o.entries[p]
               /\ PackedOrder(o)[p + 1] - REPEAT \in 1 .. 15
               /\ PackedOrder(o)[p] = o.entries[p + 1]
            \/ /\ ~ PairAt(o, p)
               /\ ~ IsRepeat(PackedOrder(o)[p + 1])
               /\ PackedOrder(o)[p] = o.entries[p]
<1> DEFINE P == PackedOrder(o)
<1>1. s.songptr \in 0 .. o.size
  BY DEF SeqOK
<1>2. p \in 0 .. o.size - 1 /\ IsPattern(P[p])
  BY <1>1, AtPattern
<1>3. o.size \in 1 .. 254
  BY PackedEnds DEF BYTES
<1>4. p + 1 \in 1 .. o.size /\ p + 1 \in 0 .. o.size
  BY <1>2, <1>3
<1>5. \/ /\ PairAt(o, p)
         /\ P[p] = o.entries[p + 1]
         /\ P[p + 1] = o.entries[p]
         /\ IsRepeat(P[p + 1])
      \/ /\ ~ PairAt(o, p)
         /\ P[p] = o.entries[p]
         /\ ~ IsRepeat(P[p + 1])
  BY <1>2, PackedPattern
<1>6. IsRepeat(P[p + 1]) => P[p + 1] - REPEAT \in 1 .. 15
  BY <1>4, PackedRepeat
<1> QED
  BY <1>2, <1>4, <1>5, <1>6

\* Every call keeps what holds between two calls.
LEMMA SeqKeepsOK ==
  ASSUME NEW o, WellFormed(o), NEW s, SeqOK(o, s)
  PROVE  SeqOK(o, Sequence(PackedOrder(o), s))
<1> DEFINE P == PackedOrder(o)
           t == Sequence(P, s)
<1>1. s \in [songptr : 0 .. o.size, trans : Byte, repeat : 0 .. 14,
             pattnum : 0 .. REPEAT - 1, loops : 0 .. LoopCap]
  BY DEF SeqOK
<1>2. o.size \in 1 .. 254
  BY PackedEnds DEF BYTES
<1>3. CASE IsRepeat(P[s.songptr])
  <2> DEFINE at == s.songptr
  <2>1. /\ at \in 1 .. o.size - 1 /\ PairAt(o, at - 1)
        /\ P[at] - REPEAT \in 1 .. 15
        /\ s.repeat + 1 <= P[at] - REPEAT
        /\ s.pattnum = o.entries[at]
    BY <1>1, <1>2, <1>3, PackedRepeat DEF SeqOK
  <2>2. CASE P[at] - REPEAT = s.repeat + 1
    <3>1. t = [s EXCEPT !.repeat = 0, !.songptr = at + 1]
      BY <1>3, <2>2, RepeatCall
    <3>2. ~ IsRepeat(P[at + 1])
      BY <2>1, AfterPair
    <3>3. at + 1 \in 0 .. o.size /\ 0 \in 0 .. 14
      BY <1>2, <2>1
    <3> HIDE DEF P, t
    <3>4. t \in [songptr : 0 .. o.size, trans : Byte, repeat : 0 .. 14,
                 pattnum : 0 .. REPEAT - 1, loops : 0 .. LoopCap]
          /\ t.songptr = at + 1 /\ t.repeat = 0
      BY <1>1, <3>1, <3>3
    <3> QED
      BY <3>2, <3>4 DEF SeqOK, P, t
  <2>3. CASE P[at] - REPEAT # s.repeat + 1
    <3>1. t = [s EXCEPT !.repeat = s.repeat + 1]
      BY <1>3, <2>3, RepeatCall
    <3>2. s.repeat + 1 \in 0 .. 14 /\ s.repeat + 1 + 1 <= P[at] - REPEAT
      BY <1>1, <2>1, <2>3
    <3>3. t \in [songptr : 0 .. o.size, trans : Byte, repeat : 0 .. 14,
                 pattnum : 0 .. REPEAT - 1, loops : 0 .. LoopCap]
          /\ t.songptr = at /\ t.repeat = s.repeat + 1 /\ t.pattnum = s.pattnum
      BY <1>1, <3>1, <3>2
    <3> HIDE DEF P, t
    <3> QED
      BY <1>3, <2>1, <3>2, <3>3 DEF SeqOK, P, t
  <2> QED
    BY <2>2, <2>3
<1>4. CASE ~ IsRepeat(P[s.songptr])
  <2> DEFINE pos   == PlayPos(P, s)
             trans == IF Shifts(P, s) THEN (P[EntryPos(P, s)] - TRANSUP) % BYTES ELSE s.trans
             loops == IF s.songptr = o.size THEN CountLoop(s.loops) ELSE s.loops
  <2>1. t = [songptr |-> pos + 1, trans |-> trans, repeat |-> 0,
             pattnum |-> P[pos], loops |-> loops]
    BY <1>4, PatternCall
  <2>2. EntryPos(P, s) \in 0 .. o.size - 1
    BY <1>1, <1>4, AtPattern
  <2>3. P[EntryPos(P, s)] \in 0 .. 254
    BY <2>2, PackedTranspose
  <2>4. trans \in Byte
    BY <1>1, <2>3 DEF Byte, BYTES, TRANSUP
  <2>5. loops \in 0 .. LoopCap
    BY <1>1, LoopCapAssumption DEF CountLoop
  <2>6. /\ pos + 1 \in 0 .. o.size
        /\ P[pos] \in 0 .. REPEAT - 1
        /\ IsRepeat(P[pos + 1]) => P[pos + 1] - REPEAT \in 1 .. 15 /\ P[pos] = o.entries[pos + 1]
    BY <1>2, <1>4, PatternRead DEF IsPattern
  <2> HIDE DEF P, t, pos, trans, loops
  <2>7. t \in [songptr : 0 .. o.size, trans : Byte, repeat : 0 .. 14,
               pattnum : 0 .. REPEAT - 1, loops : 0 .. LoopCap]
        /\ t.songptr = pos + 1 /\ t.repeat = 0 /\ t.pattnum = P[pos]
    BY <2>1, <2>4, <2>5, <2>6
  <2>8. IsRepeat(P[t.songptr]) =>
          t.repeat + 1 <= P[t.songptr] - REPEAT /\ t.pattnum = o.entries[t.songptr]
    BY <2>6, <2>7
  <2> QED
    BY <2>7, <2>8 DEF SeqOK, P, t
<1> QED
  BY <1>3, <1>4

\* The pattern that plays is named by the list.
LEMMA SeqNames ==
  ASSUME NEW o, WellFormed(o), NEW s, SeqOK(o, s)
  PROVE  \E i \in 0 .. o.size - 1 :
           IsPattern(o.entries[i]) /\ Sequence(PackedOrder(o), s).pattnum = o.entries[i]
<1> DEFINE P == PackedOrder(o)
           t == Sequence(P, s)
<1>1. s \in [songptr : 0 .. o.size, trans : Byte, repeat : 0 .. 14,
             pattnum : 0 .. REPEAT - 1, loops : 0 .. LoopCap]
  BY DEF SeqOK
<1>2. o.size \in 1 .. 254
  BY PackedEnds DEF BYTES
<1>3. CASE IsRepeat(P[s.songptr])
  <2>1. s.songptr \in 0 .. o.size - 1 /\ IsPattern(o.entries[s.songptr])
        /\ s.pattnum = o.entries[s.songptr]
    BY <1>1, <1>2, <1>3, PackedRepeat DEF SeqOK
  <2>2. t.pattnum = s.pattnum
    <3>1. t = [s EXCEPT !.repeat = 0, !.songptr = s.songptr + 1]
          \/ t = [s EXCEPT !.repeat = s.repeat + 1]
      BY <1>3, RepeatCall
    <3> HIDE DEF t
    <3> QED
      BY <1>1, <3>1
  <2> QED
    BY <2>1, <2>2
<1>4. CASE ~ IsRepeat(P[s.songptr])
  <2> DEFINE p == PlayPos(P, s)
  <2>1. p \in 0 .. o.size - 1 /\ t.pattnum = P[p]
    BY <1>4, PatternCall
  <2>2. IsPattern(P[p]) /\ ((PairAt(o, p) /\ P[p] = o.entries[p + 1]) \/ P[p] = o.entries[p])
    BY <1>4, PatternRead
  <2>3. PairAt(o, p) => p + 1 \in 0 .. o.size - 1
    BY <1>2, <2>1 DEF PairAt
  <2> HIDE DEF p, t, P
  <2> QED
    BY <2>1, <2>2, <2>3 DEF P, t
<1> QED
  BY <1>3, <1>4

-----------------------------------------------------------------------------
(* The converter's walk.                                                   *)

\* The editor's list at a position of an entry.
LEMMA EditorAt ==
  ASSUME NEW o, WellFormed(o), NEW i \in 0 .. o.size - 1
  PROVE  EditorOrder(o)[i] = o.entries[i]
<1>1. o.size \in 1 .. 254
  BY PackedEnds DEF BYTES
<1>2. i \in 0 .. o.size + 1 /\ i < o.size
  BY <1>1
<1> QED
  BY <1>2 DEF EditorOrder

\* Where the walk reads: it loops at the end mark only, as the sequencer does.
LEMMA WalkReads ==
  ASSUME NEW o, WellFormed(o), NEW w, w.songptr \in 0 .. o.size
  PROVE  /\ AtLoop(EditorOrder(o), w) <=> w.songptr = o.size
         /\ EntryPos(EditorOrder(o), w) =
              IF w.songptr = o.size THEN o.restart ELSE w.songptr
         /\ EntryPos(EditorOrder(o), w) \in 0 .. o.size - 1
         /\ WalkPos(EditorOrder(o), w) =
              EntryPos(EditorOrder(o), w) +
                (IF IsTranspose(o.entries[EntryPos(EditorOrder(o), w)]) THEN 1 ELSE 0)
<1> DEFINE ord == EditorOrder(o)
<1>1. o.size \in 1 .. 254 /\ o.restart \in 0 .. o.size - 1
  BY PackedEnds DEF BYTES
<1>2. ord[o.size] = LOOPSONG /\ ord[o.size + 1] = o.restart
  <2>1. o.size \in 0 .. o.size + 1 /\ o.size + 1 \in 0 .. o.size + 1
    BY <1>1
  <2> QED
    BY <1>1, <2>1 DEF EditorOrder
<1>3. ASSUME w.songptr # o.size PROVE ord[w.songptr] # LOOPSONG
  <2>1. w.songptr \in 0 .. o.size - 1
    BY <1>1, <1>3
  <2>2. ord[w.songptr] = o.entries[w.songptr]
    BY <2>1, EditorAt
  <2>3. o.entries[w.songptr] \in 0 .. 254
    BY <2>1, EntryAt
  <2> QED
    BY <2>2, <2>3 DEF LOOPSONG
<1>4. AtLoop(ord, w) <=> w.songptr = o.size
  BY <1>2, <1>3 DEF AtLoop
<1>5. EntryPos(ord, w) = IF w.songptr = o.size THEN o.restart ELSE w.songptr
  BY <1>2, <1>4 DEF EntryPos
<1>6. EntryPos(ord, w) \in 0 .. o.size - 1
  BY <1>1, <1>5
<1>7. ord[EntryPos(ord, w)] = o.entries[EntryPos(ord, w)]
  BY <1>6, EditorAt
<1> HIDE DEF ord
<1>8. WalkPos(ord, w) =
        EntryPos(ord, w) + (IF IsTranspose(o.entries[EntryPos(ord, w)]) THEN 1 ELSE 0)
  BY <1>7 DEF WalkPos
<1> QED
  BY <1>4, <1>5, <1>6, <1>8 DEF ord

\* The walk's step from a position that owes its pattern to a repeat.
LEMMA WalkOwed ==
  ASSUME NEW o, WellFormed(o), NEW w, w.songptr \in 1 .. o.size - 1,
         IsPattern(o.entries[w.songptr])
  PROVE  Walk(o, w) =
           [songptr |-> IF w.repeat > 0 THEN w.songptr ELSE w.songptr + 1,
            repeat  |-> IF w.repeat > 0 THEN w.repeat - 1 ELSE 0,
            pattnum |-> o.entries[w.songptr],
            loops   |-> w.loops]
<1> DEFINE ord == EditorOrder(o)
<1>1. o.size \in 1 .. 254 /\ w.songptr \in 0 .. o.size - 1 /\ w.songptr \in 0 .. o.size
  BY PackedEnds DEF BYTES
<1>2. ord[w.songptr] = o.entries[w.songptr]
  BY <1>1, EditorAt
<1>3. ~ IsRepeat(o.entries[w.songptr]) /\ ~ IsTranspose(o.entries[w.songptr])
  BY PatternKind
<1>4. ~ AtLoop(ord, w) /\ WalkPos(ord, w) = w.songptr
  BY <1>1, <1>3, WalkReads
<1> HIDE DEF ord
<1> QED
  BY <1>2, <1>3, <1>4 DEF Walk, WalkAt, WalkLeft, WalkNext, WalkOwes, ord

\* The walk's step from elsewhere, where no repeat is owed: the position read
\* is a pattern's or a pair's.
LEMMA WalkFree ==
  ASSUME NEW o, WellFormed(o), NEW w, w.songptr \in 0 .. o.size, w.repeat = 0,
         NEW p \in 0 .. o.size - 1, p = WalkPos(EditorOrder(o), w),
         NEW l, l = IF w.songptr = o.size THEN CountLoop(w.loops) ELSE w.loops
  PROVE  Walk(o, w) =
           IF PairAt(o, p)
             THEN [songptr |-> p + 1, repeat |-> o.entries[p] - REPEAT - 1,
                   pattnum |-> o.entries[p + 1], loops |-> l]
             ELSE [songptr |-> p + 1, repeat |-> 0,
                   pattnum |-> o.entries[p], loops |-> l]
<1> DEFINE ord == EditorOrder(o)
<1>1. AtLoop(ord, w) <=> w.songptr = o.size
  BY WalkReads
<1>2. ord[p] = o.entries[p]
  BY EditorAt
<1>3. IsRepeat(o.entries[p]) <=> PairAt(o, p)
  BY EntryAt DEF PairAt
<1>4. CASE PairAt(o, p)
  <2>1. o.size \in 1 .. 254
    BY PackedEnds DEF BYTES
  <2>2. p + 1 \in 0 .. o.size - 1
    BY <1>4, <2>1 DEF PairAt
  <2>3. ord[p + 1] = o.entries[p + 1]
    BY <2>2, EditorAt
  <2>4. o.entries[p] - REPEAT \in 1 .. 15
    BY <1>3, <1>4, EntryAt DEF IsRepeat, REPEAT, TRANSDOWN
  <2> HIDE DEF ord
  <2> QED
    BY <1>1, <1>2, <1>3, <1>4, <2>3, <2>4 DEF Walk, WalkAt, WalkLeft, WalkNext, WalkOwes, ord
<1>5. CASE ~ PairAt(o, p)
  <2> HIDE DEF ord
  <2> QED
    BY <1>1, <1>2, <1>3, <1>5 DEF Walk, WalkAt, WalkLeft, WalkNext, WalkOwes, ord
<1> QED
  BY <1>4, <1>5

\* Before the first call the packed state stands for the walk's start.
LEMMA StartWalks ==
  ASSUME NEW o, WellFormed(o)
  PROVE  AsWalk(PackedOrder(o), SeqStart) = WalkStart
  BY StartOK DEF AsWalk, SeqStart, WalkStart

\* A repeated play is a repeat of the walk.
LEMMA RepeatWalks ==
  ASSUME NEW o, WellFormed(o), NEW s, SeqOK(o, s), IsRepeat(PackedOrder(o)[s.songptr])
  PROVE  AsWalk(PackedOrder(o), Sequence(PackedOrder(o), s)) =
           Walk(o, AsWalk(PackedOrder(o), s))
<1> DEFINE P    == PackedOrder(o)
           t    == Sequence(P, s)
           at   == s.songptr
           owed == P[at] - REPEAT - 1 - s.repeat
           w    == AsWalk(P, s)
<1>1. s \in [songptr : 0 .. o.size, trans : Byte, repeat : 0 .. 14,
             pattnum : 0 .. REPEAT - 1, loops : 0 .. LoopCap]
  BY DEF SeqOK
<1>2. /\ o.size \in 1 .. 254
      /\ at \in 1 .. o.size - 1
      /\ PairAt(o, at - 1)
      /\ P[at] - REPEAT \in 1 .. 15
      /\ IsPattern(o.entries[at])
  BY <1>1, PackedEnds, PackedRepeat DEF BYTES
<1>3. s.repeat + 1 <= P[at] - REPEAT /\ s.pattnum = o.entries[at]
  BY DEF SeqOK
<1>4. w = [songptr |-> at, repeat |-> owed, pattnum |-> s.pattnum, loops |-> s.loops]
  BY DEF AsWalk
<1>5. w.songptr = at /\ w.repeat = owed /\ w.loops = s.loops
  BY <1>4
<1>6. ~ IsRepeat(P[at + 1])
  BY <1>2, AfterPair
<1>7. t = IF P[at] - REPEAT = s.repeat + 1
            THEN [s EXCEPT !.repeat = 0, !.songptr = at + 1]
            ELSE [s EXCEPT !.repeat = s.repeat + 1]
  BY RepeatCall
<1> HIDE DEF w, t, P
<1>8. Walk(o, w) =
        [songptr |-> IF owed > 0 THEN at ELSE at + 1,
         repeat  |-> IF owed > 0 THEN owed - 1 ELSE 0,
         pattnum |-> s.pattnum,
         loops   |-> s.loops]
  BY <1>2, <1>3, <1>5, WalkOwed
<1>9. CASE P[at] - REPEAT = s.repeat + 1
  <2>1. t.songptr = at + 1 /\ t.pattnum = s.pattnum /\ t.loops = s.loops
    BY <1>1, <1>7, <1>9
  <2>2. owed = 0
    BY <1>1, <1>2, <1>9
  <2>3. AsWalk(P, t) =
          [songptr |-> at + 1, repeat |-> 0, pattnum |-> s.pattnum, loops |-> s.loops]
    BY <1>6, <2>1 DEF AsWalk
  <2> QED
    BY <1>8, <2>2, <2>3 DEF w, t, P
<1>10. CASE P[at] - REPEAT # s.repeat + 1
  <2>1. t.songptr = at /\ t.pattnum = s.pattnum /\ t.loops = s.loops /\ t.repeat = s.repeat + 1
    BY <1>1, <1>7, <1>10
  <2>2. owed > 0 /\ P[at] - REPEAT - 1 - (s.repeat + 1) = owed - 1
    BY <1>1, <1>2, <1>3, <1>10
  <2>3. AsWalk(P, t) =
          [songptr |-> at, repeat |-> P[at] - REPEAT - 1 - (s.repeat + 1),
           pattnum |-> s.pattnum, loops |-> s.loops]
    BY <2>1 DEF AsWalk, P
  <2> QED
    BY <1>8, <2>2, <2>3 DEF w, t, P
<1> QED
  BY <1>9, <1>10

\* A newly read pattern is the walk's next entry, its repeat still to come.
LEMMA PatternWalks ==
  ASSUME NEW o, WellFormed(o), NEW s, SeqOK(o, s), ~ IsRepeat(PackedOrder(o)[s.songptr])
  PROVE  AsWalk(PackedOrder(o), Sequence(PackedOrder(o), s)) =
           Walk(o, AsWalk(PackedOrder(o), s))
<1> DEFINE P == PackedOrder(o)
           t == Sequence(P, s)
           p == PlayPos(P, s)
           l == IF s.songptr = o.size THEN CountLoop(s.loops) ELSE s.loops
           w == AsWalk(P, s)
<1>1. s.songptr \in 0 .. o.size
  BY DEF SeqOK
<1>2. /\ p \in 0 .. o.size - 1
      /\ t.songptr = p + 1
      /\ t.repeat = 0
      /\ t.pattnum = P[p]
      /\ t.loops = l
  BY PatternCall
<1>3. /\ EntryPos(P, s) = IF s.songptr = o.size THEN o.restart ELSE s.songptr
      /\ Shifts(P, s) <=> IsTranspose(o.entries[EntryPos(P, s)])
  BY <1>1, AtPattern
<1>4. w.songptr = s.songptr /\ w.repeat = 0 /\ w.loops = s.loops
  BY DEF AsWalk
<1>5. \/ /\ PairAt(o, p)
         /\ IsRepeat(P[p + 1])
         /\ P[p + 1] = o.entries[p]
         /\ P[p + 1] - REPEAT \in 1 .. 15
         /\ P[p] = o.entries[p + 1]
      \/ /\ ~ PairAt(o, p)
         /\ ~ IsRepeat(P[p + 1])
         /\ P[p] = o.entries[p]
  BY PatternRead
<1> HIDE DEF w, t
<1>6. WalkPos(EditorOrder(o), w) = p
  <2>1. EntryPos(EditorOrder(o), w) = EntryPos(P, s)
    BY <1>1, <1>3, <1>4, WalkReads
  <2> QED
    BY <1>1, <1>3, <1>4, <2>1, WalkReads DEF PlayPos
<1> HIDE DEF p, P
<1>7. l = IF w.songptr = o.size THEN CountLoop(w.loops) ELSE w.loops
  BY <1>4
<1> HIDE DEF l
<1>8. Walk(o, w) =
        IF PairAt(o, p)
          THEN [songptr |-> p + 1, repeat |-> o.entries[p] - REPEAT - 1,
                pattnum |-> o.entries[p + 1], loops |-> l]
          ELSE [songptr |-> p + 1, repeat |-> 0,
                pattnum |-> o.entries[p], loops |-> l]
  BY <1>1, <1>2, <1>4, <1>6, <1>7, WalkFree
<1>9. AsWalk(P, t) =
        [songptr |-> p + 1,
         repeat |-> IF IsRepeat(P[p + 1]) THEN P[p + 1] - REPEAT - 1 - 0 ELSE 0,
         pattnum |-> P[p], loops |-> l]
  BY <1>2 DEF AsWalk
<1>10. CASE PairAt(o, p)
  <2>1. P[p + 1] - REPEAT - 1 - 0 = P[p + 1] - REPEAT - 1
    BY <1>5, <1>10
  <2> QED
    BY <1>5, <1>8, <1>9, <1>10, <2>1 DEF w, t, P
<1>11. CASE ~ PairAt(o, p)
  BY <1>5, <1>8, <1>9, <1>11 DEF w, t, P
<1> QED
  BY <1>10, <1>11

\* Every call of the packed sequencer is a step of the converter's walk.
LEMMA SeqWalks ==
  ASSUME NEW o, WellFormed(o), NEW s, SeqOK(o, s)
  PROVE  /\ AsWalk(PackedOrder(o), Sequence(PackedOrder(o), s)) =
              Walk(o, AsWalk(PackedOrder(o), s))
         /\ ~ WalkStops(o, AsWalk(PackedOrder(o), s))
<1>1. o.size \in 1 .. 254 /\ o.restart \in 0 .. o.size - 1
  BY PackedEnds DEF BYTES
<1>2. ~ (o.restart >= o.size)
  BY <1>1
<1> QED
  BY <1>2, RepeatWalks, PatternWalks DEF WalkStops

=============================================================================
