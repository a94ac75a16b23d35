--------------------------- MODULE SequencerProofs ---------------------------
(***************************************************************************)
(* The packed sequencer on every well-formed orderlist: the pattern that   *)
(* plays is the one the editor shows, under the transpose the editor shows *)
(* nearest before it, a repeat plays exactly as often as it says, and      *)
(* every step is a step of the converter's walk. The argument is one       *)
(* inductive invariant: what the repeat counter and the transpose mean at  *)
(* the position the packed sequencer stands on.                            *)
(***************************************************************************)
EXTENDS Sequencer, OrderlistProofs, WellFoundedInduction

\* The orderlists this file is about: the code packs others too.
OrdersWellFormed == \A o \in Orders : WellFormed(o)

\* The transpose in force, stated of every state: before the first pattern the
\* position played is -1, no entry stands before it, and nothing is in force.
InForce ==
  LET near == ShiftsIn(IF seq.loops = 0 THEN 0 ELSE order.restart, PlayedEntry)
      all  == ShiftsIn(0, order.size - 1)
  IN  seq.trans = IF near # {} THEN ShiftAt(Max(near))
                  ELSE IF seq.loops > 0 /\ all # {} THEN ShiftAt(Max(all)) ELSE 0

\* What holds between two calls: on a trailing repeat the plays made are one
\* more than its counter says and the pattern is the pair's (SeqOK); elsewhere
\* the pattern is the one the position has just left behind. A pass that has
\* looped is past the restart.
IInv ==
  /\ order \in Orders
  /\ SeqOK(order, seq)
  /\ plays \in 0 .. 16
  /\ IsRepeat(packed[seq.songptr]) => plays = seq.repeat + 1
  /\ ~ IsRepeat(packed[seq.songptr]) /\ plays > 0 =>
       seq.pattnum = order.entries[seq.songptr - 1]
  /\ seq.loops > 0 => order.restart < seq.songptr
  /\ InForce

-----------------------------------------------------------------------------
(* The nearest transpose.                                                  *)

\* The positions of a list's transposes between two of its positions.
ShiftsOf(o, first, last) == {i \in first .. last : IsTranspose(o.entries[i])}

\* A bounded set of positions that is not empty has a last one.
LEMMA LastOf ==
  ASSUME NEW n \in Nat, NEW S, S \subseteq 0 .. n, S # {}
  PROVE  Max(S) \in S /\ \A i \in S : i <= Max(S)
<1> DEFINE T == {n - i : i \in S}
<1>1. T \subseteq Nat /\ T # {}
  <2>1. ASSUME NEW i \in S PROVE n - i \in Nat
    <3>1. i \in 0 .. n
      OBVIOUS
    <3> QED
      BY <3>1
  <2> QED
    BY <2>1
<1>2. PICK x \in T : \A y \in T : ~ (<<y, x>> \in OpToRel(<, Nat))
  <2>1. IsWellFoundedOn(OpToRel(<, Nat), Nat)
    BY NatLessThanWellFounded
  <2> HIDE DEF T
  <2> QED
    BY <1>1, <2>1, WFMin
<1>3. \A y \in T : ~ (y < x)
  BY <1>1, <1>2 DEF OpToRel
<1>4. PICK m \in S : x = n - m
  OBVIOUS
<1>5. \A i \in S : i <= m
  <2> SUFFICES ASSUME NEW i \in S PROVE i <= m
    OBVIOUS
  <2>1. n - i \in T /\ i \in 0 .. n /\ m \in 0 .. n
    OBVIOUS
  <2>2. ~ (n - i < n - m)
    BY <1>3, <1>4, <2>1
  <2> QED
    BY <2>1, <2>2
<1>6. \E j \in S : \A i \in S : j >= i
  BY <1>5
<1>7. Max(S) \in S /\ \A i \in S : Max(S) >= i
  BY <1>6 DEF Max
<1> QED
  BY <1>7

\* Of two sets of positions with one last element the last is the same.
LEMMA LastIs ==
  ASSUME NEW n \in Nat, NEW S, S \subseteq 0 .. n, NEW m \in S, \A i \in S : i <= m
  PROVE  Max(S) = m
<1>1. Max(S) \in S /\ \A i \in S : i <= Max(S)
  BY LastOf
<1>2. Max(S) <= m /\ m <= Max(S) /\ Max(S) \in 0 .. n /\ m \in 0 .. n
  BY <1>1
<1> QED
  BY <1>2

-----------------------------------------------------------------------------
(* One call keeps the invariant.                                           *)

\* The invariant holds before the first call.
LEMMA InitIInv ==
  ASSUME OrdersWellFormed, Init
  PROVE  IInv
<1>1. WellFormed(order) /\ order \in Orders /\ seq = SeqStart /\ plays = 0
  BY DEF Init, OrdersWellFormed
<1>2. SeqOK(order, seq) /\ ~ IsRepeat(packed[seq.songptr])
  BY <1>1, StartOK DEF SeqStart, packed
<1>3. seq.loops = 0
  BY <1>1 DEF SeqStart
<1>4. InForce
  <2>1. PlayedEntry = 0 - 1 /\ seq.loops = 0 /\ seq.trans = 0
    BY <1>1, <1>2 DEF PlayedEntry, SeqStart
  <2>2. ShiftsIn(0, 0 - 1) = {}
    BY DEF ShiftsIn
  <2> QED
    BY <2>1, <2>2 DEF InForce
<1> QED
  BY <1>1, <1>2, <1>3, <1>4 DEF IInv

\* A call on a trailing repeat: the same entry plays again, the count is one
\* more, and the position leaves the repeat when the count is reached.
LEMMA RepeatStep ==
  ASSUME OrdersWellFormed, IInv, PatternEnds, IsRepeat(packed[seq.songptr])
  PROVE  /\ plays' = plays + 1
         /\ plays = seq.repeat + 1
         /\ seq'.trans = seq.trans /\ seq'.loops = seq.loops /\ seq'.pattnum = seq.pattnum
         /\ \/ /\ packed[seq.songptr] - REPEAT = seq.repeat + 1
               /\ seq'.songptr = seq.songptr + 1
               /\ ~ IsRepeat(packed[seq.songptr + 1])
            \/ /\ packed[seq.songptr] - REPEAT # seq.repeat + 1
               /\ seq'.songptr = seq.songptr /\ seq'.repeat = seq.repeat + 1
<1>1. WellFormed(order) /\ packed = PackedOrder(order) /\ SeqOK(order, seq)
  BY DEF IInv, OrdersWellFormed, packed
<1>2. seq \in [songptr : 0 .. order.size, trans : Byte, repeat : 0 .. 14,
               pattnum : 0 .. REPEAT - 1, loops : 0 .. LoopCap]
  BY <1>1 DEF SeqOK
<1>3. Replays(packed, seq)
  BY <1>1, RepeatCall
<1>4. seq' = IF packed[seq.songptr] - REPEAT = seq.repeat + 1
               THEN [seq EXCEPT !.repeat = 0, !.songptr = seq.songptr + 1]
               ELSE [seq EXCEPT !.repeat = seq.repeat + 1]
  <2>1. seq' = Sequence(packed, seq)
    BY DEF PatternEnds
  <2> QED
    BY <1>1, <2>1, RepeatCall
<1>5. ~ IsRepeat(packed[seq.songptr + 1])
  <2>1. seq.songptr \in 1 .. order.size - 1 /\ PairAt(order, seq.songptr - 1)
    BY <1>1, <1>2, PackedRepeat
  <2> QED
    BY <1>1, <2>1, AfterPair
<1>6. plays' = plays + 1 /\ plays = seq.repeat + 1
  BY <1>3 DEF PatternEnds, IInv
<1> HIDE DEF packed
<1> QED
  BY <1>2, <1>4, <1>5, <1>6

\* A call elsewhere reads a pattern: where it stands in the editor's list, and
\* the transpose that may stand before it.
LEMMA PatternStep ==
  ASSUME OrdersWellFormed, IInv, PatternEnds, ~ IsRepeat(packed[seq.songptr])
  PROVE  /\ plays' = 1
         /\ seq'.repeat = 0
         /\ seq'.loops = IF seq.songptr = order.size THEN CountLoop(seq.loops) ELSE seq.loops
         /\ \E e \in 0 .. order.size - 1, q \in 0 .. order.size - 1 :
              /\ e = IF seq.songptr = order.size THEN order.restart ELSE seq.songptr
              /\ e <= q /\ e < seq'.songptr
              /\ \A i \in e + 1 .. q : ~ IsTranspose(order.entries[i])
              /\ seq'.trans = IF IsTranspose(order.entries[e]) THEN ShiftAt(e) ELSE seq.trans
              /\ q = IF IsRepeat(packed[seq'.songptr]) THEN seq'.songptr ELSE seq'.songptr - 1
              /\ seq'.pattnum = order.entries[q]
<1> DEFINE P == PackedOrder(order)
           p == PlayPos(P, seq)
           e == EntryPos(P, seq)
<1>1. WellFormed(order) /\ packed = P /\ SeqOK(order, seq)
  BY DEF IInv, OrdersWellFormed, packed
<1>2. seq.songptr \in 0 .. order.size /\ order.size \in 1 .. 254
  BY <1>1, PackedEnds DEF SeqOK, BYTES
<1>3. /\ e \in 0 .. order.size - 1
      /\ e = IF seq.songptr = order.size THEN order.restart ELSE seq.songptr
      /\ Shifts(P, seq) <=> IsTranspose(order.entries[e])
      /\ p \in 0 .. order.size - 1
  BY <1>1, <1>2, AtPattern
<1>4. /\ ~ Replays(P, seq)
      /\ Sequence(P, seq) =
           [songptr |-> p + 1,
            trans   |-> IF Shifts(P, seq) THEN (P[e] - TRANSUP) % BYTES ELSE seq.trans,
            repeat  |-> 0,
            pattnum |-> P[p],
            loops   |-> IF seq.songptr = order.size THEN CountLoop(seq.loops) ELSE seq.loops]
  BY <1>1, PatternCall
<1>5. IsTranspose(order.entries[e]) => P[e] = order.entries[e]
  BY <1>1, <1>3, PackedTranspose
<1>6. p = IF IsTranspose(order.entries[e]) THEN e + 1 ELSE e
  BY <1>3 DEF PlayPos
<1>7. \/ /\ PairAt(order, p) /\ IsRepeat(P[p + 1]) /\ P[p] = order.entries[p + 1]
      \/ /\ ~ PairAt(order, p) /\ ~ IsRepeat(P[p + 1]) /\ P[p] = order.entries[p]
  BY <1>1, PatternRead
<1>8. plays' = 1 /\ seq' = Sequence(P, seq)
  BY <1>1, <1>4 DEF PatternEnds
<1>11. IsPattern(P[p])
  BY <1>1, PatternRead
<1> HIDE DEF P, p, e
<1>9. seq'.songptr = p + 1 /\ seq'.repeat = 0 /\ seq'.pattnum = P[p]
      /\ seq'.trans = (IF IsTranspose(order.entries[e]) THEN ShiftAt(e) ELSE seq.trans)
      /\ seq'.loops = IF seq.songptr = order.size THEN CountLoop(seq.loops) ELSE seq.loops
  BY <1>3, <1>4, <1>5, <1>8 DEF ShiftAt
<1> DEFINE q == IF PairAt(order, p) THEN p + 1 ELSE p
<1>10. q \in 0 .. order.size - 1 /\ e <= q
  BY <1>2, <1>3, <1>6 DEF PairAt
<1>12. \A i \in e + 1 .. q : ~ IsTranspose(order.entries[i])
  <2> SUFFICES ASSUME NEW i \in e + 1 .. q PROVE ~ IsTranspose(order.entries[i])
    OBVIOUS
  <2>1. i = p \/ (PairAt(order, p) /\ i = p + 1)
    BY <1>3, <1>6
  <2>2. PairAt(order, p) =>
          ~ IsTranspose(order.entries[p]) /\ ~ IsTranspose(order.entries[p + 1])
    BY SMTT(30) DEF PairAt, IsTranspose, IsRepeat, IsPattern, REPEAT, TRANSDOWN, LOOPSONG
  <2>3. ~ PairAt(order, p) => ~ IsTranspose(order.entries[p])
    BY <1>7, <1>11, PatternKind
  <2> QED
    BY <2>1, <2>2, <2>3
<1>13. q = IF IsRepeat(packed[seq'.songptr]) THEN seq'.songptr ELSE seq'.songptr - 1
  BY <1>1, <1>3, <1>7, <1>9
<1>14. seq'.pattnum = order.entries[q]
  BY <1>7, <1>9
<1>15. e < seq'.songptr
  BY <1>3, <1>6, <1>9
<1> QED
  BY <1>3, <1>8, <1>9, <1>10, <1>12, <1>13, <1>14, <1>15

\* A call that reads on in the list leaves the nearest transpose in force.
LEMMA NearStep ==
  ASSUME NEW o, WellFormed(o), NEW f \in 0 .. o.size, NEW e \in 0 .. o.size - 1,
         NEW q \in 0 .. o.size - 1, f <= e, e <= q,
         \A i \in e + 1 .. q : ~ IsTranspose(o.entries[i])
  PROVE  /\ IsTranspose(o.entries[e]) =>
              ShiftsOf(o, f, q) # {} /\ Max(ShiftsOf(o, f, q)) = e
         /\ ~ IsTranspose(o.entries[e]) => ShiftsOf(o, f, q) = ShiftsOf(o, f, e - 1)
<1> DEFINE S == {i \in f .. q : IsTranspose(o.entries[i])}
<1>1. o.size \in 1 .. 254
  BY PackedEnds DEF BYTES
<1>2. ASSUME NEW i \in S PROVE i <= e
  BY <1>1
<1>3. ASSUME IsTranspose(o.entries[e]) PROVE S # {} /\ Max(S) = e
  <2>1. e \in S /\ S \subseteq 0 .. o.size /\ o.size \in Nat
    BY <1>1, <1>3
  <2> HIDE DEF S
  <2> QED
    BY <1>2, <2>1, LastIs
<1>4. ASSUME ~ IsTranspose(o.entries[e])
      PROVE  S = {i \in f .. e - 1 : IsTranspose(o.entries[i])}
  BY <1>1, <1>4
<1> QED
  BY <1>3, <1>4 DEF ShiftsOf

\* Every call of the sequencer keeps the transpose in force.
LEMMA StepInForce ==
  ASSUME OrdersWellFormed, IInv, PatternEnds
  PROVE  InForce'
<1> DEFINE sh(a, b) == ShiftsOf(order, a, b)
           first == IF seq.loops = 0 THEN 0 ELSE order.restart
           all   == sh(0, order.size - 1)
<1>1. WellFormed(order) /\ order' = order /\ packed' = packed
  BY DEF PatternEnds, IInv, OrdersWellFormed, packed
<1>2. /\ order.size \in 1 .. 254 /\ order.restart \in 0 .. order.size - 1
      /\ seq.songptr \in 0 .. order.size /\ seq.loops \in 0 .. LoopCap
  BY <1>1, PackedEnds DEF IInv, SeqOK, BYTES
<1>3. seq.trans = IF sh(first, PlayedEntry) # {} THEN ShiftAt(Max(sh(first, PlayedEntry)))
                  ELSE IF seq.loops > 0 /\ all # {} THEN ShiftAt(Max(all)) ELSE 0
  BY DEF IInv, InForce, ShiftsIn, ShiftsOf
<1>4. SUFFICES ASSUME NEW f, f = IF seq'.loops = 0 THEN 0 ELSE order.restart,
                      NEW q, q = PlayedEntry'
               PROVE  seq'.trans = IF sh(f, q) # {} THEN ShiftAt(Max(sh(f, q)))
                                   ELSE IF seq'.loops > 0 /\ all # {} THEN ShiftAt(Max(all)) ELSE 0
  BY ZenonT(60), <1>1 DEF InForce, ShiftsIn, ShiftAt, ShiftsOf
<1>5. PlayedEntry' = IF IsRepeat(packed[seq'.songptr]) THEN seq'.songptr ELSE seq'.songptr - 1
  BY <1>1 DEF PlayedEntry
<1>6. CASE IsRepeat(packed[seq.songptr])
  <2>1. PlayedEntry' = PlayedEntry
    BY <1>2, <1>5, <1>6, RepeatStep DEF PlayedEntry
  <2>2. seq'.trans = seq.trans /\ seq'.loops = seq.loops
    BY <1>6, RepeatStep
  <2> HIDE DEF sh, all
  <2> QED
    BY <1>3, <1>4, <2>1, <2>2
<1>7. CASE ~ IsRepeat(packed[seq.songptr])
  <2>1. PICK e \in 0 .. order.size - 1, r \in 0 .. order.size - 1 :
          /\ e = IF seq.songptr = order.size THEN order.restart ELSE seq.songptr
          /\ e <= r
          /\ \A i \in e + 1 .. r : ~ IsTranspose(order.entries[i])
          /\ seq'.trans = IF IsTranspose(order.entries[e]) THEN ShiftAt(e) ELSE seq.trans
          /\ r = IF IsRepeat(packed[seq'.songptr]) THEN seq'.songptr ELSE seq'.songptr - 1
    BY <1>7, PatternStep
  <2>2. r = q /\ PlayedEntry = seq.songptr - 1
    BY <1>4, <1>5, <1>7, <2>1 DEF PlayedEntry
  <2>3. seq'.loops = IF seq.songptr = order.size THEN CountLoop(seq.loops) ELSE seq.loops
    BY <1>7, PatternStep
  <2>4. CASE seq.songptr # order.size
    <3>1. e = seq.songptr /\ f = first /\ seq'.loops = seq.loops
      BY <1>4, <2>1, <2>3, <2>4
    <3>2. f \in 0 .. order.size /\ f <= e
      BY <1>2, <3>1 DEF IInv
    <3>3. /\ IsTranspose(order.entries[e]) => sh(f, q) # {} /\ Max(sh(f, q)) = e
          /\ ~ IsTranspose(order.entries[e]) => sh(f, q) = sh(f, e - 1)
      BY <1>1, <2>1, <2>2, <3>2, NearStep
    <3> HIDE DEF sh, all
    <3> QED
      BY <1>3, <2>1, <2>2, <3>1, <3>3
  <2>5. CASE seq.songptr = order.size
    <3>1. e = order.restart /\ f = order.restart /\ seq'.loops > 0
      BY <1>2, <1>4, <2>1, <2>3, <2>5, LoopCapAssumption DEF CountLoop
    <3>2. /\ IsTranspose(order.entries[e]) => sh(f, q) # {} /\ Max(sh(f, q)) = e
          /\ ~ IsTranspose(order.entries[e]) => sh(f, q) = sh(f, e - 1)
      <4>1. f \in 0 .. order.size /\ f <= e
        BY <1>2, <3>1
      <4> QED
        BY <1>1, <2>1, <2>2, <4>1, NearStep
    <3>3. sh(f, e - 1) = {}
      BY <1>2, <3>1 DEF ShiftsOf
    <3>4. seq.trans = IF all # {} THEN ShiftAt(Max(all)) ELSE 0
      <4>1. PlayedEntry = order.size - 1
        BY <2>2, <2>5
      <4>2. CASE seq.loops = 0
        BY <1>3, <4>1, <4>2
      <4>3. CASE seq.loops # 0 /\ sh(order.restart, order.size - 1) = {}
        <5>1. seq.loops > 0
          BY <1>2, <4>3
        <5> HIDE DEF sh, all
        <5> QED
          BY <1>3, <4>1, <4>3, <5>1
      <4>4. CASE seq.loops # 0 /\ sh(order.restart, order.size - 1) # {}
        <5> DEFINE near == sh(order.restart, order.size - 1)
        <5>1. near \subseteq 0 .. order.size /\ order.size \in Nat /\ all \subseteq 0 .. order.size
          BY <1>2 DEF ShiftsOf
        <5>2. Max(near) \in near /\ \A i \in near : i <= Max(near)
          <6> HIDE DEF sh, all
          <6> QED
            BY <4>4, <5>1, LastOf
        <5>3. Max(near) \in all /\ \A i \in all : i <= Max(near)
          <6>1. ASSUME NEW i \in all PROVE i \in near \/ i < order.restart
            BY <1>2 DEF ShiftsOf
          <6>2. near \subseteq all /\ near \subseteq order.restart .. order.size - 1
            BY <1>2 DEF ShiftsOf
          <6> HIDE DEF near, all, sh
          <6>3. Max(near) \in all /\ Max(near) \in order.restart .. order.size - 1
            BY <5>2, <6>2
          <6>4. ASSUME NEW i \in all PROVE i <= Max(near)
            <7>1. i \in 0 .. order.size
              BY <5>1
            <7> QED
              BY <1>2, <5>2, <6>1, <6>3, <7>1
          <6> QED
            BY <6>3, <6>4
        <5> HIDE DEF sh, near, all
        <5>4. Max(all) = Max(near)
          BY <5>1, <5>3, LastIs
        <5>5. all # {}
          BY <5>3
        <5> QED
          BY <1>3, <4>1, <4>4, <5>4, <5>5 DEF near
      <4> QED
        BY <4>2, <4>3, <4>4
    <3> HIDE DEF sh, all
    <3> QED
      BY <2>1, <3>1, <3>2, <3>3, <3>4
  <2> QED
    BY <2>4, <2>5
<1> QED
  BY <1>6, <1>7

\* Every call of the sequencer keeps the invariant.
LEMMA StepIInv ==
  ASSUME OrdersWellFormed, IInv, [Next]_vars
  PROVE  IInv'
<1>1. CASE UNCHANGED vars
  BY <1>1 DEF IInv, vars, packed, SeqOK, InForce, ShiftsIn, ShiftAt, PlayedEntry
<1>2. CASE PatternEnds
  <2>1. WellFormed(order) /\ order' = order /\ packed' = packed /\ order \in Orders
    BY <1>2 DEF PatternEnds, IInv, OrdersWellFormed, packed
  <2>2. SeqOK(order, seq)
    BY DEF IInv
  <2>3. SeqOK(order', seq')
    BY <1>2, <2>1, <2>2, SeqKeepsOK DEF PatternEnds, packed
  <2>4. InForce'
    BY <1>2, StepInForce
  <2>5. seq.songptr \in 0 .. order.size /\ seq.repeat \in 0 .. 14 /\ seq.loops \in 0 .. LoopCap
    BY <2>2 DEF SeqOK
  <2>6. CASE IsRepeat(packed[seq.songptr])
    <3>1. seq.repeat + 1 <= packed[seq.songptr] - REPEAT
          /\ seq.pattnum = order.entries[seq.songptr]
      BY <2>2, <2>6 DEF SeqOK, packed
    <3>2. /\ plays' = plays + 1 /\ plays = seq.repeat + 1
          /\ seq'.trans = seq.trans /\ seq'.loops = seq.loops /\ seq'.pattnum = seq.pattnum
          /\ \/ /\ packed[seq.songptr] - REPEAT = seq.repeat + 1
                /\ seq'.songptr = seq.songptr + 1
                /\ ~ IsRepeat(packed[seq.songptr + 1])
             \/ /\ packed[seq.songptr] - REPEAT # seq.repeat + 1
                /\ seq'.songptr = seq.songptr /\ seq'.repeat = seq.repeat + 1
      BY <1>2, <2>6, RepeatStep
    <3>3. plays' \in 0 .. 16
      BY <2>5, <3>2
    <3>4. seq'.loops > 0 => order.restart < seq'.songptr
      <4>1. order.restart \in 0 .. order.size - 1 /\ order.size \in 1 .. 254
        BY <2>1, PackedEnds DEF BYTES
      <4> QED
        BY <2>5, <3>2, <4>1 DEF IInv
    <3>5. ~ IsRepeat(packed[seq'.songptr]) => seq'.pattnum = order.entries[seq'.songptr - 1]
      BY <2>5, <2>6, <3>1, <3>2
    <3>6. IsRepeat(packed[seq'.songptr]) => plays' = seq'.repeat + 1
      BY <2>5, <2>6, <3>2
    <3> QED
      BY <2>1, <2>3, <2>4, <3>3, <3>4, <3>5, <3>6 DEF IInv
  <2>7. CASE ~ IsRepeat(packed[seq.songptr])
    <3>1. plays' = 1 /\ seq'.repeat = 0
      BY <1>2, <2>7, PatternStep
    <3>2. PICK e \in 0 .. order.size - 1, q \in 0 .. order.size - 1 :
            /\ e = IF seq.songptr = order.size THEN order.restart ELSE seq.songptr
            /\ e < seq'.songptr
            /\ q = IF IsRepeat(packed[seq'.songptr]) THEN seq'.songptr ELSE seq'.songptr - 1
            /\ seq'.pattnum = order.entries[q]
      BY <1>2, <2>7, PatternStep
    <3>3. seq'.loops = IF seq.songptr = order.size THEN CountLoop(seq.loops) ELSE seq.loops
      BY <1>2, <2>7, PatternStep
    <3>4. seq'.loops > 0 => order.restart < seq'.songptr
      <4>1. order.restart \in 0 .. order.size - 1 /\ order.size \in 1 .. 254
            /\ seq'.songptr \in 0 .. order.size
        BY <2>1, <2>3, PackedEnds DEF BYTES, SeqOK
      <4>2. CASE seq.songptr = order.size
        BY <3>2, <4>2
      <4>3. CASE seq.songptr # order.size
        BY <2>5, <3>2, <3>3, <4>1, <4>3 DEF IInv
      <4> QED
        BY <4>2, <4>3
    <3> QED
      BY <2>1, <2>3, <2>4, <3>1, <3>2, <3>4 DEF IInv
  <2> QED
    BY <2>6, <2>7
<1> QED
  BY <1>1, <1>2 DEF Next

-----------------------------------------------------------------------------
(* What the invariant says of the orderlist that plays.                    *)

\* On every well-formed orderlist the sequencer's state stays as IInv says.
THEOREM IInvHolds ==
  ASSUME OrdersWellFormed
  PROVE  Spec => []IInv
<1>1. Init => IInv
  BY InitIInv
<1>2. IInv /\ [Next]_vars => IInv'
  BY StepIInv
<1> QED
  BY <1>1, <1>2, PTL DEF Spec

\* The state of mt_sequencer keeps its types: no position leaves the list, the
\* repeat counter never passes 14, and no pattern number is a command byte.
THEOREM TypeCorrect ==
  ASSUME OrdersWellFormed
  PROVE  Spec => []TypeOK
<1>1. IInv => TypeOK
  BY DEF IInv, SeqOK, TypeOK
<1> QED
  BY <1>1, IInvHolds, PTL

\* The pattern that plays is the one the editor's orderlist shows at the
\* position the packed sequencer stands on.
THEOREM EditorEntryPlays ==
  ASSUME OrdersWellFormed
  PROVE  Spec => []PlaysEditorEntry
<1>1. IInv => PlaysEditorEntry
  BY DEF IInv, SeqOK, PlaysEditorEntry, PlayedEntry, packed
<1> QED
  BY <1>1, IInvHolds, PTL

\* The transpose in force is the editor list's nearest one before the pattern
\* that plays, across the loop too.
THEOREM NearestTransposeInForce ==
  ASSUME OrdersWellFormed
  PROVE  Spec => []TransposeInForce
<1>1. IInv => TransposeInForce
  BY DEF IInv, InForce, TransposeInForce
<1> QED
  BY <1>1, IInvHolds, PTL

\* Repeat(n) plays its pattern n+1 times, no more and no fewer.
THEOREM RepeatPlaysExactly ==
  ASSUME OrdersWellFormed
  PROVE  Spec => RepeatExact
<1> DEFINE Exact == IsRepeat(packed[seq.songptr]) /\ seq'.songptr # seq.songptr
                      => plays' = packed[seq.songptr] - REPEAT + 1
<1>1. IInv /\ [Next]_vars => [Exact]_vars
  <2> SUFFICES ASSUME IInv, PatternEnds, IsRepeat(packed[seq.songptr]),
                      seq'.songptr # seq.songptr
               PROVE  plays' = packed[seq.songptr] - REPEAT + 1
    BY DEF Next
  <2>1. plays' = plays + 1 /\ plays = seq.repeat + 1
        /\ packed[seq.songptr] - REPEAT = seq.repeat + 1
    BY RepeatStep
  <2> QED
    BY <2>1
<1> QED
  BY <1>1, IInvHolds, PTL DEF Spec, RepeatExact

-----------------------------------------------------------------------------
(* The converter's walk is implemented.                                    *)

\* The instance's walk is this module's: the same definitions, named twice.
LEMMA SameWalk ==
  ASSUME NEW o, NEW w
  PROVE  /\ Editor!Walk(o, w) = Walk(o, w)
         /\ Editor!WalkStops(o, w) = WalkStops(o, w)
<1>1. Editor!EditorOrder(o) = EditorOrder(o)
  BY DEF Editor!EditorOrder, EditorOrder, Editor!LOOPSONG, LOOPSONG
<1>2. ASSUME NEW ord PROVE Editor!AtLoop(ord, w) = AtLoop(ord, w)
  BY DEF Editor!AtLoop, AtLoop, Editor!LOOPSONG, LOOPSONG
<1>3. ASSUME NEW ord PROVE Editor!EntryPos(ord, w) = EntryPos(ord, w)
  BY <1>2 DEF Editor!EntryPos, EntryPos
<1>4. ASSUME NEW b PROVE Editor!IsTranspose(b) = IsTranspose(b) /\ Editor!IsRepeat(b) = IsRepeat(b)
  BY DEF Editor!IsTranspose, IsTranspose, Editor!IsRepeat, IsRepeat, Editor!TRANSDOWN,
         TRANSDOWN, Editor!LOOPSONG, LOOPSONG, Editor!REPEAT, REPEAT
<1>5. ASSUME NEW ord PROVE Editor!WalkPos(ord, w) = WalkPos(ord, w)
  BY <1>3, <1>4 DEF Editor!WalkPos, WalkPos
<1>6. Editor!CountLoop(w.loops) = CountLoop(w.loops)
  BY DEF Editor!CountLoop, CountLoop
<1>7. Editor!Walk(o, w) = Walk(o, w)
  BY <1>1, <1>2, <1>4, <1>5, <1>6 DEF Editor!Walk, Editor!WalkAt, Editor!WalkLeft, Editor!WalkNext, Editor!WalkOwes,
     Walk, WalkAt, WalkLeft, WalkNext, WalkOwes, Editor!REPEAT, REPEAT
<1> QED
  BY <1>7 DEF Editor!WalkStops, WalkStops

\* On every well-formed orderlist the packed sequencer plays what the
\* converter's walk of the editor's list plays, call for call.
THEOREM WalkImplemented ==
  ASSUME OrdersWellFormed
  PROVE  Spec => ImplementsWalk
<1>1. Init => Editor!Init
  <2> SUFFICES ASSUME Init PROVE Editor!Init
    OBVIOUS
  <2>1. WellFormed(order) /\ seq = SeqStart
    BY DEF Init, OrdersWellFormed
  <2>2. AsWalk(packed, seq) = WalkStart
    BY <2>1, StartWalks DEF packed
  <2> QED
    BY <2>2 DEF Init, Editor!Init, WalkStart, Editor!WalkStart
<1>2. IInv /\ [Next]_vars => [Editor!Next]_(Editor!vars)
  <2>1. CASE UNCHANGED vars
    BY <2>1 DEF vars, Editor!vars, packed
  <2>2. CASE PatternEnds /\ IInv
    <3>1. WellFormed(order) /\ SeqOK(order, seq) /\ packed = PackedOrder(order)
          /\ packed' = packed /\ order' = order /\ seq' = Sequence(packed, seq)
      BY <2>2 DEF PatternEnds, IInv, OrdersWellFormed, packed
    <3>2. /\ AsWalk(packed', seq') = Walk(order, AsWalk(packed, seq))
          /\ ~ WalkStops(order, AsWalk(packed, seq))
      BY <3>1, SeqWalks
    <3>3. ~ Editor!WalkStops(order, AsWalk(packed, seq))
      BY <3>2, SameWalk
    <3>4. AsWalk(packed, seq)' = Editor!Walk(order, AsWalk(packed, seq))
      BY <3>2, SameWalk
    <3>5. Editor!Step
      BY <3>1, <3>3, <3>4 DEF Editor!Step
    <3> QED
      BY <3>5 DEF Editor!Next
  <2> QED
    BY <2>1, <2>2 DEF Next
<1> QED
  BY <1>1, <1>2, IInvHolds, PTL DEF Spec, ImplementsWalk, Editor!Spec

=============================================================================
