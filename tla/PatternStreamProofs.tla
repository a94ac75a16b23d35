------------------------ MODULE PatternStreamProofs ------------------------
(***************************************************************************)
(* What is proved of PatternStream, for every song whose patterns fit the  *)
(* cursor's reach: the stream implements the editor's rows, and its bytes  *)
(* decode to them.                                                         *)
(*                                                                         *)
(* A layout says where each editor row of a pattern is in the packed rows: *)
(* in which, and how far into its run. Packing keeps one row by row. The   *)
(* bytes of packed rows lie one behind the other, so the cursor of a fetch *)
(* is at the row the layout names.                                         *)
(***************************************************************************)
EXTENDS PatternStream, RecursionProofs, FiniteSetTheorems

-----------------------------------------------------------------------------
(* Rows.                                                                   *)

Command == (0 .. 15) \X (0 .. 255)

\* Editor rows and typed rows of a song that has up to 63 instruments.
Row   == [note : NOTE .. KEYON, instr : 0 .. 63, fx : 0 .. 15, data : 0 .. 255]
Typed == [note : NOTE .. KEYON, instr : {Keep} \cup 1 .. 63, cmd : {Held} \cup Command,
          length : 1 .. RestRun]

\* Rows as RowsOf gives them: one editor row each, its command stated.
Single == {r \in Typed : r.cmd \in Command /\ r.length = 1}

LEMMA RowsSingle ==
  ASSUME NEW R \in Seq(Row)
  PROVE  /\ RowsOf(R) \in Seq(Single) /\ Len(RowsOf(R)) = Len(R)
         /\ \A k \in 1 .. Len(R) :
              /\ RowsOf(R)[k].note = R[k].note
              /\ RowsOf(R)[k].instr = IF R[k].instr = 0 THEN Keep ELSE R[k].instr
              /\ RowsOf(R)[k].cmd = <<R[k].fx, R[k].data>>
<1>1. RowsOf(R) = [i \in 1 .. Len(R) |->
         TypedRow(R[i].note, IF R[i].instr = 0 THEN Keep ELSE R[i].instr, <<R[i].fx, R[i].data>>, 1)]
  BY DEF RowsOf
<1>2. \A i \in 1 .. Len(R) :
         TypedRow(R[i].note, IF R[i].instr = 0 THEN Keep ELSE R[i].instr, <<R[i].fx, R[i].data>>, 1)
           \in Single
  <2> SUFFICES ASSUME NEW i \in 1 .. Len(R)
               PROVE  TypedRow(R[i].note, IF R[i].instr = 0 THEN Keep ELSE R[i].instr,
                               <<R[i].fx, R[i].data>>, 1) \in Single
    OBVIOUS
  <2>1. R[i] \in Row
    OBVIOUS
  <2>2. <<R[i].fx, R[i].data>> \in Command /\ R[i].note \in NOTE .. KEYON
    BY <2>1 DEF Row, Command
  <2>3. (IF R[i].instr = 0 THEN Keep ELSE R[i].instr) \in {Keep} \cup 1 .. 63
    BY <2>1 DEF Row
  <2>4. 1 \in 1 .. RestRun
    BY RestRunAssumption
  <2> QED
    BY <2>2, <2>3, <2>4 DEF Single, Typed, TypedRow
<1> QED
  BY <1>1, <1>2 DEF TypedRow

\* A command stated is not a command held.
LEMMA Stated ==
  ASSUME NEW c \in Command
  PROVE  c # Held /\ c = <<c[1], c[2]>> /\ c[1] \in 0 .. 15 /\ c[2] \in 0 .. 255
BY DEF Command, Held

-----------------------------------------------------------------------------
(* Layouts.                                                                *)

\* The first n rows of rr are in T: row k in T[J[k]], the M[k]th of its run. A
\* run's rows are rests of one command; another row is T's own, its command
\* stated where it differs from the row before.
Layout(rr, T, J, M, n) ==
  /\ T \in Seq(Typed) /\ Len(T) > 0
  /\ J \in [1 .. n -> 1 .. Len(T)] /\ M \in [1 .. n -> 1 .. RestRun]
  /\ J[1] = 1 /\ M[1] = 1
  /\ J[n] = Len(T) /\ M[n] = T[Len(T)].length
  /\ \A k \in 1 .. n - 1 :
       \/ M[k] < T[J[k]].length /\ J[k + 1] = J[k] /\ M[k + 1] = M[k] + 1
       \/ M[k] = T[J[k]].length /\ J[k + 1] = J[k] + 1 /\ M[k + 1] = 1
  /\ \A k \in 1 .. n :
       IF M[k] = 1
       THEN /\ T[J[k]].note = rr[k].note /\ T[J[k]].instr = rr[k].instr
            /\ T[J[k]].cmd = IF k > 1 /\ rr[k].cmd = rr[k - 1].cmd THEN Held ELSE rr[k].cmd
       ELSE BareRest(rr[k]) /\ rr[k].cmd = rr[k - 1].cmd
  /\ \A j \in 1 .. Len(T) : T[j].length > 1 => j > 1 /\ BareRest(T[j]) /\ T[j].cmd = Held

\* A run may take one row more.
LEMMA RunTaken ==
  ASSUME NEW rr \in Seq(Single), NEW k \in 1 .. Len(rr) - 1, NEW T, NEW J, NEW M,
         Layout(rr, T, J, M, k), rr[k + 1].cmd = rr[k].cmd, RunTakes(T, rr[k + 1])
  PROVE  LET next == Pack([held |-> rr[k].cmd, out |-> T], rr[k + 1]) IN
         /\ next = [held |-> rr[k + 1].cmd, out |-> next.out]
         /\ \E J2, M2 : Layout(rr, next.out, J2, M2, k + 1)
<1> DEFINE U  == Pack([held |-> rr[k].cmd, out |-> T], rr[k + 1]).out
           J2 == [i \in 1 .. k + 1 |-> IF i = k + 1 THEN Len(T) ELSE J[i]]
           M2 == [i \in 1 .. k + 1 |-> IF i = k + 1 THEN T[Len(T)].length + 1 ELSE M[i]]
<1>1. /\ T \in Seq(Typed) /\ Len(T) \in Nat \ {0} /\ Len(T) > 1
      /\ T[Len(T)].length < RestRun /\ T[Len(T)].cmd = Held
      /\ BareRest(T[Len(T)]) /\ BareRest(rr[k + 1])
      /\ T[Len(T)] \in Typed
  BY DEF Layout, RunTakes, Last
<1>2. /\ U = [T EXCEPT ![Len(T)].length = @ + 1]
      /\ Pack([held |-> rr[k].cmd, out |-> T], rr[k + 1]) = [held |-> rr[k + 1].cmd, out |-> U]
  BY DEF Pack
<1> HIDE DEF U
<1>3. k \in Nat \ {0} /\ T[Len(T)].length \in 1 .. RestRun /\ RestRun \in Nat
  <2>1. T[Len(T)].length \in 1 .. RestRun
    BY <1>1 DEF Typed
  <2>2. RestRun \in Nat
    BY RestRunAssumption
  <2> QED
    BY <2>1, <2>2
<1>4. [T[Len(T)] EXCEPT !.length = @ + 1] \in Typed
  <2>1. T[Len(T)].length + 1 \in 1 .. RestRun
    BY <1>1, <1>3
  <2> QED
    BY <1>1, <2>1 DEF Typed
<1>5. /\ U \in Seq(Typed) /\ Len(U) = Len(T)
      /\ U[Len(T)] = [T[Len(T)] EXCEPT !.length = @ + 1]
      /\ \A j \in 1 .. Len(T) : j # Len(T) => U[j] = T[j]
  <2> DEFINE x == [T[Len(T)] EXCEPT !.length = @ + 1]
  <2>1. U = [T EXCEPT ![Len(T)] = x] /\ x \in Typed
    BY <1>2, <1>4
  <2> HIDE DEF x
  <2>2. /\ U \in Seq(Typed) /\ Len(U) = Len(T) /\ U[Len(T)] = x
        /\ \A j \in 1 .. Len(T) : j # Len(T) => U[j] = T[j]
    BY <1>1, <2>1
  <2> QED
    BY <2>2 DEF x
<1>13. /\ U[Len(T)].length = T[Len(T)].length + 1 /\ U[Len(T)].note = T[Len(T)].note
       /\ U[Len(T)].instr = T[Len(T)].instr /\ U[Len(T)].cmd = T[Len(T)].cmd
  BY <1>1, <1>5 DEF Typed
<1>6. /\ \A i \in 1 .. k : J2[i] = J[i] /\ M2[i] = M[i]
      /\ J2[k + 1] = Len(T) /\ M2[k + 1] = T[Len(T)].length + 1
      /\ J \in [1 .. k -> 1 .. Len(T)] /\ M \in [1 .. k -> 1 .. RestRun]
      /\ J[k] = Len(T) /\ M[k] = T[Len(T)].length
  BY <1>3 DEF Layout
<1>7. J2 \in [1 .. k + 1 -> 1 .. Len(U)] /\ M2 \in [1 .. k + 1 -> 1 .. RestRun]
  <2>1. Len(T) \in 1 .. Len(U) /\ T[Len(T)].length + 1 \in 1 .. RestRun /\ Len(U) = Len(T)
    BY <1>1, <1>5, <1>3
  <2> QED
    BY <1>3, <1>6, <2>1
<1> HIDE DEF J2, M2
<1>8. ASSUME NEW i \in 1 .. k
      PROVE  \/ M2[i] < U[J2[i]].length /\ J2[i + 1] = J2[i] /\ M2[i + 1] = M2[i] + 1
             \/ M2[i] = U[J2[i]].length /\ J2[i + 1] = J2[i] + 1 /\ M2[i + 1] = 1
  <2>1. CASE i = k
    BY <1>1, <1>13, <1>3, <1>6, <2>1
  <2>2. CASE i # k
    <3>0. i \in 1 .. k - 1 /\ i + 1 \in 1 .. k
      BY <1>3, <2>2
    <3>1. /\ i \in 1 .. k - 1 /\ i + 1 \in 1 .. k
          /\ \/ M[i] < T[J[i]].length /\ J[i + 1] = J[i] /\ M[i + 1] = M[i] + 1
             \/ M[i] = T[J[i]].length /\ J[i + 1] = J[i] + 1 /\ M[i + 1] = 1
      BY <3>0 DEF Layout
    <3>2. J2[i] = J[i] /\ M2[i] = M[i] /\ J2[i + 1] = J[i + 1] /\ M2[i + 1] = M[i + 1]
      BY <1>6, <3>1
    <3>3. J[i] \in 1 .. Len(T) /\ J[i + 1] \in 1 .. Len(T) /\ M[i] \in Nat
      BY <1>6, <3>1
    <3>4. CASE J[i] = Len(T)
      <4>1. J[i + 1] # J[i] + 1
        BY <1>1, <3>3, <3>4
      <4>2. M[i] < T[Len(T)].length /\ J[i + 1] = J[i] /\ M[i + 1] = M[i] + 1
        BY <3>1, <3>4, <4>1
      <4>3. M[i] < U[Len(T)].length
        BY <1>13, <1>3, <3>3, <4>2
      <4> QED
        BY <3>2, <3>4, <4>2, <4>3
    <3>5. CASE J[i] # Len(T)
      <4>1. U[J[i]] = T[J[i]]
        BY <1>5, <3>3, <3>5
      <4> QED
        BY <3>1, <3>2, <4>1
    <3> QED
      BY <3>4, <3>5
  <2> QED
    BY <2>1, <2>2
<1>9. ASSUME NEW i \in 1 .. k + 1
      PROVE  IF M2[i] = 1
             THEN /\ U[J2[i]].note = rr[i].note /\ U[J2[i]].instr = rr[i].instr
                  /\ U[J2[i]].cmd = IF i > 1 /\ rr[i].cmd = rr[i - 1].cmd THEN Held ELSE rr[i].cmd
             ELSE BareRest(rr[i]) /\ rr[i].cmd = rr[i - 1].cmd
  <2>1. CASE i = k + 1
    <3>1. M2[i] # 1 /\ i - 1 = k
      BY <1>3, <1>6, <2>1
    <3> QED
      BY <1>1, <2>1, <3>1
  <2>2. CASE i # k + 1
    <3>1. /\ i \in 1 .. k /\ J2[i] = J[i] /\ M2[i] = M[i] /\ J[i] \in 1 .. Len(T)
          /\ IF M[i] = 1
             THEN /\ T[J[i]].note = rr[i].note /\ T[J[i]].instr = rr[i].instr
                  /\ T[J[i]].cmd = IF i > 1 /\ rr[i].cmd = rr[i - 1].cmd THEN Held ELSE rr[i].cmd
             ELSE BareRest(rr[i]) /\ rr[i].cmd = rr[i - 1].cmd
      BY <1>3, <1>6, <2>2 DEF Layout
    <3>2. U[J[i]].note = T[J[i]].note /\ U[J[i]].instr = T[J[i]].instr /\ U[J[i]].cmd = T[J[i]].cmd
      BY <1>5, <1>13, <3>1
    <3> QED
      BY <3>1, <3>2
  <2> QED
    BY <2>1, <2>2
<1>10. ASSUME NEW j \in 1 .. Len(U), U[j].length > 1
       PROVE  j > 1 /\ BareRest(U[j]) /\ U[j].cmd = Held
  <2>1. CASE j = Len(T)
    BY <1>1, <1>13, <2>1 DEF BareRest
  <2>2. CASE j # Len(T)
    BY <1>5, <1>10, <2>2 DEF Layout
  <2> QED
    BY <2>1, <2>2
<1>11. J2[1] = 1 /\ M2[1] = 1 /\ J2[k + 1] = Len(U) /\ M2[k + 1] = U[Len(U)].length
  <2>1. J[1] = 1 /\ M[1] = 1
    BY DEF Layout
  <2>2. 1 \in 1 .. k /\ Len(U) = Len(T)
    BY <1>5, <1>3
  <2> QED
    BY <1>13, <1>6, <2>1, <2>2
<1>12. Layout(rr, U, J2, M2, k + 1)
  <2>1. Len(U) > 0 /\ (k + 1) - 1 = k
    BY <1>1, <1>5, <1>3
  <2> QED
    BY <1>5, <1>7, <1>8, <1>9, <1>10, <1>11, <2>1 DEF Layout
<1> QED
  BY <1>2, <1>12 DEF U

\* Or the row is one more.
LEMMA RowAdded ==
  ASSUME NEW rr \in Seq(Single), NEW k \in 1 .. Len(rr) - 1, NEW T, NEW J, NEW M,
         Layout(rr, T, J, M, k), ~ (rr[k + 1].cmd = rr[k].cmd /\ RunTakes(T, rr[k + 1]))
  PROVE  LET next == Pack([held |-> rr[k].cmd, out |-> T], rr[k + 1]) IN
         /\ next = [held |-> rr[k + 1].cmd, out |-> next.out]
         /\ \E J2, M2 : Layout(rr, next.out, J2, M2, k + 1)
<1> DEFINE U  == Pack([held |-> rr[k].cmd, out |-> T], rr[k + 1]).out
           r  == [rr[k + 1] EXCEPT !.cmd = IF rr[k + 1].cmd = rr[k].cmd THEN Held ELSE @]
           J2 == [i \in 1 .. k + 1 |-> IF i = k + 1 THEN Len(T) + 1 ELSE J[i]]
           M2 == [i \in 1 .. k + 1 |-> IF i = k + 1 THEN 1 ELSE M[i]]
<1>1. /\ T \in Seq(Typed) /\ Len(T) \in Nat \ {0} /\ k \in Nat \ {0}
      /\ rr[k + 1] \in Single /\ RestRun \in Nat /\ RestRun > 1
  <2>1. RestRun \in Nat /\ RestRun > 1
    BY RestRunAssumption
  <2>2. k + 1 \in 1 .. Len(rr) /\ k \in Nat \ {0}
    OBVIOUS
  <2>3. rr[k + 1] \in Single
    BY <2>2
  <2> QED
    BY <2>1, <2>2, <2>3 DEF Layout
<1>2. /\ U = Append(T, r)
      /\ Pack([held |-> rr[k].cmd, out |-> T], rr[k + 1]) = [held |-> rr[k + 1].cmd, out |-> U]
  BY DEF Pack
<1>3. /\ r \in Typed /\ r.length = 1 /\ r.note = rr[k + 1].note /\ r.instr = rr[k + 1].instr
      /\ r.cmd = IF rr[k + 1].cmd = rr[k].cmd THEN Held ELSE rr[k + 1].cmd
  BY <1>1 DEF Single, Typed
<1> HIDE DEF r, U
<1>4. /\ U \in Seq(Typed) /\ Len(U) = Len(T) + 1 /\ U[Len(T) + 1] = r
      /\ \A j \in 1 .. Len(T) : U[j] = T[j]
  BY <1>1, <1>2, <1>3
<1>5. /\ \A i \in 1 .. k : J2[i] = J[i] /\ M2[i] = M[i]
      /\ J2[k + 1] = Len(T) + 1 /\ M2[k + 1] = 1
      /\ J \in [1 .. k -> 1 .. Len(T)] /\ M \in [1 .. k -> 1 .. RestRun]
      /\ J[k] = Len(T) /\ M[k] = T[Len(T)].length
  BY <1>1 DEF Layout
<1>6. J2 \in [1 .. k + 1 -> 1 .. Len(U)] /\ M2 \in [1 .. k + 1 -> 1 .. RestRun]
  BY <1>1, <1>4, <1>5
<1> HIDE DEF J2, M2
<1>7. ASSUME NEW i \in 1 .. k
      PROVE  \/ M2[i] < U[J2[i]].length /\ J2[i + 1] = J2[i] /\ M2[i + 1] = M2[i] + 1
             \/ M2[i] = U[J2[i]].length /\ J2[i + 1] = J2[i] + 1 /\ M2[i + 1] = 1
  <2>1. CASE i = k
    <3>1. U[Len(T)] = T[Len(T)]
      BY <1>1, <1>4
    <3> QED
      BY <1>1, <1>5, <2>1, <3>1
  <2>2. CASE i # k
    <3>0. i \in 1 .. k - 1 /\ i + 1 \in 1 .. k
      BY <1>1, <2>2
    <3>1. /\ i \in 1 .. k - 1 /\ i + 1 \in 1 .. k
          /\ \/ M[i] < T[J[i]].length /\ J[i + 1] = J[i] /\ M[i + 1] = M[i] + 1
             \/ M[i] = T[J[i]].length /\ J[i + 1] = J[i] + 1 /\ M[i + 1] = 1
      BY <3>0 DEF Layout
    <3>2. /\ J2[i] = J[i] /\ M2[i] = M[i] /\ J2[i + 1] = J[i + 1] /\ M2[i + 1] = M[i + 1]
          /\ U[J[i]] = T[J[i]]
      BY <1>4, <1>5, <3>1
    <3> QED
      BY <3>1, <3>2
  <2> QED
    BY <2>1, <2>2
<1>8. ASSUME NEW i \in 1 .. k + 1
      PROVE  IF M2[i] = 1
             THEN /\ U[J2[i]].note = rr[i].note /\ U[J2[i]].instr = rr[i].instr
                  /\ U[J2[i]].cmd = IF i > 1 /\ rr[i].cmd = rr[i - 1].cmd THEN Held ELSE rr[i].cmd
             ELSE BareRest(rr[i]) /\ rr[i].cmd = rr[i - 1].cmd
  <2>1. CASE i = k + 1
    <3>1. M2[i] = 1 /\ i - 1 = k /\ i > 1 /\ U[J2[i]] = r
      BY <1>1, <1>4, <1>5, <2>1
    <3> QED
      BY <1>3, <2>1, <3>1
  <2>2. CASE i # k + 1
    <3>1. /\ i \in 1 .. k /\ J2[i] = J[i] /\ M2[i] = M[i] /\ U[J[i]] = T[J[i]]
          /\ IF M[i] = 1
             THEN /\ T[J[i]].note = rr[i].note /\ T[J[i]].instr = rr[i].instr
                  /\ T[J[i]].cmd = IF i > 1 /\ rr[i].cmd = rr[i - 1].cmd THEN Held ELSE rr[i].cmd
             ELSE BareRest(rr[i]) /\ rr[i].cmd = rr[i - 1].cmd
      <4>1. i \in 1 .. k
        BY <1>1, <2>2
      <4> QED
        BY <1>4, <1>5, <4>1 DEF Layout
    <3> QED
      BY <3>1
  <2> QED
    BY <2>1, <2>2
<1>9. ASSUME NEW j \in 1 .. Len(U), U[j].length > 1
      PROVE  j > 1 /\ BareRest(U[j]) /\ U[j].cmd = Held
  <2>1. j \in 1 .. Len(T) /\ U[j] = T[j]
    BY <1>1, <1>3, <1>4, <1>9
  <2> QED
    BY <1>9, <2>1 DEF Layout
<1>10. J2[1] = 1 /\ M2[1] = 1 /\ J2[k + 1] = Len(U) /\ M2[k + 1] = U[Len(U)].length
  <2>1. J[1] = 1 /\ M[1] = 1
    BY DEF Layout
  <2>2. 1 \in 1 .. k
    BY <1>1
  <2> QED
    BY <1>3, <1>4, <1>5, <2>1, <2>2
<1>11. Layout(rr, U, J2, M2, k + 1)
  <2>1. Len(U) > 0 /\ (k + 1) - 1 = k
    BY <1>1, <1>4
  <2> QED
    BY <1>4, <1>6, <1>7, <1>8, <1>9, <1>10, <2>1 DEF Layout
<1> QED
  BY <1>2, <1>11 DEF U

\* The first row states its command.
LEMMA FirstLaid ==
  ASSUME NEW rr \in Seq(Single), Len(rr) > 0
  PROVE  LET first == Pack([held |-> StatedFirst, out |-> <<>>], rr[1]) IN
         /\ first = [held |-> rr[1].cmd, out |-> first.out]
         /\ \E J, M : Layout(rr, first.out, J, M, 1)
<1> DEFINE T == <<rr[1]>>
           J == [i \in 1 .. 1 |-> 1]
<1>1. rr[1] \in Single /\ rr[1] \in Typed
  BY DEF Single
<1>2. rr[1].cmd # StatedFirst /\ rr[1].length = 1
  BY <1>1, Stated DEF Single, StatedFirst
<1>3. [rr[1] EXCEPT !.cmd = @] = rr[1]
  BY <1>1 DEF Typed
<1>4. Pack([held |-> StatedFirst, out |-> <<>>], rr[1]) = [held |-> rr[1].cmd, out |-> T]
  BY <1>2, <1>3 DEF Pack
<1>5. Layout(rr, T, J, J, 1)
  <2>1. T \in Seq(Typed) /\ Len(T) = 1 /\ T[1] = rr[1] /\ 1 \in 1 .. RestRun
    BY <1>1, RestRunAssumption
  <2> HIDE DEF T
  <2> QED
    BY <1>2, <2>1 DEF Layout
<1> QED
  BY <1>4, <1>5

\* Packing gives typed rows.
Packing == [held : {Held} \cup Command, out : Seq(Typed)]

LEMMA PackTyped ==
  ASSUME NEW acc \in Packing, NEW r \in Single
  PROVE  Pack(acc, r) \in Packing
<1> DEFINE same == r.cmd = acc.held
<1>1. acc.out \in Seq(Typed) /\ r \in Typed /\ r.cmd \in Command
  BY DEF Packing, Single
<1>2. CASE same /\ RunTakes(acc.out, r)
  <2> DEFINE T == acc.out
             x == [T[Len(T)] EXCEPT !.length = @ + 1]
  <2>1. T \in Seq(Typed) /\ Len(T) \in 1 .. Len(T) /\ T[Len(T)] \in Typed /\ T[Len(T)].length < RestRun
    BY <1>1, <1>2 DEF RunTakes, Last
  <2>2. x \in Typed
    <3>1. T[Len(T)].length \in 1 .. RestRun
      BY <2>1 DEF Typed
    <3>2. T[Len(T)].length + 1 \in 1 .. RestRun
      BY <2>1, <3>1, RestRunAssumption
    <3> QED
      BY <2>1, <3>2 DEF Typed
  <2>3. Pack(acc, r) = [held |-> r.cmd, out |-> [T EXCEPT ![Len(T)] = x]]
    BY <1>2 DEF Pack
  <2> HIDE DEF T, x
  <2>4. [T EXCEPT ![Len(T)] = x] \in Seq(Typed)
    BY <2>1, <2>2
  <2> QED
    BY <1>1, <2>3, <2>4 DEF Packing
<1>3. CASE ~ (same /\ RunTakes(acc.out, r))
  <2> DEFINE x == [r EXCEPT !.cmd = IF same THEN Held ELSE @]
  <2>1. x \in Typed
    BY <1>1 DEF Typed
  <2>2. Pack(acc, r) = [held |-> r.cmd, out |-> Append(acc.out, x)]
    BY <1>3 DEF Pack
  <2> HIDE DEF x
  <2> QED
    BY <1>1, <2>1, <2>2 DEF Packing
<1> QED
  BY <1>2, <1>3

\* Rows packed are laid out.
LEMMA PackedLaid ==
  ASSUME NEW rr \in Seq(Single), Len(rr) > 0
  PROVE  \E J, M : Layout(rr, PackedRows(rr), J, M, Len(rr))
<1> DEFINE n     == Len(rr)
           start == [held |-> StatedFirst, out |-> <<>>]
           Is(f) == f = [k \in 0 .. n |-> IF k = 0 THEN start ELSE Pack(f[k - 1], rr[k])]
           pack  == CHOOSE f : Is(f)
<1>1. n \in Nat /\ n > 0 /\ \A k \in 1 .. n : rr[k] \in Single
  OBVIOUS
<1>2. PackedRows(rr) = pack[n].out
  BY DEF PackedRows
<1>3. \E f : Is(f)
  <2> DEFINE g == [e \in (1 .. n) \X Packing |-> Pack(e[2], rr[e[1]])]
  <2>1. start \in Packing
    BY DEF Packing, StatedFirst
  <2>2. g \in [(1 .. n) \X Packing -> Packing]
    BY <1>1, PackTyped
  <2>3. PICK f \in [0 .. n -> Packing] : Steps(f, start, g, n)
    <3> HIDE DEF start, g, n
    <3> QED
      BY <1>1, <2>1, <2>2, StepsExist
  <2>4. ASSUME NEW k \in 0 .. n
        PROVE  f[k] = IF k = 0 THEN start ELSE Pack(f[k - 1], rr[k])
    <3>1. f[k] = IF k = 0 THEN start ELSE g[<<k, f[k - 1]>>]
      BY <2>3 DEF Steps
    <3>2. k # 0 => k \in 1 .. n /\ f[k - 1] \in Packing
      BY <1>1, <2>3
    <3>3. k # 0 => g[<<k, f[k - 1]>>] = Pack(f[k - 1], rr[k])
      BY <3>2
    <3> QED
      BY <3>1, <3>3
  <2>5. Is(f)
    <3> HIDE DEF start, n
    <3> QED
      BY <2>3, <2>4
  <2> QED
    BY <2>5
<1>4. Is(pack)
  <2> HIDE DEF Is
  <2> QED
    BY <1>3
<1>5. /\ pack[0] = start
      /\ \A k \in 1 .. n : pack[k] = Pack(pack[k - 1], rr[k])
  <2> HIDE DEF start, n, pack
  <2> QED
    BY <1>1, <1>4
<1> HIDE DEF pack, Is
<1> DEFINE Good(k) == /\ pack[k] = [held |-> rr[k].cmd, out |-> pack[k].out]
                      /\ \E J, M : Layout(rr, pack[k].out, J, M, k)
           Bad == {k \in 1 .. n : ~ Good(k)}
<1>6. Good(1)
  <2>1. pack[1] = Pack([held |-> StatedFirst, out |-> <<>>], rr[1])
    BY <1>1, <1>5
  <2> QED
    BY <1>1, <2>1, FirstLaid
<1>7. ASSUME NEW k \in 1 .. n - 1, Good(k) PROVE Good(k + 1)
  <2>1. k + 1 \in 1 .. n /\ (k + 1) - 1 = k /\ k \in 1 .. Len(rr) - 1
    BY <1>1
  <2>2. pack[k + 1] = Pack([held |-> rr[k].cmd, out |-> pack[k].out], rr[k + 1])
    <3>1. pack[k + 1] = Pack(pack[k], rr[k + 1])
      BY <1>5, <2>1
    <3>2. pack[k] = [held |-> rr[k].cmd, out |-> pack[k].out]
      BY <1>7
    <3> QED
      BY <3>1, <3>2
  <2>3. PICK J, M : Layout(rr, pack[k].out, J, M, k)
    BY <1>7
  <2> DEFINE next == Pack([held |-> rr[k].cmd, out |-> pack[k].out], rr[k + 1])
  <2>4. /\ next = [held |-> rr[k + 1].cmd, out |-> next.out]
        /\ \E J2, M2 : Layout(rr, next.out, J2, M2, k + 1)
    BY <2>1, <2>3, RunTaken, RowAdded
  <2> QED
    BY <2>2, <2>4
<1>8. Bad = {}
  <2> SUFFICES ASSUME Bad # {} PROVE FALSE
    OBVIOUS
  <2>1. PICK k \in Bad : \A m \in Bad : k <= m
    <3>1. Bad \subseteq Nat
      OBVIOUS
    <3> HIDE DEF Bad
    <3> QED
      BY <3>1, LeastOf
  <2> HIDE DEF Good
  <2>2. k \in 1 .. n /\ ~ Good(k)
    BY <2>1
  <2>3. k # 1
    BY <1>6, <2>2
  <2>4. k - 1 \in 1 .. n - 1 /\ ~ (k - 1 \in Bad)
    BY <1>1, <2>1, <2>2, <2>3
  <2>5. Good(k - 1) /\ (k - 1) + 1 = k
    BY <1>1, <2>2, <2>4
  <2> QED
    BY <1>7, <2>2, <2>4, <2>5
<1>9. Good(n)
  <2> HIDE DEF Good
  <2>1. n \in 1 .. n
    BY <1>1
  <2> QED
    BY <1>8, <2>1
<1> QED
  BY <1>2, <1>9

-----------------------------------------------------------------------------
(* Bytes.                                                                  *)

\* A packed row: only bare rests run on.
Sound(r) == r \in Typed /\ (r.length > 1 => BareRest(r) /\ r.cmd = Held)

\* The instrument byte comes first, where there is one.
Lead(r) == IF r.instr = Keep THEN 0 ELSE 1

Timed(c) == Retimed(c[1], c[2], TempoPacked)

\* What the bytes after it are.
Body(r) ==
  IF r.length > 1 THEN <<256 - r.length>>
  ELSE IF r.cmd = Held THEN <<r.note>>
  ELSE IF r.note = REST THEN CommandBytes(r, FXONLY)
  ELSE Append(CommandBytes(r, FX), r.note)

LEMMA TimedByte ==
  ASSUME NEW c \in Command
  PROVE  Timed(c) \in 0 .. 255
BY DEF Timed, Retimed, TempoPacked, Command, CMD_SETTEMPO

LEMMA BodyIs ==
  ASSUME NEW r, Sound(r)
  PROVE  LET fx == r.cmd[1]
             b  == Body(r)
         IN /\ b \in Seq(Nat) /\ Len(b) > 0
            /\ r.length > 1 => Len(b) = 1 /\ b[1] = 256 - r.length
            /\ r.length = 1 /\ r.cmd = Held => Len(b) = 1 /\ b[1] = r.note
            /\ r.length = 1 /\ r.cmd # Held =>
                 /\ b[1] = (IF r.note = REST THEN FXONLY ELSE FX) + fx
                 /\ fx # 0 => b[2] = Timed(r.cmd)
                 /\ Len(b) = CommandBytesRead(fx) + IF r.note = REST THEN 0 ELSE 1
                 /\ r.note # REST => b[CommandBytesRead(fx) + 1] = r.note
<1> DEFINE b == Body(r)
<1>1. r \in Typed /\ RestRun \in Nat /\ RestRun <= 64
  BY RestRunAssumption DEF Sound
<1>2. r.length \in 1 .. RestRun /\ r.note \in Nat
  BY <1>1 DEF Typed, NOTE, KEYON
<1>3. CASE r.length > 1
  BY <1>1, <1>2, <1>3 DEF Body
<1>4. CASE ~ (r.length > 1) /\ r.cmd = Held
  BY <1>1, <1>2, <1>4 DEF Body
<1>5. CASE ~ (r.length > 1) /\ r.cmd # Held
  <2> DEFINE fx   == r.cmd[1]
             d    == Timed(r.cmd)
             base == IF r.note = REST THEN FXONLY ELSE FX
             c    == CommandBytes(r, base)
  <2>1. r.cmd \in Command
    BY <1>1, <1>5 DEF Typed
  <2>2. fx \in Nat /\ d \in Nat /\ r.note \in Nat /\ base \in Nat
    BY <1>2, <2>1, TimedByte, Stated DEF FX, FXONLY
  <2>3. c = IF fx = 0 THEN <<base>> ELSE <<base + fx, d>>
    BY DEF CommandBytes, Timed, Retimed
  <2>4. b = IF r.note = REST THEN c ELSE Append(c, r.note)
    BY <1>5 DEF Body
  <2> HIDE DEF b, c, d, fx, base
  <2>5. /\ c \in Seq(Nat) /\ Len(c) = CommandBytesRead(fx)
        /\ c[1] = base + fx /\ (fx # 0 => c[2] = d)
    <3>1. CASE fx = 0
      BY <2>2, <2>3, <3>1 DEF CommandBytesRead
    <3>2. CASE fx # 0
      <4>1. base + fx \in Nat
        BY <2>2
      <4> QED
        BY <2>2, <2>3, <3>2, <4>1 DEF CommandBytesRead
    <3> QED
      BY <3>1, <3>2
  <2>6. CommandBytesRead(fx) \in {1, 2} /\ (fx # 0 => CommandBytesRead(fx) = 2)
    BY DEF CommandBytesRead
  <2>7. /\ b \in Seq(Nat) /\ b[1] = base + fx /\ (fx # 0 => b[2] = d)
        /\ Len(b) = CommandBytesRead(fx) + IF r.note = REST THEN 0 ELSE 1
        /\ r.note # REST => b[CommandBytesRead(fx) + 1] = r.note
    <3>1. CASE r.note = REST
      BY <2>4, <2>5, <2>6, <3>1
    <3>2. CASE r.note # REST
      BY <2>2, <2>4, <2>5, <2>6, <3>2
    <3> QED
      BY <3>1, <3>2
  <2> QED
    BY <1>2, <1>5, <2>6, <2>7 DEF b, d, fx, base
<1> QED
  BY <1>2, <1>3, <1>4, <1>5

\* A row's bytes: the instrument's, then the rest.
LEMMA BytesOfRow ==
  ASSUME NEW r, Sound(r)
  PROVE  /\ RowBytes(r) \in Seq(Nat)
         /\ Len(RowBytes(r)) = Lead(r) + Len(Body(r)) /\ Len(Body(r)) > 0
         /\ r.instr # Keep => RowBytes(r)[1] = r.instr
         /\ \A i \in 1 .. Len(Body(r)) : RowBytes(r)[Lead(r) + i] = Body(r)[i]
<1>1. Body(r) \in Seq(Nat)
  BY BodyIs
<1>2. Len(Body(r)) > 0
  BY BodyIs
<1>3. r.instr = Keep \/ r.instr \in Nat
  BY DEF Sound, Typed
<1>4. RowBytes(r) = (IF r.instr = Keep THEN <<>> ELSE <<r.instr>>) \o Body(r)
  BY DEF RowBytes, Body
<1> QED
  BY <1>1, <1>2, <1>3, <1>4 DEF Lead

\* The bytes b are the first n rows of T, row j behind the first E[j - 1] bytes.
BytesLaid(T, b, E, n) ==
  /\ b \in Seq(Nat) /\ E \in [0 .. n -> Nat]
  /\ E[0] = 0 /\ E[n] = Len(b)
  /\ \A j \in 1 .. n :
       /\ E[j] = E[j - 1] + Len(RowBytes(T[j])) /\ E[j] <= Len(b)
       /\ \A i \in 1 .. Len(RowBytes(T[j])) : b[E[j - 1] + i] = RowBytes(T[j])[i]

LEMMA RowBytesAdded ==
  ASSUME NEW T, NEW n \in Nat, NEW b, NEW E, BytesLaid(T, b, E, n),
         RowBytes(T[n + 1]) \in Seq(Nat)
  PROVE  \E F : BytesLaid(T, b \o RowBytes(T[n + 1]), F, n + 1)
<1> DEFINE d == RowBytes(T[n + 1])
           c == b \o d
           F == [j \in 0 .. n + 1 |-> IF j = n + 1 THEN Len(c) ELSE E[j]]
<1>1. /\ d \in Seq(Nat) /\ b \in Seq(Nat) /\ E \in [0 .. n -> Nat] /\ E[0] = 0 /\ E[n] = Len(b)
      /\ \A j \in 1 .. n :
           /\ E[j] = E[j - 1] + Len(RowBytes(T[j])) /\ E[j] <= Len(b)
           /\ \A i \in 1 .. Len(RowBytes(T[j])) : b[E[j - 1] + i] = RowBytes(T[j])[i]
  BY DEF BytesLaid
<1> HIDE DEF d
<1>2. /\ c \in Seq(Nat) /\ Len(c) = Len(b) + Len(d) /\ Len(b) \in Nat /\ Len(d) \in Nat
      /\ \A i \in 1 .. Len(b) : c[i] = b[i]
      /\ \A i \in 1 .. Len(d) : c[Len(b) + i] = d[i]
  <2>1. b \in Seq(Nat) /\ d \in Seq(Nat) /\ Len(b) \in Nat /\ Len(d) \in Nat
    BY <1>1
  <2>2. /\ c \in Seq(Nat) /\ Len(c) = Len(b) + Len(d)
        /\ \A i \in 1 .. Len(b) + Len(d) : c[i] = IF i <= Len(b) THEN b[i] ELSE d[i - Len(b)]
    BY <2>1, ConcatProperties
  <2> HIDE DEF c
  <2>3. ASSUME NEW i \in 1 .. Len(b) PROVE c[i] = b[i]
    <3>1. i \in 1 .. Len(b) + Len(d) /\ i <= Len(b)
      BY <2>1
    <3> QED
      BY <2>2, <3>1
  <2>4. ASSUME NEW i \in 1 .. Len(d) PROVE c[Len(b) + i] = d[i]
    <3>1. /\ Len(b) + i \in 1 .. Len(b) + Len(d) /\ ~ (Len(b) + i <= Len(b))
          /\ (Len(b) + i) - Len(b) = i
      BY <2>1
    <3> QED
      BY <2>2, <3>1
  <2> QED
    BY <2>1, <2>2, <2>3, <2>4
<1> HIDE DEF c
<1>3. /\ \A j \in 0 .. n : F[j] = E[j]
      /\ F[n + 1] = Len(c) /\ F \in [0 .. n + 1 -> Nat]
  BY <1>1, <1>2
<1> HIDE DEF F
<1>4. ASSUME NEW j \in 1 .. n + 1
      PROVE  /\ F[j] = F[j - 1] + Len(RowBytes(T[j])) /\ F[j] <= Len(c)
             /\ \A i \in 1 .. Len(RowBytes(T[j])) : c[F[j - 1] + i] = RowBytes(T[j])[i]
  <2>1. CASE j = n + 1
    <3>1. j - 1 = n /\ n \in 0 .. n /\ F[n] = Len(b)
      BY <1>1, <1>3, <2>1
    <3>2. RowBytes(T[j]) = d /\ F[j] = Len(c) /\ F[j - 1] = Len(b)
      BY <1>3, <2>1, <3>1 DEF d
    <3> QED
      BY <1>2, <3>2
  <2>2. CASE j # n + 1
    <3>1. j \in 1 .. n /\ j \in 0 .. n /\ j - 1 \in 0 .. n
      BY <2>2
    <3>2. F[j] = E[j] /\ F[j - 1] = E[j - 1] /\ E[j - 1] \in Nat /\ E[j] \in Nat
      BY <1>1, <1>3, <3>1
    <3> DEFINE e == RowBytes(T[j])
    <3>3. /\ E[j] = E[j - 1] + Len(e) /\ E[j] <= Len(b)
          /\ \A i \in 1 .. Len(e) : b[E[j - 1] + i] = e[i]
      BY <1>1, <3>1
    <3> HIDE DEF e
    <3>4. Len(e) \in Int
      BY <3>2, <3>3, <1>2, <2>2
    <3>5. ASSUME NEW i \in 1 .. Len(e) PROVE c[E[j - 1] + i] = e[i]
      <4>1. E[j - 1] + Len(e) <= Len(b) /\ E[j - 1] \in Nat /\ Len(b) \in Nat /\ Len(e) \in Int
        BY <1>2, <3>2, <3>3, <3>4
      <4>2. E[j - 1] + i \in 1 .. Len(b)
        BY <4>1
      <4> QED
        BY <1>2, <3>3, <4>2
    <3> QED
      BY <1>2, <3>2, <3>3, <3>5 DEF e
  <2> QED
    BY <2>1, <2>2
<1>5. BytesLaid(T, c, F, n + 1)
  <2>1. F[0] = 0
    BY <1>1, <1>3
  <2> QED
    BY <1>2, <1>3, <1>4, <2>1 DEF BytesLaid
<1> QED
  BY <1>5 DEF c, d

\* So are a pattern's, with an end mark where the reach leaves one.
LEMMA PatternBytesLaid ==
  ASSUME NEW T, Len(T) \in Nat, \A j \in 1 .. Len(T) : Sound(T[j])
  PROVE  \E b, E : /\ BytesLaid(T, b, E, Len(T))
                   /\ PatternBytes(T) = IF Len(b) >= Reach THEN b ELSE Append(b, 0)
<1> DEFINE n     == Len(T)
           Is(f) == f = [k \in 0 .. n |-> IF k = 0 THEN <<>> ELSE f[k - 1] \o RowBytes(T[k])]
           bytes == CHOOSE f : Is(f)
<1>1. n \in Nat /\ \A k \in 1 .. n : RowBytes(T[k]) \in Seq(Nat)
  BY BytesOfRow
<1>2. PatternBytes(T) = IF Len(bytes[n]) >= Reach THEN bytes[n] ELSE Append(bytes[n], 0)
  BY DEF PatternBytes
<1>3. \E f : Is(f)
  <2> DEFINE g == [e \in (1 .. n) \X Seq(Nat) |-> e[2] \o RowBytes(T[e[1]])]
  <2>1. g \in [(1 .. n) \X Seq(Nat) -> Seq(Nat)]
    <3> HIDE DEF n
    <3>1. ASSUME NEW e \in (1 .. n) \X Seq(Nat) PROVE e[2] \o RowBytes(T[e[1]]) \in Seq(Nat)
      <4>1. e[1] \in 1 .. n /\ e[2] \in Seq(Nat)
        OBVIOUS
      <4>2. RowBytes(T[e[1]]) \in Seq(Nat)
        BY <1>1, <4>1
      <4> QED
        BY <4>1, <4>2
    <3> QED
      BY <3>1
  <2>2. PICK f \in [0 .. n -> Seq(Nat)] : Steps(f, <<>>, g, n)
    <3>1. <<>> \in Seq(Nat)
      OBVIOUS
    <3> HIDE DEF g, n
    <3> QED
      BY <1>1, <2>1, <3>1, StepsExist
  <2>3. ASSUME NEW k \in 0 .. n
        PROVE  f[k] = IF k = 0 THEN <<>> ELSE f[k - 1] \o RowBytes(T[k])
    <3>1. f[k] = IF k = 0 THEN <<>> ELSE g[<<k, f[k - 1]>>]
      BY <2>2 DEF Steps
    <3>2. k # 0 => k \in 1 .. n /\ f[k - 1] \in Seq(Nat)
      <4>1. n \in Nat
        BY <1>1
      <4> HIDE DEF n
      <4>2. k # 0 => k \in 1 .. n /\ k - 1 \in 0 .. n
        BY <4>1
      <4> QED
        BY <2>2, <4>2
    <3>3. k # 0 => g[<<k, f[k - 1]>>] = f[k - 1] \o RowBytes(T[k])
      BY <3>2
    <3> QED
      BY <3>1, <3>3
  <2>4. Is(f)
    <3> HIDE DEF n
    <3> QED
      BY <2>2, <2>3
  <2> QED
    BY <2>4
<1>4. Is(bytes)
  <2> HIDE DEF Is
  <2> QED
    BY <1>3
<1>5. /\ bytes[0] = <<>>
      /\ \A k \in 1 .. n : bytes[k] = bytes[k - 1] \o RowBytes(T[k])
  <2>1. n \in Nat
    BY <1>1
  <2> HIDE DEF n, bytes
  <2>2. \A k \in 0 .. n : bytes[k] = IF k = 0 THEN <<>> ELSE bytes[k - 1] \o RowBytes(T[k])
    BY <1>4, Zenon
  <2>3. bytes[0] = <<>>
    BY <2>1, <2>2
  <2>4. ASSUME NEW k \in 1 .. n PROVE bytes[k] = bytes[k - 1] \o RowBytes(T[k])
    <3>1. k \in 0 .. n /\ k # 0
      BY <2>1
    <3> QED
      BY <2>2, <3>1
  <2> QED
    BY <2>3, <2>4
<1> HIDE DEF bytes, Is
<1> DEFINE Good(k) == \E E : BytesLaid(T, bytes[k], E, k)
           Bad == {k \in 0 .. n : ~ Good(k)}
<1>6. Good(0)
  <2>1. BytesLaid(T, <<>>, [j \in 0 .. 0 |-> 0], 0)
    BY DEF BytesLaid
  <2> QED
    BY <1>5, <2>1
<1>7. ASSUME NEW k \in 0 .. n, k < n, Good(k) PROVE Good(k + 1)
  <2>1. k + 1 \in 1 .. n /\ (k + 1) - 1 = k /\ k \in Nat
    BY <1>1, <1>7
  <2>2. bytes[k + 1] = bytes[k] \o RowBytes(T[k + 1]) /\ RowBytes(T[k + 1]) \in Seq(Nat)
    BY <1>1, <1>5, <2>1
  <2>3. PICK E : BytesLaid(T, bytes[k], E, k)
    BY <1>7
  <2> QED
    BY <2>1, <2>2, <2>3, RowBytesAdded
<1>8. Bad = {}
  <2> SUFFICES ASSUME Bad # {} PROVE FALSE
    OBVIOUS
  <2>1. PICK k \in Bad : \A m \in Bad : k <= m
    <3>1. Bad \subseteq Nat
      OBVIOUS
    <3> HIDE DEF Bad
    <3> QED
      BY <3>1, LeastOf
  <2> HIDE DEF Good
  <2>2. k \in 0 .. n /\ ~ Good(k)
    BY <2>1
  <2>3. k # 0
    BY <1>6, <2>2
  <2>4. k - 1 \in 0 .. n /\ k - 1 < n /\ ~ (k - 1 \in Bad)
    BY <1>1, <2>1, <2>2, <2>3
  <2>5. Good(k - 1) /\ (k - 1) + 1 = k
    BY <1>1, <2>2, <2>4
  <2> QED
    BY <1>7, <2>2, <2>4, <2>5
<1>9. Good(n)
  <2> HIDE DEF Good
  <2>1. n \in 0 .. n
    BY <1>1
  <2> QED
    BY <1>8, <2>1
<1> QED
  BY <1>2, <1>9

-----------------------------------------------------------------------------
(* The cursor.                                                             *)

\* Pattern p holds the rows rr: packed as T, laid out by J and M, in bytes b at E.
PatternHeld(p, rr, T, J, M, b, E) ==
  /\ rr \in Seq(Single) /\ Len(rr) > 0
  /\ Layout(rr, T, J, M, Len(rr))
  /\ BytesLaid(T, b, E, Len(T))
  /\ packed[p] = IF Len(b) >= Reach THEN b ELSE Append(b, 0)
  /\ Len(b) <= Reach

LEMMA Within ==
  ASSUME NEW n \in Nat, NEW m \in Nat, n < m
  PROVE  n % m = n
OBVIOUS

\* The bytes from the cursor on.
LEMMA BytesAt ==
  ASSUME NEW p, NEW b \in Seq(Nat), Len(b) <= Reach, Len(b) > 0,
         packed[p] = IF Len(b) >= Reach THEN b ELSE Append(b, 0)
  PROVE  /\ \A i \in 1 .. Len(b) : At(p, i - 1) = b[i]
         /\ At(p, Len(b)) = IF Len(b) = Reach THEN b[1] ELSE 0
<1>1. Reach \in Nat /\ Reach > 0 /\ Len(b) \in Nat
  BY ReachAssumption
<1>2. ASSUME NEW i \in 1 .. Len(b) PROVE At(p, i - 1) = b[i]
  <2>1. i - 1 \in Nat /\ i - 1 < Reach /\ (i - 1) + 1 = i
    BY <1>1
  <2>2. (i - 1) % Reach = i - 1
    BY <1>1, <2>1, Within
  <2>3. i \in DOMAIN packed[p] /\ packed[p][i] = b[i]
    BY <1>1
  <2> QED
    BY <2>1, <2>2, <2>3 DEF At
<1>3. CASE Len(b) = Reach
  <2>1. Len(b) % Reach = 0
    BY <1>1, <1>3
  <2>2. 1 \in DOMAIN packed[p] /\ packed[p][1] = b[1]
    BY <1>1, <1>3
  <2>3. At(p, Len(b)) = b[1]
    BY <2>1, <2>2 DEF At
  <2> QED
    BY <1>2, <1>3, <2>3
<1>4. CASE Len(b) < Reach
  <2>1. Len(b) % Reach = Len(b)
    BY <1>1, <1>4, Within
  <2>2. Len(b) + 1 \in DOMAIN packed[p] /\ packed[p][Len(b) + 1] = 0
    BY <1>1, <1>4
  <2>3. At(p, Len(b)) = 0
    BY <2>1, <2>2 DEF At
  <2>4. Len(b) # Reach
    BY <1>1, <1>4
  <2> QED
    BY <1>2, <2>3, <2>4
<1> QED
  BY <1>1, <1>3, <1>4

\* A row's first byte is not the end mark, and tells the row's kind.
LEMMA FirstByte ==
  ASSUME NEW r, Sound(r)
  PROVE  /\ RowBytes(r)[1] > 0
         /\ r.length > 1 => RowBytes(r)[1] = 256 - r.length /\ Len(RowBytes(r)) = 1
         /\ r.length = 1 => RowBytes(r)[1] < PACKEDREST
         /\ r.length = 1 /\ r.instr # Keep => RowBytes(r)[1] = r.instr
         /\ r.length = 1 /\ r.instr = Keep => RowBytes(r)[1] = Body(r)[1]
         /\ r.length = 1 => Body(r)[1] \in FX .. KEYON
<1>1. r \in Typed /\ RestRun \in Nat /\ RestRun <= 64
  BY RestRunAssumption DEF Sound
<1>2. /\ r.length \in 1 .. RestRun /\ r.note \in NOTE .. KEYON
      /\ r.instr = Keep \/ r.instr \in 1 .. 63
  BY <1>1 DEF Typed
<1>3. r.cmd # Held => r.cmd[1] \in 0 .. 15
  BY <1>1, Stated DEF Typed
<1>4. r.length = 1 => Body(r)[1] \in FX .. KEYON
  <2> SUFFICES ASSUME r.length = 1 PROVE Body(r)[1] \in FX .. KEYON
    OBVIOUS
  <2>1. CASE r.cmd = Held
    <3>1. Body(r)[1] = r.note
      BY <2>1, BodyIs
    <3> QED
      BY <1>2, <3>1 DEF FX, NOTE, KEYON
  <2>2. CASE r.cmd # Held
    <3>1. Body(r)[1] = (IF r.note = REST THEN FXONLY ELSE FX) + r.cmd[1]
      BY <2>2, BodyIs
    <3> QED
      BY <1>3, <2>2, <3>1 DEF FX, FXONLY, KEYON
  <2> QED
    BY <2>1, <2>2
<1>5. r.instr = Keep => RowBytes(r)[1] = Body(r)[1] /\ Len(RowBytes(r)) = Len(Body(r))
  <2> SUFFICES ASSUME r.instr = Keep
               PROVE  RowBytes(r)[1] = Body(r)[1] /\ Len(RowBytes(r)) = Len(Body(r))
    OBVIOUS
  <2>1. Lead(r) = 0 /\ Len(Body(r)) \in Nat \ {0}
    BY BodyIs DEF Lead
  <2>2. Len(RowBytes(r)) = 0 + Len(Body(r)) /\ RowBytes(r)[0 + 1] = Body(r)[1]
    BY <2>1, BytesOfRow
  <2> QED
    BY <2>1, <2>2
<1>6. r.length > 1 => r.instr = Keep /\ Len(Body(r)) = 1 /\ Body(r)[1] = 256 - r.length
  BY BodyIs DEF Sound, BareRest
<1>7. r.instr # Keep => RowBytes(r)[1] = r.instr
  BY BytesOfRow
<1>8. FX = 64 /\ KEYON = 191 /\ PACKEDREST = 256 - RestRun
  BY DEF FX, KEYON, PACKEDREST
<1>9. CASE r.length > 1
  <2>1. RowBytes(r)[1] = 256 - r.length /\ Len(RowBytes(r)) = 1
    BY <1>5, <1>6, <1>9
  <2>2. 256 - r.length > 0 /\ r.length # 1
    BY <1>1, <1>2, <1>9
  <2> QED
    BY <2>1, <2>2
<1>10. CASE r.length = 1
  <2>1. CASE r.instr = Keep
    <3>1. RowBytes(r)[1] \in 64 .. 191 /\ RowBytes(r)[1] = Body(r)[1]
      BY <1>4, <1>5, <1>8, <1>10, <2>1
    <3>2. RowBytes(r)[1] > 0 /\ RowBytes(r)[1] < 256 - RestRun
      BY <1>1, <3>1
    <3> QED
      BY <1>4, <1>8, <1>10, <2>1, <3>1, <3>2
  <2>2. CASE r.instr # Keep
    <3>1. RowBytes(r)[1] = r.instr /\ r.instr \in 1 .. 63
      BY <1>2, <1>7, <2>2
    <3> QED
      BY <1>1, <1>4, <1>8, <1>10, <2>2, <3>1
  <2> QED
    BY <2>1, <2>2
<1> QED
  BY <1>1, <1>2, <1>9, <1>10
\* A layout's packed rows are sound.
LEMMA RowsSound ==
  ASSUME NEW rr, NEW T, NEW J, NEW M, NEW n, Layout(rr, T, J, M, n), NEW j \in 1 .. Len(T)
  PROVE  Sound(T[j])
BY DEF Layout, Sound

\* Where a packed row's bytes are, and where the cursor goes behind them: back
\* to 0 at the pattern's end, for the end mark or for the reach.
LEMMA RowAt ==
  ASSUME NEW p, NEW rr, NEW T, NEW J, NEW M, NEW b, NEW E,
         PatternHeld(p, rr, T, J, M, b, E), NEW j \in 1 .. Len(T)
  PROVE  /\ E[j - 1] \in Nat /\ E[j] = E[j - 1] + Len(RowBytes(T[j])) /\ E[j] > E[j - 1]
         /\ \A i \in 1 .. Len(RowBytes(T[j])) : At(p, (E[j - 1] + i) - 1) = RowBytes(T[j])[i]
         /\ AfterRow(p, E[j] - 1) = IF j = Len(T) THEN 0 ELSE E[j]
<1> DEFINE n    == Len(T)
           d(i) == RowBytes(T[i])
<1>1. n \in Nat /\ n > 0 /\ Reach \in Nat /\ Reach > 0
  BY ReachAssumption DEF PatternHeld, Layout
<1>2. ASSUME NEW i \in 1 .. n PROVE d(i) \in Seq(Nat) /\ Len(d(i)) > 0 /\ d(i)[1] > 0
  <2>1. Sound(T[i])
    BY RowsSound DEF PatternHeld
  <2>2. Len(Body(T[i])) > 0 /\ Len(Body(T[i])) \in Nat /\ Lead(T[i]) \in Nat
    BY <2>1, BodyIs DEF Lead
  <2>3. Len(d(i)) = Lead(T[i]) + Len(Body(T[i])) /\ d(i) \in Seq(Nat)
    BY <2>1, BytesOfRow
  <2>4. d(i)[1] > 0
    BY <2>1, FirstByte
  <2> QED
    BY <2>2, <2>3, <2>4
<1>3. /\ b \in Seq(Nat) /\ E \in [0 .. n -> Nat] /\ E[0] = 0 /\ E[n] = Len(b) /\ Len(b) <= Reach
      /\ packed[p] = IF Len(b) >= Reach THEN b ELSE Append(b, 0)
  BY DEF PatternHeld, BytesLaid
<1>4. ASSUME NEW i \in 1 .. n
      PROVE  /\ E[i] = E[i - 1] + Len(d(i)) /\ E[i] <= Len(b)
             /\ E[i - 1] \in Nat /\ E[i] \in Nat /\ E[i] > E[i - 1]
             /\ \A m \in 1 .. Len(d(i)) : b[E[i - 1] + m] = d(i)[m]
  <2>1. /\ E[i] = E[i - 1] + Len(d(i)) /\ E[i] <= Len(b)
        /\ \A m \in 1 .. Len(d(i)) : b[E[i - 1] + m] = d(i)[m]
    BY DEF PatternHeld, BytesLaid
  <2>2. i \in 0 .. n /\ i - 1 \in 0 .. n
    BY <1>1
  <2>3. E[i - 1] \in Nat /\ E[i] \in Nat
    BY <1>3, <2>2
  <2>4. Len(d(i)) \in Nat /\ Len(d(i)) > 0
    BY <1>2
  <2> HIDE DEF d
  <2> QED
    BY <2>1, <2>3, <2>4
<1>5. Len(b) \in Nat /\ Len(b) > 0
  BY <1>1, <1>3, <1>4
<1>6. /\ \A i \in 1 .. Len(b) : At(p, i - 1) = b[i]
      /\ At(p, Len(b)) = IF Len(b) = Reach THEN b[1] ELSE 0
  BY <1>3, <1>5, BytesAt
<1> HIDE DEF d
<1>7. ASSUME NEW i \in 1 .. n, NEW m \in 1 .. Len(d(i))
      PROVE  At(p, (E[i - 1] + m) - 1) = d(i)[m]
  <2>1. Len(d(i)) \in Nat
    BY <1>2
  <2>2. E[i - 1] + m \in 1 .. Len(b)
    <3>1. E[i] = E[i - 1] + Len(d(i)) /\ E[i] <= Len(b) /\ E[i - 1] \in Nat /\ E[i] \in Nat
      BY <1>4
    <3>2. m \in Nat /\ m >= 1 /\ m <= Len(d(i))
      BY <2>1
    <3> QED
      BY <1>5, <2>1, <3>1, <3>2
  <2> QED
    BY <1>4, <1>6, <2>2
<1>8. AfterRow(p, E[j] - 1) = IF j = n THEN 0 ELSE E[j]
  <2>1. (E[j] - 1) + 1 = E[j] /\ E[j] \in Nat
    BY <1>4
  <2>2. AfterRow(p, E[j] - 1) = IF At(p, E[j]) = 0 THEN 0 ELSE E[j] % Reach
    BY <2>1 DEF AfterRow
  <2>3. CASE j = n
    <3>1. CASE Len(b) = Reach
      <4>1. E[j] % Reach = 0
        BY <1>1, <1>3, <2>3, <3>1
      <4> QED
        BY <2>2, <2>3, <4>1
    <3>2. CASE Len(b) # Reach
      BY <1>3, <1>6, <2>2, <2>3, <3>2
    <3> QED
      BY <3>1, <3>2
  <2>4. CASE j # n
    <3>1. j + 1 \in 1 .. n /\ (j + 1) - 1 = j
      BY <1>1, <2>4
    <3>2. 1 \in 1 .. Len(d(j + 1)) /\ d(j + 1)[1] > 0
      BY <1>2, <3>1
    <3>3. At(p, (E[j] + 1) - 1) = d(j + 1)[1]
      BY <1>7, <3>1, <3>2
    <3>4. (E[j] + 1) - 1 = E[j]
      BY <2>1
    <3>5. E[j] < Reach
      BY <1>1, <1>3, <1>4, <1>5, <3>1
    <3>6. E[j] % Reach = E[j]
      BY <1>1, <2>1, <3>5, Within
    <3>7. At(p, E[j]) # 0
      BY <3>2, <3>3, <3>4
    <3> QED
      BY <2>2, <2>4, <3>6, <3>7
  <2> QED
    BY <2>3, <2>4
<1> QED
  BY <1>4, <1>7, <1>8 DEF d

\* What a note does once it is read.
Reads(a, t, i, fx) ==
  CASE a = REST -> newnote' = 0 /\ UNCHANGED gate /\ restart' = FALSE
    [] a > REST -> newnote' = 0 /\ gate' = 240 + (a % 16) /\ restart' = FALSE
    [] OTHER ->
         /\ newnote' = (a + t) % 256
         /\ gate' = NoteGate(i, fx).gate
         /\ restart' = NoteGate(i, fx).restart

\* A fetch at a row of a run: the count goes up, and past the row at zero.
LEMMA RunRead ==
  ASSUME NEW p, NEW t, NEW rr, NEW T, NEW J, NEW M, NEW b, NEW E,
         PatternHeld(p, rr, T, J, M, b, E), NEW j \in 1 .. Len(T), T[j].length > 1,
         PackedRest(p, E[j - 1]) \/ StatedRow(p, t, E[j - 1])
  PROVE  /\ packedrest' = ((IF packedrest = 0 THEN 256 - T[j].length ELSE packedrest) + 1) % 256
         /\ pattptr' = IF packedrest' # 0 THEN E[j - 1] ELSE IF j = Len(T) THEN 0 ELSE E[j]
         /\ UNCHANGED <<instr, newfx, newparam>>
         /\ \A i, fx : Reads(REST, t, i, fx)
<1>1. Sound(T[j])
  BY RowsSound DEF PatternHeld
<1>2. RowBytes(T[j])[1] = 256 - T[j].length /\ Len(RowBytes(T[j])) = 1
  BY <1>1, FirstByte
<1>3. /\ E[j - 1] \in Nat /\ E[j] = E[j - 1] + 1
      /\ At(p, (E[j - 1] + 1) - 1) = 256 - T[j].length
      /\ AfterRow(p, E[j] - 1) = IF j = Len(T) THEN 0 ELSE E[j]
  <2>1. 1 \in 1 .. Len(RowBytes(T[j]))
    BY <1>2
  <2>2. /\ E[j - 1] \in Nat /\ E[j] = E[j - 1] + Len(RowBytes(T[j]))
        /\ \A i \in 1 .. Len(RowBytes(T[j])) : At(p, (E[j - 1] + i) - 1) = RowBytes(T[j])[i]
        /\ AfterRow(p, E[j] - 1) = IF j = Len(T) THEN 0 ELSE E[j]
    BY RowAt
  <2>3. At(p, (E[j - 1] + 1) - 1) = RowBytes(T[j])[1]
    BY <2>1, <2>2
  <2> QED
    BY <1>2, <2>2, <2>3
<1>4. (E[j - 1] + 1) - 1 = E[j - 1] /\ E[j] - 1 = E[j - 1]
  BY <1>3
<1>5. T[j].length <= RestRun /\ T[j].length \in Nat /\ RestRun \in Nat
  <2>1. RestRun \in Nat
    BY RestRunAssumption
  <2>2. T[j].length \in 1 .. RestRun
    BY <1>1 DEF Sound, Typed
  <2> QED
    BY <2>1, <2>2
<1>6. At(p, E[j - 1]) = 256 - T[j].length /\ At(p, E[j - 1]) >= PACKEDREST
  BY <1>3, <1>4, <1>5 DEF PACKEDREST
<1>7. PackedRest(p, E[j - 1])
  <2>1. ~ (At(p, E[j - 1]) < PACKEDREST)
    BY <1>5, <1>6 DEF PACKEDREST
  <2> QED
    BY <2>1 DEF StatedRow
<1>8. ASSUME NEW i, NEW fx PROVE Reads(REST, t, i, fx)
  <2>1. newnote' = 0 /\ UNCHANGED gate /\ restart' = FALSE
    BY <1>7 DEF PackedRest
  <2> QED
    BY <2>1 DEF Reads, REST
<1> QED
  BY <1>3, <1>4, <1>6, <1>7, <1>8 DEF PackedRest, RestCount

\* The row r is at pos of pattern p, and the cursor goes on to next.
RowHere(p, r, pos, next) ==
  /\ pos \in Nat
  /\ \A i \in 1 .. Len(RowBytes(r)) : At(p, (pos + i) - 1) = RowBytes(r)[i]
  /\ AfterRow(p, (pos + Len(RowBytes(r))) - 1) = next

\* A row of its own, its bytes from pos on.
LEMMA StatedRead ==
  ASSUME NEW p, NEW t, NEW r, Sound(r), r.length = 1, NEW pos, NEW next,
         RowHere(p, r, pos, next), PackedRest(p, pos) \/ StatedRow(p, t, pos)
  PROVE  /\ UNCHANGED packedrest
         /\ pattptr' = next
         /\ instr' = IF r.instr = Keep THEN instr ELSE r.instr
         /\ IF r.cmd = Held THEN UNCHANGED <<newfx, newparam>>
            ELSE /\ newfx' = r.cmd[1]
                 /\ newparam' = IF newfx' = 0 THEN newparam ELSE Timed(r.cmd)
         /\ Reads(r.note, t, instr', newfx')
<1>0. PICK q, fx, k : q = pos + Lead(r) /\ fx = r.cmd[1] /\ k = CommandBytesRead(fx)
  OBVIOUS
<1>1. r \in Typed
  BY DEF Sound
<1>2. pos \in Nat
  BY DEF RowHere
<1>20. \A i \in 1 .. Len(RowBytes(r)) : At(p, (pos + i) - 1) = RowBytes(r)[i]
  BY DEF RowHere
<1>21. AfterRow(p, (pos + Len(RowBytes(r))) - 1) = next
  BY DEF RowHere
<1>3. /\ RowBytes(r)[1] < PACKEDREST
      /\ RowBytes(r)[1] = IF r.instr = Keep THEN Body(r)[1] ELSE r.instr
      /\ Body(r)[1] \in FX .. KEYON
  BY FirstByte
<1>4. /\ Len(RowBytes(r)) = Lead(r) + Len(Body(r)) /\ Len(Body(r)) \in Nat \ {0}
      /\ \A i \in 1 .. Len(Body(r)) : RowBytes(r)[Lead(r) + i] = Body(r)[i]
      /\ Lead(r) = IF r.instr = Keep THEN 0 ELSE 1
  BY BytesOfRow, BodyIs DEF Lead
<1>5. r.instr = Keep \/ r.instr \in 1 .. 63
  BY <1>1 DEF Typed
<1>6. r.note \in NOTE .. KEYON
  BY <1>1 DEF Typed
<1>7. r.cmd # Held => fx \in 0 .. 15
  BY <1>0, <1>1, Stated DEF Typed
<1>8. /\ r.cmd = Held => Len(Body(r)) = 1 /\ Body(r)[1] = r.note
      /\ r.cmd # Held =>
           /\ Body(r)[1] = (IF r.note = REST THEN FXONLY ELSE FX) + fx
           /\ fx # 0 => Body(r)[2] = Timed(r.cmd)
           /\ Len(Body(r)) = k + IF r.note = REST THEN 0 ELSE 1
           /\ r.note # REST => Body(r)[k + 1] = r.note
  BY <1>0, BodyIs
<1>9. FX = 64 /\ FXONLY = 80 /\ NOTE = 96 /\ REST = 189 /\ KEYON = 191
  BY DEF FX, FXONLY, NOTE, REST, KEYON
<1>10. ASSUME NEW i \in 1 .. Len(Body(r)) PROVE At(p, (q + i) - 1) = Body(r)[i]
  <2>1. Lead(r) \in Nat /\ Lead(r) + i \in 1 .. Len(RowBytes(r))
    BY <1>4
  <2>2. At(p, (pos + (Lead(r) + i)) - 1) = RowBytes(r)[Lead(r) + i]
    BY <1>20, <2>1
  <2>3. (pos + (Lead(r) + i)) - 1 = (q + i) - 1
    BY <1>0, <1>2, <2>1
  <2> QED
    BY <1>4, <2>2, <2>3
<1>11. q \in Nat /\ pos + Len(RowBytes(r)) = q + Len(Body(r))
  BY <1>0, <1>2, <1>4
<1>12. At(p, q) = Body(r)[1]
  <2>1. 1 \in 1 .. Len(Body(r)) /\ (q + 1) - 1 = q
    BY <1>4, <1>11
  <2> QED
    BY <1>10, <2>1
<1>13. At(p, pos) = RowBytes(r)[1]
  <2>1. 1 \in 1 .. Len(RowBytes(r)) /\ (pos + 1) - 1 = pos
    BY <1>2, <1>4
  <2> QED
    BY <1>20, <2>1
<1>14. (At(p, pos) < FX <=> r.instr # Keep) /\ ~ (At(p, pos) >= PACKEDREST)
  <2>1. RestRun \in Nat /\ RestRun <= 64 /\ PACKEDREST = 256 - RestRun
    BY RestRunAssumption DEF PACKEDREST
  <2>2. CASE r.instr = Keep
    <3>1. At(p, pos) \in 64 .. 191
      BY <1>3, <1>13, <2>2 DEF FX, KEYON
    <3> QED
      BY <2>1, <2>2, <3>1 DEF FX
  <2>3. CASE r.instr # Keep
    <3>1. At(p, pos) \in 1 .. 63
      BY <1>3, <1>5, <1>13, <2>3
    <3> QED
      BY <2>1, <2>3, <3>1 DEF FX
  <2> QED
    BY <2>2, <2>3
<1>15. StatedRow(p, t, pos)
  BY <1>14 DEF PackedRest
<1>16. /\ UNCHANGED packedrest
       /\ instr' = IF r.instr = Keep THEN instr ELSE r.instr
       /\ RowFrom(p, t, q, instr')
  <2>1. q = IF At(p, pos) < FX THEN pos + 1 ELSE pos
    BY <1>0, <1>2, <1>4, <1>14
  <2>2. instr' = IF At(p, pos) < FX THEN At(p, pos) ELSE instr
    BY <1>15 DEF StatedRow
  <2>3. RowFrom(p, t, q, instr')
    BY <1>15, <2>1 DEF StatedRow
  <2>4. UNCHANGED packedrest
    BY <1>15 DEF StatedRow
  <2> QED
    BY <1>3, <1>13, <1>14, <2>2, <2>3, <2>4
<1>17. CASE r.cmd = Held
  <2>1. At(p, q) = r.note /\ At(p, q) >= NOTE /\ q = (pos + Len(RowBytes(r))) - 1
    <3>1. At(p, q) = r.note /\ Len(Body(r)) = 1
      BY <1>8, <1>12, <1>17
    <3>2. At(p, q) >= NOTE
      BY <1>6, <3>1 DEF NOTE, KEYON
    <3>3. q = (pos + Len(RowBytes(r))) - 1
      BY <1>11, <3>1
    <3> QED
      BY <3>1, <3>2, <3>3
  <2>2. /\ UNCHANGED <<newfx, newparam>>
        /\ NoteColumn(p, t, q, instr', newfx)
        /\ pattptr' = AfterRow(p, q)
    BY <1>16, <2>1 DEF RowFrom
  <2>3. Reads(r.note, t, instr', newfx)
    BY <2>1, <2>2 DEF NoteColumn, Reads
  <2>4. Reads(r.note, t, instr', newfx')
    BY <2>2, <2>3
  <2>5. pattptr' = next
    BY <1>21, <2>1, <2>2
  <2> QED
    BY <1>16, <1>17, <2>2, <2>4, <2>5 
<1>18. CASE r.cmd # Held /\ r.note = REST
  <2>1. /\ At(p, q) = 80 + fx /\ fx \in 0 .. 15 /\ Len(Body(r)) = k
        /\ fx # 0 => Body(r)[2] = Timed(r.cmd)
    <3>1. k \in Nat
      BY <1>0 DEF CommandBytesRead
    <3> QED
      BY <1>7, <1>8, <1>9, <1>12, <1>18, <3>1
  <2>2. At(p, q) % 16 = fx /\ ~ (At(p, q) >= NOTE) /\ At(p, q) >= FXONLY
    <3>1. At(p, q) \in 80 .. 95
      BY <2>1
    <3>2. (80 + fx) % 16 = fx
      BY <2>1
    <3> QED
      BY <2>1, <3>1, <3>2 DEF NOTE, FXONLY
  <2>3. /\ newfx' = fx
        /\ newparam' = IF fx = 0 THEN newparam ELSE At(p, q + 1)
        /\ pattptr' = AfterRow(p, (q + k) - 1)
        /\ newnote' = 0 /\ restart' = FALSE /\ UNCHANGED gate
    BY <1>0, <1>16, <2>2 DEF RowFrom
  <2>4. fx # 0 => At(p, q + 1) = Timed(r.cmd)
    <3>1. fx # 0 => 2 \in 1 .. Len(Body(r)) /\ (q + 2) - 1 = q + 1
      BY <1>0, <1>11, <2>1 DEF CommandBytesRead
    <3> QED
      BY <1>10, <2>1, <3>1
  <2>5. Reads(r.note, t, instr', newfx')
    BY <1>18, <2>3 DEF Reads, REST
  <2>6. pattptr' = next
    <3>1. (q + k) - 1 = (pos + Len(RowBytes(r))) - 1
      BY <1>11, <2>1
    <3> QED
      BY <1>21, <2>3, <3>1
  <2> QED
    BY <1>0, <1>16, <1>18, <2>3, <2>4, <2>5, <2>6 
<1>19. CASE r.cmd # Held /\ r.note # REST
  <2>1. /\ At(p, q) = 64 + fx /\ fx \in 0 .. 15 /\ Len(Body(r)) = k + 1
        /\ fx # 0 => Body(r)[2] = Timed(r.cmd)
        /\ Body(r)[k + 1] = r.note
    BY <1>7, <1>8, <1>9, <1>12, <1>19
  <2>2. At(p, q) % 16 = fx /\ ~ (At(p, q) >= NOTE) /\ ~ (At(p, q) >= FXONLY)
    <3>1. At(p, q) \in 64 .. 79
      BY <2>1
    <3>2. (64 + fx) % 16 = fx
      BY <2>1
    <3> QED
      BY <2>1, <3>1, <3>2 DEF NOTE, FXONLY
  <2>3. /\ newfx' = fx
        /\ newparam' = IF fx = 0 THEN newparam ELSE At(p, q + 1)
        /\ pattptr' = AfterRow(p, q + k)
        /\ NoteColumn(p, t, q + k, instr', fx)
    BY <1>0, <1>16, <2>2 DEF RowFrom
  <2>4. k \in 1 .. 2 /\ (fx # 0 => k = 2)
    BY <1>0 DEF CommandBytesRead
  <2>5. fx # 0 => At(p, q + 1) = Timed(r.cmd)
    <3>1. fx # 0 => 2 \in 1 .. Len(Body(r)) /\ (q + 2) - 1 = q + 1
      BY <1>11, <2>1, <2>4
    <3> QED
      BY <1>10, <2>1, <3>1
  <2>6. At(p, q + k) = r.note
    <3>1. k + 1 \in 1 .. Len(Body(r)) /\ (q + (k + 1)) - 1 = q + k
      BY <1>11, <2>1, <2>4
    <3> QED
      BY <1>10, <2>1, <3>1
  <2>7. Reads(r.note, t, instr', newfx')
    <3>1. Reads(r.note, t, instr', fx)
      BY <2>3, <2>6 DEF NoteColumn, Reads
    <3> QED
      BY <1>21, <2>3, <3>1
  <2>8. pattptr' = next
    <3>1. q + k = (pos + Len(RowBytes(r))) - 1
      BY <1>11, <2>1, <2>4
    <3> QED
      BY <1>21, <2>3, <3>1
  <2> QED
    BY <1>0, <1>16, <1>19, <2>3, <2>5, <2>7, <2>8 
<1> QED
  BY <1>17, <1>18, <1>19

\* A fetch at a row of its own.
LEMMA RowRead ==
  ASSUME NEW p, NEW t, NEW rr, NEW T, NEW J, NEW M, NEW b, NEW E,
         PatternHeld(p, rr, T, J, M, b, E), NEW j \in 1 .. Len(T), T[j].length = 1,
         PackedRest(p, E[j - 1]) \/ StatedRow(p, t, E[j - 1])
  PROVE  /\ UNCHANGED packedrest
         /\ pattptr' = IF j = Len(T) THEN 0 ELSE E[j]
         /\ instr' = IF T[j].instr = Keep THEN instr ELSE T[j].instr
         /\ IF T[j].cmd = Held THEN UNCHANGED <<newfx, newparam>>
            ELSE /\ newfx' = T[j].cmd[1]
                 /\ newparam' = IF newfx' = 0 THEN newparam ELSE Timed(T[j].cmd)
         /\ Reads(T[j].note, t, instr', newfx')
<1>1. Sound(T[j])
  BY RowsSound DEF PatternHeld
<1>2. /\ E[j - 1] \in Nat /\ E[j] = E[j - 1] + Len(RowBytes(T[j]))
      /\ \A i \in 1 .. Len(RowBytes(T[j])) : At(p, (E[j - 1] + i) - 1) = RowBytes(T[j])[i]
      /\ AfterRow(p, E[j] - 1) = IF j = Len(T) THEN 0 ELSE E[j]
  BY RowAt
<1>3. PICK r, pos, next : r = T[j] /\ pos = E[j - 1] /\ next = IF j = Len(T) THEN 0 ELSE E[j]
  OBVIOUS
<1>4. AfterRow(p, (pos + Len(RowBytes(r))) - 1) = next
  BY <1>2, <1>3
<1>5. Sound(r) /\ r.length = 1 /\ (PackedRest(p, pos) \/ StatedRow(p, t, pos))
  BY <1>1, <1>3
<1>7. RowHere(p, r, pos, next)
  BY <1>2, <1>3, <1>4 DEF RowHere
<1>6. /\ UNCHANGED packedrest
      /\ pattptr' = next
      /\ instr' = IF r.instr = Keep THEN instr ELSE r.instr
      /\ IF r.cmd = Held THEN UNCHANGED <<newfx, newparam>>
         ELSE /\ newfx' = r.cmd[1]
              /\ newparam' = IF newfx' = 0 THEN newparam ELSE Timed(r.cmd)
      /\ Reads(r.note, t, instr', newfx')
  BY <1>5, <1>7, StatedRead
<1> QED
  BY <1>3, <1>6
-----------------------------------------------------------------------------
(* One row a fetch.                                                        *)

\* The cursor at pos, its count at rest, is before row k.
Before(T, J, M, E, k, pos, rest) ==
  /\ pos = E[J[k] - 1]
  /\ rest = IF M[k] = 1 THEN 0 ELSE (255 - T[J[k]].length) + M[k]

\* The channel's command is that of the row r.
Commanded(r) == newfx = r.cmd[1] /\ (newfx # 0 => newparam = Timed(r.cmd))

\* The cursor at pos, its count at rest, has read row k.
Behind(T, J, M, E, k, pos, rest) ==
  LET j == J[k]
      L == T[j].length
  IN /\ rest = IF M[k] = L THEN 0 ELSE (256 - L) + M[k]
     /\ pos = IF M[k] # L THEN E[j - 1] ELSE IF j = Len(T) THEN 0 ELSE E[j]

\* Behind a row it is before the next, or at the pattern's end.
LEMMA CursorMoved ==
  ASSUME NEW p, NEW rr, NEW T, NEW J, NEW M, NEW b, NEW E,
         PatternHeld(p, rr, T, J, M, b, E), NEW k \in 1 .. Len(rr), NEW pos, NEW rest,
         Behind(T, J, M, E, k, pos, rest)
  PROVE  IF k = Len(rr) THEN pos = 0 /\ rest = 0
         ELSE pos # 0 /\ Before(T, J, M, E, k + 1, pos, rest)
<1> DEFINE n == Len(rr)
           j == J[k]
           L == T[j].length
<1>1. /\ n \in Nat /\ n > 0 /\ Len(T) \in Nat
      /\ J \in [1 .. n -> 1 .. Len(T)] /\ M \in [1 .. n -> 1 .. RestRun]
      /\ J[n] = Len(T) /\ M[n] = T[Len(T)].length
      /\ \A i \in 1 .. n - 1 :
           \/ M[i] < T[J[i]].length /\ J[i + 1] = J[i] /\ M[i + 1] = M[i] + 1
           \/ M[i] = T[J[i]].length /\ J[i + 1] = J[i] + 1 /\ M[i + 1] = 1
      /\ \A i \in 1 .. Len(T) : T[i].length > 1 => i > 1
  <2>1. Layout(rr, T, J, M, n) /\ n \in Nat /\ n > 0
    BY DEF PatternHeld
  <2> HIDE DEF n, j, L
  <2>2. T \in Seq(Typed) /\ \A i \in 1 .. Len(T) : T[i].length > 1 => i > 1
    BY <2>1 DEF Layout
  <2>3. /\ J \in [1 .. n -> 1 .. Len(T)] /\ M \in [1 .. n -> 1 .. RestRun]
        /\ J[n] = Len(T) /\ M[n] = T[Len(T)].length
    BY <2>1 DEF Layout
  <2>4. \A i \in 1 .. n - 1 :
          \/ M[i] < T[J[i]].length /\ J[i + 1] = J[i] /\ M[i + 1] = M[i] + 1
          \/ M[i] = T[J[i]].length /\ J[i + 1] = J[i] + 1 /\ M[i + 1] = 1
    BY <2>1 DEF Layout
  <2> QED
    BY <2>1, <2>2, <2>3, <2>4
<1>2. RestRun \in Nat /\ RestRun <= 64
  BY RestRunAssumption
<1>3. j \in 1 .. Len(T) /\ M[k] \in 1 .. RestRun
  BY <1>1
<1>4. \A i \in 1 .. Len(T) : E[i - 1] \in Nat /\ E[i] > E[i - 1]
  BY RowAt
<1>5. Sound(T[j])
  BY <1>3, RowsSound DEF PatternHeld
<1>6. L \in 1 .. RestRun
  BY <1>5 DEF Sound, Typed
<1>7. CASE k = n
  BY <1>1, <1>7 DEF Behind
<1>8. CASE k # n
  <2>1. k \in 1 .. n - 1 /\ k + 1 \in 1 .. n
    BY <1>1, <1>8
  <2>2. \/ M[k] < L /\ J[k + 1] = j /\ M[k + 1] = M[k] + 1
        \/ M[k] = L /\ J[k + 1] = j + 1 /\ M[k + 1] = 1
    BY <1>1, <2>1
  <2> HIDE DEF L, n
  <2>3. CASE M[k] < L
    <3>1. J[k + 1] = j /\ M[k + 1] = M[k] + 1 /\ M[k] # L
      BY <1>2, <1>3, <1>6, <2>2, <2>3
    <3>2. j > 1
      <4>1. L > 1
        BY <1>2, <1>3, <1>6, <2>3
      <4> QED
        BY <1>1, <1>3, <4>1 DEF L
    <3>3. j - 1 \in 1 .. Len(T)
      BY <1>1, <1>3, <3>2
    <3>4. E[(j - 1) - 1] \in Nat /\ E[j - 1] > E[(j - 1) - 1]
      BY <1>4, <3>3
    <3>5. E[j - 1] \in Nat
      BY <1>3, <1>4
    <3>6. pos = E[j - 1] /\ pos # 0
      <4>1. pos = E[j - 1]
        BY <3>1 DEF L, Behind
      <4> QED
        BY <3>4, <3>5, <4>1
    <3>7. rest = (256 - L) + M[k]
      BY <3>1 DEF L, Behind
    <3>8. M[k + 1] # 1 /\ (255 - L) + M[k + 1] = (256 - L) + M[k]
      <4>1. L \in Nat /\ M[k] \in Nat /\ M[k] >= 1
        BY <1>2, <1>3, <1>6
      <4>2. M[k + 1] = M[k] + 1
        BY <3>1
      <4> QED
        BY <4>1, <4>2
    <3>9. Before(T, J, M, E, k + 1, pos, rest)
      BY <3>1, <3>6, <3>7, <3>8 DEF Before, L
    <3> QED
      BY <1>8, <3>6, <3>9 DEF n
  <2>4. CASE M[k] = L
    <3>1. J[k + 1] = j + 1 /\ M[k + 1] = 1
      BY <1>2, <1>3, <1>6, <2>2, <2>4
    <3>2. J[k + 1] \in 1 .. Len(T)
      BY <1>1, <2>1 DEF n
    <3>3. j # Len(T) /\ J[k + 1] - 1 = j
      BY <1>1, <1>3, <3>1, <3>2
    <3>4. pos = E[j] /\ rest = 0
      BY <2>4, <3>3 DEF L, Behind
    <3>5. pos # 0
      <4>1. E[j - 1] \in Nat /\ E[j] > E[j - 1]
        BY <1>3, <1>4
      <4> QED
        BY <3>4, <4>1
    <3>6. Before(T, J, M, E, k + 1, pos, rest)
      BY <3>1, <3>3, <3>4 DEF Before
    <3> QED
      BY <1>8, <3>5, <3>6 DEF n
  <2> QED
    BY <2>2, <2>3, <2>4
<1> QED
  BY <1>7, <1>8

\* A fetch reads the next row.
LEMMA RowFetched ==
  ASSUME NEW p, NEW t, NEW rr, NEW T, NEW J, NEW M, NEW b, NEW E,
         PatternHeld(p, rr, T, J, M, b, E), NEW k \in 1 .. Len(rr),
         Before(T, J, M, E, k, pattptr, packedrest), k > 1 => Commanded(rr[k - 1]),
         PackedRest(p, pattptr) \/ StatedRow(p, t, pattptr)
  PROVE  /\ IF k = Len(rr) THEN pattptr' = 0 /\ packedrest' = 0
            ELSE pattptr' # 0 /\ Before(T, J, M, E, k + 1, pattptr', packedrest')
         /\ instr' = IF rr[k].instr = Keep THEN instr ELSE rr[k].instr
         /\ newfx' = rr[k].cmd[1] /\ (newfx' # 0 => newparam' = Timed(rr[k].cmd))
         /\ Reads(rr[k].note, t, instr', newfx')
<1> DEFINE n == Len(rr)
           j == J[k]
           L == T[j].length
<1>1. /\ rr[k] \in Single /\ J[k] \in 1 .. Len(T) /\ M[k] \in 1 .. RestRun /\ M[1] = 1
      /\ IF M[k] = 1
         THEN /\ T[J[k]].note = rr[k].note /\ T[J[k]].instr = rr[k].instr
              /\ T[J[k]].cmd = IF k > 1 /\ rr[k].cmd = rr[k - 1].cmd THEN Held ELSE rr[k].cmd
         ELSE BareRest(rr[k]) /\ rr[k].cmd = rr[k - 1].cmd
      /\ k = n \/ k \in 1 .. n - 1
      /\ J[n] = Len(T) /\ M[n] = T[Len(T)].length
  BY DEF PatternHeld, Layout
<1>2. k \in 1 .. n - 1 => M[k] < L \/ M[k] = L
  BY DEF PatternHeld, Layout
<1>3. RestRun \in Nat /\ RestRun <= 64
  BY RestRunAssumption
<1>4. Sound(T[j])
  BY <1>1, RowsSound DEF PatternHeld
<1>5. L \in 1 .. RestRun
  BY <1>4 DEF Sound, Typed
<1>6. M[k] \in Nat /\ M[k] >= 1 /\ M[k] <= L
  <2>1. M[k] < L \/ M[k] = L
    BY <1>1, <1>2
  <2> HIDE DEF L, j, n
  <2>2. M[k] \in 1 .. RestRun
    BY <1>1
  <2> QED
    BY <1>3, <1>5, <2>1, <2>2
<1>7. rr[k].cmd # Held
  BY <1>1, Stated DEF Single
<1>8. pattptr = E[j - 1] /\ packedrest = IF M[k] = 1 THEN 0 ELSE (255 - L) + M[k]
  BY DEF Before
<1>9. PackedRest(p, E[j - 1]) \/ StatedRow(p, t, E[j - 1])
  BY <1>8
<1>10. ASSUME rr[k].cmd = rr[k - 1].cmd, k > 1, UNCHANGED <<newfx, newparam>>
       PROVE  newfx' = rr[k].cmd[1] /\ (newfx' # 0 => newparam' = Timed(rr[k].cmd))
  <2>1. newfx = rr[k].cmd[1] /\ (newfx # 0 => newparam = Timed(rr[k].cmd))
    BY <1>10 DEF Commanded
  <2>2. newfx' = newfx /\ newparam' = newparam
    BY <1>10
  <2> QED
    BY <2>1, <2>2
<1>11. CASE L > 1
  <2>1. BareRest(T[j]) /\ T[j].cmd = Held
    BY <1>4, <1>11 DEF Sound
  <2>2. /\ packedrest' = ((IF packedrest = 0 THEN 256 - L ELSE packedrest) + 1) % 256
        /\ pattptr' = IF packedrest' # 0 THEN E[j - 1] ELSE IF j = Len(T) THEN 0 ELSE E[j]
        /\ UNCHANGED <<instr, newfx, newparam>>
        /\ \A i, fx : Reads(REST, t, i, fx)
    BY <1>1, <1>9, <1>11, RunRead
  <2>3. BareRest(rr[k]) /\ k > 1 /\ rr[k].cmd = rr[k - 1].cmd
    <3>1. CASE M[k] = 1
      BY <1>1, <1>7, <2>1, <3>1 DEF BareRest
    <3>2. CASE M[k] # 1
      BY <1>1, <3>2
    <3> QED
      BY <3>1, <3>2
  <2>4. (IF packedrest = 0 THEN 256 - L ELSE packedrest) + 1 = (256 - L) + M[k]
    <3> HIDE DEF L
    <3>1. CASE M[k] = 1
      BY <1>3, <1>5, <1>8, <3>1
    <3>2. CASE M[k] # 1
      <4>1. packedrest = (255 - L) + M[k] /\ (255 - L) + M[k] > 0
        BY <1>3, <1>5, <1>6, <1>8, <3>2
      <4>2. (IF packedrest = 0 THEN 256 - L ELSE packedrest) = (255 - L) + M[k]
        BY <1>3, <1>5, <1>6, <4>1
      <4> QED
        BY <1>3, <1>5, <1>6, <4>2
    <3> QED
      BY <3>1, <3>2
  <2>5. ((256 - L) + M[k]) % 256 = IF M[k] = L THEN 0 ELSE (256 - L) + M[k]
    <3> HIDE DEF L
    <3> QED
      BY <1>3, <1>5, <1>6
  <2>6. packedrest' = IF M[k] = L THEN 0 ELSE (256 - L) + M[k]
    BY <2>2, <2>4, <2>5
  <2>7. packedrest' # 0 <=> M[k] # L
    <3> HIDE DEF L
    <3> QED
      BY <1>3, <1>5, <1>6, <2>6
  <2>8. pattptr' = IF M[k] # L THEN E[j - 1] ELSE IF j = Len(T) THEN 0 ELSE E[j]
    BY <2>2, <2>7
  <2>9. IF k = Len(rr) THEN pattptr' = 0 /\ packedrest' = 0
        ELSE pattptr' # 0 /\ Before(T, J, M, E, k + 1, pattptr', packedrest')
    <3>1. Behind(T, J, M, E, k, pattptr', packedrest')
      BY <2>6, <2>8 DEF Behind
    <3> QED
      BY <3>1, CursorMoved
  <2>10. Reads(rr[k].note, t, instr', newfx') /\ instr' = instr /\ rr[k].instr = Keep
    BY <2>2, <2>3 DEF BareRest
  <2> QED
    BY <1>10, <2>2, <2>3, <2>9, <2>10
<1>12. CASE L = 1
  <2>1. M[k] = 1
    BY <1>6, <1>12
  <2>2. /\ UNCHANGED packedrest
        /\ pattptr' = IF j = Len(T) THEN 0 ELSE E[j]
        /\ instr' = IF T[j].instr = Keep THEN instr ELSE T[j].instr
        /\ IF T[j].cmd = Held THEN UNCHANGED <<newfx, newparam>>
           ELSE /\ newfx' = T[j].cmd[1]
                /\ newparam' = IF newfx' = 0 THEN newparam ELSE Timed(T[j].cmd)
        /\ Reads(T[j].note, t, instr', newfx')
    BY <1>1, <1>9, <1>12, RowRead
  <2>3. /\ T[j].note = rr[k].note /\ T[j].instr = rr[k].instr
        /\ T[j].cmd = IF k > 1 /\ rr[k].cmd = rr[k - 1].cmd THEN Held ELSE rr[k].cmd
    BY <1>1, <2>1
  <2>4. newfx' = rr[k].cmd[1] /\ (newfx' # 0 => newparam' = Timed(rr[k].cmd))
    BY <1>7, <1>10, <2>2, <2>3
  <2>5. packedrest' = 0 /\ M[k] = L
    BY <1>8, <1>12, <2>1, <2>2
  <2>6. IF k = Len(rr) THEN pattptr' = 0 /\ packedrest' = 0
        ELSE pattptr' # 0 /\ Before(T, J, M, E, k + 1, pattptr', packedrest')
    <3>1. Behind(T, J, M, E, k, pattptr', packedrest')
      BY <2>2, <2>5 DEF Behind
    <3> QED
      BY <3>1, CursorMoved
  <2> QED
    BY <2>2, <2>3, <2>4, <2>6
<1> QED
  BY <1>3, <1>5, <1>11, <1>12
-----------------------------------------------------------------------------
(* Instruments by class.                                                   *)

Ranks == {s \in Seq(0 .. 2) : Len(s) \in 1 .. FX - 1}

OfRankSet(ranks, k) == {i \in DOMAIN ranks : ranks[i] = k}
UpTo(ranks, i) == {j \in DOMAIN ranks : ranks[j] < ranks[i] \/ (ranks[j] = ranks[i] /\ j <= i)}

LEMMA RanksFinite ==
  ASSUME NEW ranks \in Ranks, NEW S, S \subseteq DOMAIN ranks
  PROVE  IsFiniteSet(S) /\ Cardinality(S) \in Nat
<1>1. IsFiniteSet(DOMAIN ranks)
  <2>1. DOMAIN ranks = 1 .. Len(ranks) /\ Len(ranks) \in Nat
    BY DEF Ranks, FX
  <2> QED
    BY <2>1, FS_Interval
<1>2. IsFiniteSet(S)
  BY <1>1, FS_Subset
<1> QED
  BY <1>2, FS_CardinalityType

\* A set counts less than one that holds it and more.
LEMMA CountsLess ==
  ASSUME NEW ranks \in Ranks, NEW S, NEW U, U \subseteq DOMAIN ranks, S \subseteq U,
         NEW x \in U, x \notin S
  PROVE  Cardinality(S) < Cardinality(U)
<1>1. IsFiniteSet(U) /\ IsFiniteSet(S) /\ Cardinality(S) \in Nat /\ Cardinality(U) \in Nat
  BY RanksFinite
<1>2. Cardinality(S) <= Cardinality(U) /\ (S # U => Cardinality(S) < Cardinality(U))
  BY <1>1, FS_Subset
<1> QED
  BY <1>2

LEMMA CountsUpTo ==
  ASSUME NEW ranks \in Ranks, NEW S, NEW U, U \subseteq DOMAIN ranks, S \subseteq U
  PROVE  Cardinality(S) <= Cardinality(U)
BY RanksFinite, FS_Subset

\* Instruments in order have numbers of their own, in the order of their classes.
LEMMA OrderedApart ==
  ASSUME NEW ranks \in Ranks, NEW i \in DOMAIN ranks, NEW j \in DOMAIN ranks,
         OrderedNumber(ranks, i) = OrderedNumber(ranks, j)
  PROVE  i = j
<1>1. \A k \in DOMAIN ranks : ranks[k] \in Int /\ k \in Int
  BY DEF Ranks
<1>2. ASSUME NEW x \in DOMAIN ranks, NEW y \in DOMAIN ranks, x # y,
             ranks[x] < ranks[y] \/ (ranks[x] = ranks[y] /\ x <= y)
      PROVE  OrderedNumber(ranks, x) < OrderedNumber(ranks, y)
  <2>1. UpTo(ranks, x) \subseteq UpTo(ranks, y)
    BY <1>1, <1>2 DEF UpTo
  <2>2. y \in UpTo(ranks, y) /\ y \notin UpTo(ranks, x)
    BY <1>1, <1>2 DEF UpTo
  <2>3. UpTo(ranks, y) \subseteq DOMAIN ranks
    BY DEF UpTo
  <2>4. Cardinality(UpTo(ranks, x)) < Cardinality(UpTo(ranks, y))
    BY <2>1, <2>2, <2>3, CountsLess
  <2> QED
    BY <2>4 DEF UpTo, OrderedNumber
<1>3. \A x \in DOMAIN ranks : OrderedNumber(ranks, x) \in Nat
  <2>1. ASSUME NEW x \in DOMAIN ranks PROVE Cardinality(UpTo(ranks, x)) \in Nat
    BY RanksFinite DEF UpTo
  <2> QED
    BY <2>1 DEF UpTo, OrderedNumber
<1>4. i # j => \/ ranks[i] < ranks[j] \/ (ranks[i] = ranks[j] /\ i <= j)
               \/ ranks[j] < ranks[i] \/ (ranks[j] = ranks[i] /\ j <= i)
  BY <1>1
<1>5. OrderedNumber(ranks, i) \in Nat
  BY <1>3
<1> QED
  BY <1>2, <1>4, <1>5

\* The number tells the class.
LEMMA NumberTellsClass ==
  ASSUME NEW ranks \in Ranks, NEW i \in DOMAIN ranks
  PROVE  LET n0 == OfRank(ranks, 0)
             n1 == OfRank(ranks, 1)
             o  == OrderedNumber(ranks, i)
         IN /\ n0 \in Nat /\ n1 \in Nat /\ OfRank(ranks, 2) \in Nat /\ o \in Nat
            /\ OfRank(ranks, ranks[i]) > 0
            /\ ranks[i] \in 0 .. 2
            /\ o >= n0 + 1 <=> ranks[i] # 0
            /\ o >= n0 + n1 + 1 <=> ranks[i] = 2
<1> DEFINE R(k) == OfRankSet(ranks, k)
           u    == UpTo(ranks, i)
<1>1. \A k \in DOMAIN ranks : ranks[k] \in 0 .. 2 /\ k \in Int
  BY DEF Ranks
<1>2. /\ \A k : R(k) \subseteq DOMAIN ranks
      /\ u \subseteq DOMAIN ranks /\ R(0) \cup R(1) \subseteq DOMAIN ranks
  BY DEF OfRankSet, UpTo
<1>3. /\ \A k : IsFiniteSet(R(k)) /\ Cardinality(R(k)) \in Nat
      /\ Cardinality(u) \in Nat /\ Cardinality(R(0) \cup R(1)) \in Nat
  BY <1>2, RanksFinite
<1>4. /\ \A k : OfRank(ranks, k) = Cardinality(R(k))
      /\ OrderedNumber(ranks, i) = Cardinality(u)
  BY DEF OfRank, OfRankSet, OrderedNumber, UpTo
<1>5. Cardinality(R(0) \cup R(1)) = Cardinality(R(0)) + Cardinality(R(1))
  <2>1. R(0) \cap R(1) = {}
    BY DEF OfRankSet
  <2>2. Cardinality(R(0) \cup R(1)) = Cardinality(R(0)) + Cardinality(R(1)) - Cardinality({})
    BY <1>3, <2>1, FS_Union
  <2> QED
    BY <1>3, <2>2, FS_EmptySet
<1>6. i \in u /\ i \in R(ranks[i])
  BY <1>1 DEF UpTo, OfRankSet
<1>7. OfRank(ranks, ranks[i]) > 0
  <2>1. Cardinality({}) < Cardinality(R(ranks[i]))
    BY <1>2, <1>6, CountsLess
  <2> QED
    BY <1>4, <2>1, FS_EmptySet
<1>8. ranks[i] = 0 => Cardinality(u) <= Cardinality(R(0))
  <2>1. ranks[i] = 0 => u \subseteq R(0)
    BY <1>1 DEF UpTo, OfRankSet
  <2> QED
    BY <1>2, <2>1, CountsUpTo
<1>9. ranks[i] # 0 => Cardinality(R(0)) < Cardinality(u)
  <2>1. ranks[i] # 0 => R(0) \subseteq u /\ i \notin R(0)
    BY <1>1 DEF UpTo, OfRankSet
  <2> QED
    BY <1>2, <1>6, <2>1, CountsLess
<1>10. ranks[i] # 2 => Cardinality(u) <= Cardinality(R(0) \cup R(1))
  <2>1. ranks[i] # 2 => u \subseteq R(0) \cup R(1)
    BY <1>1 DEF UpTo, OfRankSet
  <2> QED
    BY <1>2, <2>1, CountsUpTo
<1>11. ranks[i] = 2 => Cardinality(R(0) \cup R(1)) < Cardinality(u)
  <2>1. ranks[i] = 2 => R(0) \cup R(1) \subseteq u /\ i \notin R(0) \cup R(1)
    BY <1>1 DEF UpTo, OfRankSet
  <2> QED
    BY <1>2, <1>6, <2>1, CountsLess
<1> HIDE DEF R, u
<1>12. /\ OfRank(ranks, 0) \in Nat /\ OfRank(ranks, 1) \in Nat /\ OfRank(ranks, 2) \in Nat
       /\ OrderedNumber(ranks, i) \in Nat
  BY <1>3, <1>4
<1>13. OrderedNumber(ranks, i) >= OfRank(ranks, 0) + 1 <=> ranks[i] # 0
  BY <1>3, <1>4, <1>8, <1>9
<1>14. OrderedNumber(ranks, i) >= OfRank(ranks, 0) + OfRank(ranks, 1) + 1 <=> ranks[i] = 2
  BY <1>3, <1>4, <1>5, <1>10, <1>11
<1> QED
  BY <1>1, <1>7, <1>12, <1>13, <1>14

\* Numbers are the packed song's instruments, one each.
LEMMA NumberInRange ==
  ASSUME NEW ranks \in Ranks, NEW i \in DOMAIN ranks
  PROVE  OrderedNumber(ranks, i) \in 1 .. 63
<1> DEFINE u == UpTo(ranks, i)
<1>1. DOMAIN ranks = 1 .. Len(ranks) /\ Len(ranks) \in 1 .. 63 /\ ranks[i] \in 0 .. 2
  BY DEF Ranks, FX
<1>2. u \subseteq DOMAIN ranks /\ i \in u /\ OrderedNumber(ranks, i) = Cardinality(u)
  BY <1>1 DEF UpTo, OrderedNumber
<1>3. Cardinality(u) \in Nat
  BY <1>2, RanksFinite
<1>4. Cardinality(u) > 0
  <2>1. Cardinality({}) < Cardinality(u)
    BY <1>2, CountsLess
  <2> QED
    BY <2>1, FS_EmptySet
<1>5. Cardinality(u) <= Len(ranks)
  <2>1. Cardinality(u) <= Cardinality(DOMAIN ranks)
    BY <1>2, CountsUpTo
  <2>2. Cardinality(1 .. Len(ranks)) = Len(ranks)
    <3>1. Len(ranks) \in Int /\ ~ (1 > Len(ranks)) /\ Len(ranks) - 1 + 1 = Len(ranks)
      BY <1>1
    <3>2. Cardinality(1 .. Len(ranks)) = IF 1 > Len(ranks) THEN 0 ELSE Len(ranks) - 1 + 1
      BY <3>1, FS_Interval
    <3> QED
      BY <3>1, <3>2
  <2> QED
    BY <1>1, <2>1, <2>2
<1>6. PICK n \in 1 .. 63 : n = Len(ranks)
  BY <1>1
<1>7. PICK o : o = OrderedNumber(ranks, i) /\ o = Cardinality(u)
  BY <1>2
<1>8. o \in Nat /\ o > 0 /\ o <= n
  BY <1>3, <1>4, <1>5, <1>6, <1>7
<1>9. o \in 1 .. 63
  BY <1>8
<1> QED
  BY <1>7, <1>9

\* The first instrument of the first class there is has number 1.
LEMMA FirstHasOne ==
  ASSUME NEW ranks \in Ranks, NEW i \in DOMAIN ranks,
         \A j \in DOMAIN ranks : ranks[i] < ranks[j] \/ (ranks[i] = ranks[j] /\ i <= j)
  PROVE  OrderedNumber(ranks, i) = 1
<1>1. \A k \in DOMAIN ranks : ranks[k] \in Int /\ k \in Int
  BY DEF Ranks
<1>2. UpTo(ranks, i) = {i}
  BY <1>1 DEF UpTo
<1>3. Cardinality(UpTo(ranks, i)) = 1
  BY <1>2, FS_Singleton
<1> QED
  BY <1>3 DEF UpTo, OrderedNumber

LEMMA FirstThereIs ==
  ASSUME NEW ranks \in Ranks
  PROVE  \E i \in DOMAIN ranks :
           \A j \in DOMAIN ranks : ranks[i] < ranks[j] \/ (ranks[i] = ranks[j] /\ i <= j)
<1> DEFINE key(i) == ranks[i] * 64 + i
           S      == {key(i) : i \in DOMAIN ranks}
<1>1. /\ DOMAIN ranks = 1 .. Len(ranks) /\ Len(ranks) \in 1 .. 63
      /\ \A i \in DOMAIN ranks : ranks[i] \in 0 .. 2 /\ i \in 1 .. 63
  <2>1. ranks \in Seq(0 .. 2) /\ Len(ranks) \in 1 .. 63
    BY DEF Ranks, FX
  <2>2. DOMAIN ranks = 1 .. Len(ranks) /\ \A i \in 1 .. Len(ranks) : ranks[i] \in 0 .. 2
    BY <2>1
  <2>3. PICK n \in 1 .. 63 : n = Len(ranks)
    BY <2>1
  <2>4. \A i \in 1 .. n : i \in 1 .. 63
    OBVIOUS
  <2> QED
    BY <2>1, <2>2, <2>3, <2>4
<1>2. S \subseteq Nat /\ S # {}
  <2>1. ASSUME NEW i \in DOMAIN ranks PROVE key(i) \in Nat
    <3>1. ranks[i] \in 0 .. 2 /\ i \in 1 .. 63
      BY <1>1
    <3> QED
      BY <3>1
  <2>2. 1 \in DOMAIN ranks
    BY <1>1
  <2> HIDE DEF key
  <2> QED
    BY <2>1, <2>2
<1>3. PICK x \in S : \A y \in S : x <= y
  <2> HIDE DEF S
  <2> QED
    BY <1>2, LeastOf
<1>4. PICK i \in DOMAIN ranks : x = key(i)
  BY <1>3
<1>5. ASSUME NEW j \in DOMAIN ranks
      PROVE  ranks[i] < ranks[j] \/ (ranks[i] = ranks[j] /\ i <= j)
  <2>1. key(i) <= key(j)
    BY <1>3, <1>4
  <2>2. ranks[i] \in 0 .. 2 /\ ranks[j] \in 0 .. 2 /\ i \in 1 .. 63 /\ j \in 1 .. 63
    BY <1>1
  <2> QED
    BY <2>1, <2>2
<1> QED
  BY <1>5

\* What a new note does to gate and envelope is what its instrument asks for.
LEMMA NoteGateIs ==
  ASSUME song.ranks \in Ranks, NEW e \in DOMAIN song.ranks, NEW fx
  PROVE  LET i    == OrderedNumber(song.ranks, e)
             tied == fx = CMD_TONEPORTA \/ song.ranks[e] = 2
         IN /\ NoteGate(i, fx).gate = IF tied THEN gate ELSE 254
            /\ NoteGate(i, fx).restart = (fx # CMD_TONEPORTA /\ song.ranks[e] = 0)
<1> DEFINE i    == OrderedNumber(song.ranks, e)
           n(k) == OfRank(song.ranks, k)
           rank == song.ranks[e]
<1>1. /\ n(0) \in Nat /\ n(1) \in Nat /\ n(2) \in Nat /\ rank \in 0 .. 2 /\ n(rank) > 0
      /\ (i >= n(0) + 1 <=> rank # 0) /\ (i >= n(0) + n(1) + 1 <=> rank = 2)
  BY NumberTellsClass
<1>2. /\ (i >= FirstNoHr <=> rank # 0) /\ (i >= FirstLegato <=> rank = 2)
      /\ (HrInstr <=> n(0) > 0) /\ (NoHrInstr <=> n(1) > 0) /\ (Legato <=> n(2) > 0)
  BY <1>1 DEF FirstNoHr, FirstLegato, HrInstr, NoHrInstr, Legato
<1> HIDE DEF i, n
<1>3. /\ rank = 0 => HrInstr /\ ~ (i >= FirstNoHr) /\ ~ (i >= FirstLegato)
      /\ rank = 1 => NoHrInstr /\ i >= FirstNoHr /\ ~ (i >= FirstLegato)
      /\ rank = 2 => Legato /\ i >= FirstNoHr /\ i >= FirstLegato
      /\ rank = 0 \/ rank = 1 \/ rank = 2
  BY <1>1, <1>2
<1> HIDE DEF rank
<1>4. HrInstr \in BOOLEAN /\ NoHrInstr \in BOOLEAN /\ Legato \in BOOLEAN
  BY DEF HrInstr, NoHrInstr, Legato
<1> DEFINE slide == fx = CMD_TONEPORTA
           a == i >= FirstNoHr
           c == i >= FirstLegato
           unrestarted == ClassesApart /\ a
           tied == slide \/ (unrestarted /\ Legato /\ c)
<1>5. NoteGate(i, fx) = [gate |-> IF tied THEN gate ELSE 254,
                         restart |-> ~ tied /\ ~ unrestarted /\ HrInstr]
  BY DEF NoteGate
<1> HIDE DEF a, c, slide
<1>6. tied <=> slide \/ rank = 2
  BY <1>3 DEF ClassesApart, a, c
<1>7. (~ tied /\ ~ unrestarted /\ HrInstr) <=> (~ slide /\ rank = 0)
  <2>1. CASE rank = 0
    BY <1>3, <1>6, <2>1 DEF ClassesApart, a, c
  <2>2. CASE rank = 1
    BY <1>3, <1>6, <2>2 DEF ClassesApart, a, c
  <2>3. CASE rank = 2
    BY <1>3, <1>6, <2>3 DEF ClassesApart, a, c
  <2> QED
    BY <1>3, <2>1, <2>2, <2>3
<1> HIDE DEF tied, unrestarted
<1>8. /\ NoteGate(i, fx).gate = IF slide \/ rank = 2 THEN gate ELSE 254
      /\ NoteGate(i, fx).restart = (~ slide /\ rank = 0)
  <2>1. NoteGate(i, fx).gate = IF tied THEN gate ELSE 254
    BY <1>5
  <2>2. NoteGate(i, fx).restart = (~ tied /\ ~ unrestarted /\ HrInstr)
    BY <1>5
  <2>3. (~ tied /\ ~ unrestarted /\ HrInstr) = (~ slide /\ rank = 0)
    BY <1>7
  <2> QED
    BY <1>6, <2>1, <2>2, <2>3
<1> QED
  BY <1>8 DEF i, rank, slide

-----------------------------------------------------------------------------
(* The stream and the editor's rows.                                       *)

\* The rows pattern p was packed from.
RowsIn(p) == RowsOf(Ordered(song)[p])

LEMMA OrderedRows ==
  ASSUME SongFits(song), NEW p \in DOMAIN song.patterns
  PROVE  LET R == song.patterns[p] IN
         /\ song.ranks \in Ranks
         /\ RowsIn(p) \in Seq(Single) /\ Len(RowsIn(p)) = Len(R) /\ Len(R) \in Nat \ {0}
         /\ Ordered(song)[p] \in Seq(Row) /\ Len(Ordered(song)[p]) = Len(R)
         /\ \A k \in 1 .. Len(R) :
              /\ RowsIn(p)[k].note = R[k].note /\ R[k].note \in NOTE .. KEYON
              /\ RowsIn(p)[k].instr = IF R[k].instr = 0 THEN Keep
                                      ELSE OrderedNumber(song.ranks, R[k].instr)
              /\ R[k].instr = 0 \/ R[k].instr \in DOMAIN song.ranks
              /\ RowsIn(p)[k].cmd = <<R[k].fx, R[k].data>> /\ <<R[k].fx, R[k].data>> \in Command
<1> DEFINE Given(n) == [note : NOTE .. KEYON, instr : 0 .. n, fx : 0 .. 15, data : 0 .. 255]
           number(i) == IF i = 0 THEN 0 ELSE OrderedNumber(song.ranks, i)
<1>1. PICK R, ranks, O, n : /\ R = song.patterns[p] /\ ranks = song.ranks
                            /\ O = Ordered(song)[p] /\ n = Len(song.ranks)
  OBVIOUS
<1>2. /\ ranks \in Ranks /\ DOMAIN ranks = 1 .. n
      /\ R # <<>> /\ R \in Seq(Given(n))
  <2>1. ranks \in Ranks /\ ranks \in Seq(0 .. 2)
    BY <1>1 DEF SongFits, Ranks
  <2>2. R # <<>> /\ R \in Seq(Given(n))
    BY <1>1 DEF SongFits
  <2> HIDE DEF Given
  <2> QED
    BY <1>1, <2>1, <2>2
<1>3. Len(R) \in Nat \ {0} /\ DOMAIN R = 1 .. Len(R) /\ \A k \in 1 .. Len(R) : R[k] \in Given(n)
  <2> HIDE DEF Given
  <2> QED
    BY <1>2
<1>4. O = [k \in 1 .. Len(R) |-> [R[k] EXCEPT !.instr = number(@)]]
  BY <1>1, <1>3 DEF Ordered
<1>5. ASSUME NEW k \in 1 .. Len(R)
      PROVE  /\ R[k].note \in NOTE .. KEYON /\ <<R[k].fx, R[k].data>> \in Command
             /\ R[k].instr = 0 \/ R[k].instr \in DOMAIN ranks
             /\ R[k].instr # 0 => number(R[k].instr) # 0
             /\ O[k] \in Row /\ O[k].note = R[k].note /\ O[k].fx = R[k].fx /\ O[k].data = R[k].data
             /\ O[k].instr = number(R[k].instr)
  <2>1. PICK r : r = R[k] /\ r \in Given(n)
    BY <1>3
  <2>2. r.instr \in 0 .. n /\ r.note \in NOTE .. KEYON /\ r.fx \in 0 .. 15 /\ r.data \in 0 .. 255
    BY <2>1
  <2>3. r.instr = 0 \/ r.instr \in DOMAIN ranks
    BY <1>2, <2>2
  <2>4. PICK i : i = number(r.instr)
    OBVIOUS
  <2>5. i \in 0 .. 63 /\ (r.instr # 0 => i # 0)
    <3>1. CASE r.instr = 0
      BY <2>4, <3>1
    <3>2. CASE r.instr # 0
      <4>1. OrderedNumber(ranks, r.instr) \in 1 .. 63
        BY <1>2, <2>3, <3>2, NumberInRange
      <4>2. i \in 1 .. 63
        BY <1>1, <2>4, <3>2, <4>1
      <4> QED
        BY <4>2
    <3> QED
      BY <3>1, <3>2
  <2>6. O[k] = [r EXCEPT !.instr = i]
    BY <1>4, <2>1, <2>4
  <2>7. O[k] \in Row /\ O[k].note = r.note /\ O[k].fx = r.fx /\ O[k].data = r.data /\ O[k].instr = i
    <3>1. r = [note |-> r.note, instr |-> r.instr, fx |-> r.fx, data |-> r.data]
      BY <2>1
    <3>2. O[k] = [note |-> r.note, instr |-> i, fx |-> r.fx, data |-> r.data]
      BY <2>6, <3>1
    <3> QED
      BY <2>2, <2>5, <3>2 DEF Row
  <2>8. <<r.fx, r.data>> \in Command
    BY <2>2 DEF Command
  <2> HIDE DEF number, Given
  <2> QED
    BY <2>1, <2>2, <2>3, <2>4, <2>5, <2>7, <2>8
<1> HIDE DEF Given
<1>6. O \in Seq(Row) /\ Len(O) = Len(R)
  <2>1. DOMAIN O = 1 .. Len(R) /\ \A k \in 1 .. Len(R) : O[k] \in Row
    BY <1>4, <1>5
  <2>2. O = [k \in 1 .. Len(R) |-> O[k]]
    BY <1>4
  <2> QED
    BY <1>3, <2>1, <2>2
<1>7. RowsIn(p) = RowsOf(O)
  BY <1>1 DEF RowsIn
<1>8. /\ RowsOf(O) \in Seq(Single) /\ Len(RowsOf(O)) = Len(O)
      /\ \A k \in 1 .. Len(O) :
              /\ RowsOf(O)[k].note = O[k].note
              /\ RowsOf(O)[k].instr = IF O[k].instr = 0 THEN Keep ELSE O[k].instr
              /\ RowsOf(O)[k].cmd = <<O[k].fx, O[k].data>>
  BY <1>6, RowsSingle
<1>9. ASSUME NEW k \in 1 .. Len(R)
      PROVE  /\ RowsIn(p)[k].note = R[k].note
             /\ RowsIn(p)[k].instr = IF R[k].instr = 0 THEN Keep ELSE OrderedNumber(ranks, R[k].instr)
             /\ RowsIn(p)[k].cmd = <<R[k].fx, R[k].data>>
  <2>1. /\ RowsOf(O)[k].note = O[k].note
        /\ RowsOf(O)[k].instr = IF O[k].instr = 0 THEN Keep ELSE O[k].instr
        /\ RowsOf(O)[k].cmd = <<O[k].fx, O[k].data>>
    BY <1>6, <1>8
  <2>2. /\ O[k].note = R[k].note /\ O[k].fx = R[k].fx /\ O[k].data = R[k].data
        /\ O[k].instr = number(R[k].instr) /\ (R[k].instr # 0 => number(R[k].instr) # 0)
    BY <1>5
  <2> QED
    BY <1>1, <1>7, <2>1, <2>2
<1> HIDE DEF number
<1>10. RowsIn(p) \in Seq(Single) /\ Len(RowsIn(p)) = Len(R)
  BY <1>6, <1>7, <1>8
<1> QED
  BY <1>1, <1>2, <1>3, <1>5, <1>6, <1>9, <1>10

\* Each pattern is held: packed, laid out, and within reach.
LEMMA PatternsHeld ==
  ASSUME SongFits(song), packed = [p \in DOMAIN song.patterns |-> Packed(Ordered(song)[p])],
         NEW p \in DOMAIN song.patterns
  PROVE  \E T, J, M, b, E : PatternHeld(p, RowsIn(p), T, J, M, b, E)
<1> DEFINE rr == RowsIn(p)
           T  == PackedRows(rr)
<1>1. rr \in Seq(Single) /\ Len(rr) > 0
  BY OrderedRows
<1>2. packed[p] = PatternBytes(T) /\ Len(packed[p]) <= Reach
  BY DEF SongFits, Fits, Packed, RowsIn
<1> HIDE DEF rr, T
<1>3. PICK J, M : Layout(rr, T, J, M, Len(rr))
  BY <1>1, PackedLaid DEF T
<1>4. Len(T) \in Nat /\ \A j \in 1 .. Len(T) : Sound(T[j])
  <2>1. T \in Seq(Typed)
    BY <1>3 DEF Layout
  <2>2. \A j \in 1 .. Len(T) : Sound(T[j])
    BY <1>3, RowsSound
  <2> QED
    BY <2>1, <2>2
<1>5. PICK b, E : BytesLaid(T, b, E, Len(T)) /\ PatternBytes(T) = IF Len(b) >= Reach THEN b ELSE Append(b, 0)
  BY <1>4, PatternBytesLaid
<1>6. b \in Seq(Nat) /\ Reach \in Nat
  BY <1>5, ReachAssumption DEF BytesLaid
<1>7. Len(b) <= Reach
  <2>1. CASE Len(b) >= Reach
    BY <1>2, <1>5, <2>1
  <2>2. CASE ~ (Len(b) >= Reach)
    BY <1>6, <2>2
  <2> QED
    BY <2>1, <2>2
<1>8. PatternHeld(p, rr, T, J, M, b, E)
  BY <1>1, <1>2, <1>3, <1>5, <1>7 DEF PatternHeld
<1> QED
  BY <1>8 DEF rr

\* Between fetches the cursor is before the editor's next row, and the channel
\* has the command of the row before it and some instrument of the song.
Followed ==
  /\ SongFits(song)
  /\ packed = [p \in DOMAIN song.patterns |-> Packed(Ordered(song)[p])]
  /\ gate \in {254, 255}
  /\ \E i \in DOMAIN song.ranks : instr = OrderedNumber(song.ranks, i)
  /\ row = 0 => pattptr = 0 /\ packedrest = 0
  /\ row # 0 =>
       /\ pattptr # 0 /\ pattnum \in DOMAIN song.patterns
       /\ row \in 2 .. Len(song.patterns[pattnum])
       /\ Commanded(RowsIn(pattnum)[row - 1])
       /\ \E T, J, M, b, E : /\ PatternHeld(pattnum, RowsIn(pattnum), T, J, M, b, E)
                             /\ Before(T, J, M, E, row, pattptr, packedrest)

\* What a fetch reads, the editor's row r being next in pattern p.
Follows(p, t) ==
  LET k == IF row = 0 THEN 1 ELSE row
      r == song.patterns[p][k]
  IN /\ p \in DOMAIN song.patterns /\ k \in 1 .. Len(song.patterns[p])
     /\ IF row = 0 THEN p \in DOMAIN song.patterns /\ t \in Transposes ELSE p = pattnum /\ t = trans
     /\ instr' = IF r.instr = 0 THEN instr ELSE OrderedNumber(song.ranks, r.instr)
     /\ newfx' = r.fx /\ (newfx' # 0 => newparam' = Timed(<<r.fx, r.data>>))
     /\ Reads(r.note, t, instr', newfx')
     /\ Followed'

\* A fetch follows the editor's rows.
LEMMA FetchFollows ==
  ASSUME Followed, NEW p, NEW t, GetNewNote(p, t)
  PROVE  Follows(p, t)
<1>0. PICK k, R, rr : /\ k = IF row = 0 THEN 1 ELSE row
                      /\ R = song.patterns[p] /\ rr = RowsIn(p)
  OBVIOUS
<1>1. /\ SongFits(song) /\ packed = [q \in DOMAIN song.patterns |-> Packed(Ordered(song)[q])]
      /\ DOMAIN packed = DOMAIN song.patterns
  BY DEF Followed
<1>2. /\ p \in DOMAIN song.patterns
      /\ IF row = 0 THEN p \in DOMAIN song.patterns /\ t \in Transposes ELSE p = pattnum /\ t = trans
      /\ row = 0 <=> pattptr = 0
  <2>1. row = 0 <=> pattptr = 0
    BY DEF Followed
  <2>2. IF pattptr = 0 THEN p \in DOMAIN packed /\ t \in Transposes ELSE p = pattnum /\ t = trans
    BY DEF GetNewNote, Chosen
  <2>3. row # 0 => pattnum \in DOMAIN song.patterns
    BY DEF Followed
  <2> QED
    BY <1>1, <2>1, <2>2, <2>3
<1>3. /\ PackedRest(p, pattptr) \/ StatedRow(p, t, pattptr)
      /\ pattnum' = p /\ trans' = t /\ row' = (IF k = Len(R) THEN 0 ELSE k + 1)
      /\ song' = song /\ packed' = packed
  BY <1>0 DEF GetNewNote
<1>4. /\ song.ranks \in Ranks
      /\ rr \in Seq(Single) /\ Len(rr) = Len(R) /\ Len(R) \in Nat \ {0}
      /\ \A i \in 1 .. Len(R) :
              /\ rr[i].note = R[i].note /\ R[i].note \in NOTE .. KEYON
              /\ rr[i].instr = IF R[i].instr = 0 THEN Keep
                                      ELSE OrderedNumber(song.ranks, R[i].instr)
              /\ R[i].instr = 0 \/ R[i].instr \in DOMAIN song.ranks
              /\ rr[i].cmd = <<R[i].fx, R[i].data>> /\ <<R[i].fx, R[i].data>> \in Command
  BY <1>0, <1>1, <1>2, OrderedRows
<1>5. k \in 1 .. Len(R) /\ (k > 1 => row = k)
  <2>1. CASE row = 0
    BY <1>0, <1>4, <2>1
  <2>2. CASE row # 0
    <3>1. row \in 2 .. Len(R)
      BY <1>0, <1>2, <2>2 DEF Followed
    <3> QED
      BY <1>0, <1>4, <2>2, <3>1
  <2> QED
    BY <2>1, <2>2
<1>6. PICK T, J, M, b, E : /\ PatternHeld(p, rr, T, J, M, b, E)
                           /\ Before(T, J, M, E, k, pattptr, packedrest)
  <2>1. CASE row = 0
    <3>1. PICK T, J, M, b, E : PatternHeld(p, rr, T, J, M, b, E)
      BY <1>0, <1>1, <1>2, PatternsHeld
    <3>2. J[1] = 1 /\ M[1] = 1 /\ E[0] = 0
      BY <3>1 DEF PatternHeld, Layout, BytesLaid
    <3>3. pattptr = 0 /\ packedrest = 0 /\ k = 1
      BY <1>0, <2>1 DEF Followed
    <3>4. J[1] - 1 = 0
      BY <3>2
    <3>5. Before(T, J, M, E, k, pattptr, packedrest)
      BY <3>2, <3>3, <3>4 DEF Before
    <3> QED
      BY <3>1, <3>5
  <2>2. CASE row # 0
    BY <1>0, <1>2, <2>2 DEF Followed
  <2> QED
    BY <2>1, <2>2
<1>7. k > 1 => Commanded(rr[k - 1])
  BY <1>0, <1>2, <1>5 DEF Followed
<1>8. /\ IF k = Len(rr) THEN pattptr' = 0 /\ packedrest' = 0
         ELSE pattptr' # 0 /\ Before(T, J, M, E, k + 1, pattptr', packedrest')
      /\ instr' = IF rr[k].instr = Keep THEN instr ELSE rr[k].instr
      /\ newfx' = rr[k].cmd[1] /\ (newfx' # 0 => newparam' = Timed(rr[k].cmd))
      /\ Reads(rr[k].note, t, instr', newfx')
  BY <1>3, <1>4, <1>5, <1>6, <1>7, RowFetched
<1>9. /\ instr' = IF R[k].instr = 0 THEN instr ELSE OrderedNumber(song.ranks, R[k].instr)
      /\ newfx' = R[k].fx /\ (newfx' # 0 => newparam' = Timed(<<R[k].fx, R[k].data>>))
      /\ Reads(R[k].note, t, instr', newfx')
  <2>1. /\ rr[k].note = R[k].note /\ rr[k].cmd = <<R[k].fx, R[k].data>>
        /\ rr[k].instr = IF R[k].instr = 0 THEN Keep ELSE OrderedNumber(song.ranks, R[k].instr)
        /\ R[k].instr = 0 \/ R[k].instr \in DOMAIN song.ranks
    BY <1>4, <1>5
  <2>2. R[k].instr # 0 => OrderedNumber(song.ranks, R[k].instr) # Keep
    <3>1. R[k].instr # 0 => OrderedNumber(song.ranks, R[k].instr) \in 1 .. 63
      BY <1>4, <2>1, NumberInRange
    <3> QED
      BY <3>1 DEF Keep
  <2>3. rr[k].cmd[1] = R[k].fx
    BY <2>1
  <2> QED
    BY <1>8, <2>1, <2>2, <2>3
<1>10. \E i \in DOMAIN song.ranks : instr' = OrderedNumber(song.ranks, i)
  <2>1. \E i \in DOMAIN song.ranks : instr = OrderedNumber(song.ranks, i)
    BY DEF Followed
  <2>2. R[k].instr = 0 \/ R[k].instr \in DOMAIN song.ranks
    BY <1>4, <1>5
  <2> QED
    BY <1>9, <2>1, <2>2
<1>11. gate' \in {254, 255}
  <2>1. gate \in {254, 255} /\ R[k].note \in NOTE .. KEYON
    BY <1>4, <1>5 DEF Followed
  <2>2. CASE R[k].note = REST
    BY <1>9, <2>1, <2>2 DEF Reads, REST
  <2>3. CASE R[k].note > REST
    <3>1. R[k].note \in 190 .. 191
      BY <2>1, <2>3 DEF REST, NOTE, KEYON
    <3>2. R[k].note % 16 \in 14 .. 15
      BY <3>1
    <3>3. gate' = 240 + (R[k].note % 16)
      BY <1>9, <3>1 DEF Reads, REST
    <3> QED
      BY <3>2, <3>3
  <2>4. CASE R[k].note # REST /\ ~ (R[k].note > REST)
    <3>1. gate' = NoteGate(instr', newfx').gate
      BY <1>9, <2>4 DEF Reads
    <3>2. gate' = gate \/ gate' = 254
      BY <3>1 DEF NoteGate
    <3> QED
      BY <2>1, <3>2
  <2> QED
    BY <2>2, <2>3, <2>4
<1>12. row' # 0 =>
         /\ pattptr' # 0 /\ row' \in 2 .. Len(R) /\ (row' - 1) = k
         /\ Before(T, J, M, E, row', pattptr', packedrest')
  BY <1>3, <1>4, <1>5, <1>8
<1>13. row' = 0 => pattptr' = 0 /\ packedrest' = 0
  <2>1. row' = 0 => k = Len(rr)
    BY <1>3, <1>4, <1>5
  <2> QED
    BY <1>8, <2>1
<1>14. Followed'
  <2>1. SongFits(song)' /\ (packed = [q \in DOMAIN song.patterns |-> Packed(Ordered(song)[q])])'
    <3>1. SongFits(song')
      BY <1>1, <1>3
    <3>2. packed' = [q \in DOMAIN song'.patterns |-> Packed(Ordered(song')[q])]
      BY <1>1, <1>3
    <3> QED
      BY <3>1, <3>2
  <2>2. RowsIn(p)' = rr
    BY <1>0, <1>3 DEF RowsIn
  <2>3. PatternHeld(p, rr, T, J, M, b, E)'
    BY <1>3, <1>6 DEF PatternHeld
  <2>4. newfx' = rr[k].cmd[1] /\ (newfx' # 0 => newparam' = Timed(rr[k].cmd))
    BY <1>8
  <2>8. Commanded(rr[k])'
    BY <2>4 DEF Commanded
  <2>5. (\E i \in DOMAIN song.ranks : instr = OrderedNumber(song.ranks, i))'
    BY <1>3, <1>10
  <2>6. (row # 0)' => /\ pattptr' # 0 /\ pattnum' \in DOMAIN song'.patterns
                      /\ row' \in 2 .. Len(song'.patterns[pattnum'])
    BY <1>0, <1>2, <1>3, <1>12
  <2>7. pattnum' = p
    BY <1>3
  <2> QED
    BY <1>11, <1>12, <1>13, <2>1, <2>2, <2>3, <2>5, <2>6, <2>7, <2>8 DEF Followed
<1> QED
  BY <1>0, <1>2, <1>5, <1>9, <1>14 DEF Follows

\* The packed number of an instrument gives back the editor's.
LEMMA EditorNumbered ==
  ASSUME song.ranks \in Ranks, NEW i \in DOMAIN song.ranks
  PROVE  EditorNumber(OrderedNumber(song.ranks, i)) = i
<1>1. \A j \in DOMAIN song.ranks : OrderedNumber(song.ranks, j) = OrderedNumber(song.ranks, i) => j = i
  BY OrderedApart
<1> QED
  BY <1>1 DEF EditorNumber

\* The channel starts with the instrument the editor names first by class.
LEMMA FollowedAtFirst ==
  ASSUME \A s \in Songs : SongFits(s), Init
  PROVE  /\ Followed
         /\ Editor!FirstInstrument \in DOMAIN song.ranks
         /\ instr = OrderedNumber(song.ranks, Editor!FirstInstrument)
<1> DEFINE First(i) == \A j \in DOMAIN song.ranks :
              song.ranks[i] < song.ranks[j] \/ (song.ranks[i] = song.ranks[j] /\ i <= j)
<1>1. SongFits(song) /\ instr = 1 /\ gate = 254 /\ row = 0 /\ pattptr = 0 /\ packedrest = 0
  BY DEF Init
<1>2. song.ranks \in Ranks
  BY <1>1 DEF SongFits, Ranks
<1>3. \E i \in DOMAIN song.ranks : First(i)
  BY <1>2, FirstThereIs
<1>4. Editor!FirstInstrument = CHOOSE i \in DOMAIN song.ranks : First(i)
  BY DEF Editor!FirstInstrument
<1> HIDE DEF First
<1>5. Editor!FirstInstrument \in DOMAIN song.ranks /\ First(Editor!FirstInstrument)
  BY <1>3, <1>4
<1>6. OrderedNumber(song.ranks, Editor!FirstInstrument) = 1
  BY <1>2, <1>5, FirstHasOne DEF First
<1>7. packed = [p \in DOMAIN song.patterns |-> Packed(Ordered(song)[p])]
  BY DEF Init
<1> QED
  BY <1>1, <1>5, <1>6, <1>7 DEF Followed

\* What the stream leaves is what the editor's row asks for.
LEMMA VoiceFollows ==
  ASSUME Followed, NEW p, NEW t, GetNewNote(p, t)
  PROVE  Editor!Fetch(p, t)
<1>0. PICK k, R, r : /\ k = IF row = 0 THEN 1 ELSE row
                     /\ R = song.patterns[p] /\ r = R[k]
  OBVIOUS
<1>1. /\ p \in DOMAIN song.patterns /\ k \in 1 .. Len(R)
      /\ IF row = 0 THEN p \in DOMAIN song.patterns /\ t \in Transposes ELSE p = pattnum /\ t = trans
      /\ instr' = IF r.instr = 0 THEN instr ELSE OrderedNumber(song.ranks, r.instr)
      /\ newfx' = r.fx /\ (newfx' # 0 => newparam' = Timed(<<r.fx, r.data>>))
      /\ Reads(r.note, t, instr', newfx')
  BY <1>0, FetchFollows DEF Follows
<1>2. /\ pattnum' = p /\ trans' = t /\ row' = (IF k = Len(R) THEN 0 ELSE k + 1)
      /\ song' = song
  BY <1>0 DEF GetNewNote
<1>3. song.ranks \in Ranks /\ gate \in {254, 255}
  BY DEF Followed, SongFits, Ranks
<1>4. /\ r.note \in NOTE .. KEYON
      /\ r.instr = 0 \/ r.instr \in DOMAIN song.ranks
      /\ <<r.fx, r.data>> \in Command
  <2>1. SongFits(song)
    BY DEF Followed
  <2> QED
    BY <1>0, <1>1, <2>1, OrderedRows
<1>5. PICK i \in DOMAIN song.ranks : instr = OrderedNumber(song.ranks, i)
  BY DEF Followed
<1>6. PICK e : e = IF r.instr = 0 THEN i ELSE r.instr
  OBVIOUS
<1>7. e \in DOMAIN song.ranks /\ instr' = OrderedNumber(song.ranks, e)
  BY <1>1, <1>4, <1>5, <1>6
<1>8. EditorNumber(instr) = i /\ EditorNumber(instr)' = e
  <2>1. EditorNumber(instr) = i
    BY <1>3, <1>5, EditorNumbered
  <2>2. EditorNumber(instr') = e
    BY <1>3, <1>7, EditorNumbered
  <2>3. EditorNumber(instr)' = EditorNumber(instr')
    BY <1>2 DEF EditorNumber
  <2> QED
    BY <2>1, <2>2, <2>3
<1>9. PICK c : c = IF r.fx = 0 THEN <<0, 0>> ELSE <<r.fx, Timed(<<r.fx, r.data>>)>>
  OBVIOUS
<1>10. /\ Editor!StoredCommand(r) = c /\ c[1] = r.fx
       /\ c = IF newfx' = 0 THEN <<0, 0>> ELSE <<newfx', newparam'>>
  <2>1. Timed(<<r.fx, r.data>>) = Editor!Retimed(r.fx, r.data, Editor!TempoPacked)
    BY DEF Timed, Retimed, Editor!Retimed, TempoPacked, Editor!TempoPacked, CMD_SETTEMPO, Editor!CMD_SETTEMPO
  <2> QED
    BY <1>1, <1>9, <2>1 DEF Editor!StoredCommand
<1>11. PICK o, slide, rank : /\ o = OrderedNumber(song.ranks, e) /\ rank = song.ranks[e]
                            /\ slide = (r.fx = CMD_TONEPORTA)
  OBVIOUS
<1>12. /\ NoteGate(o, r.fx).gate = IF slide \/ rank = 2 THEN gate ELSE 254
       /\ NoteGate(o, r.fx).restart = (~ slide /\ rank = 0)
  <2>1. /\ NoteGate(o, r.fx).gate = IF r.fx = CMD_TONEPORTA \/ song.ranks[e] = 2 THEN gate ELSE 254
        /\ NoteGate(o, r.fx).restart = (r.fx # CMD_TONEPORTA /\ song.ranks[e] = 0)
    BY <1>3, <1>7, <1>11, NoteGateIs
  <2> QED
    BY <1>11, <2>1, Zenon
<1>15. PICK g, g2 : g = (gate = 255) /\ g2 = (gate' = 255)
  OBVIOUS
<1> DEFINE pitch == r.note < REST
           note  == IF pitch THEN (r.note + t) % 256 ELSE 0
           on    == CASE r.note = KEYON  -> TRUE
                      [] r.note = KEYOFF -> FALSE
                      [] r.note = REST   -> g
                      [] OTHER -> g /\ ~ (~ slide /\ rank # 2)
           hard  == pitch /\ (~ slide /\ rank = 0)
<1>16. Reads(r.note, t, o, r.fx)
  BY <1>1, <1>7, <1>11
<1>13. newnote' = note /\ g2 = on /\ restart' = hard
  <2>1. REST # KEYOFF /\ REST # KEYON /\ KEYOFF # KEYON
    BY DEF REST, KEYOFF, KEYON
  <2>2. CASE r.note = REST
    <3>1. newnote' = 0 /\ gate' = gate /\ restart' = FALSE
      BY <1>16, <2>2 DEF Reads, REST
    <3>2. pitch = FALSE
      BY <2>2 DEF REST
    <3>3. on = g
      BY <2>1, <2>2, Zenon
    <3>4. g2 = g
      BY <1>15, <3>1, Zenon
    <3> HIDE DEF on, pitch
    <3>5. note = 0 /\ hard = FALSE
      BY <3>2, Zenon
    <3> QED
      BY <3>1, <3>3, <3>4, <3>5
  <2>3. CASE r.note = KEYOFF
    <3>1. newnote' = 0 /\ gate' = 240 + (r.note % 16) /\ restart' = FALSE
      BY <1>16, <2>3 DEF Reads, REST, KEYOFF
    <3>2. pitch = FALSE
      BY <2>3 DEF REST, KEYOFF
    <3>3. on = FALSE
      BY <2>1, <2>3, Zenon
    <3>4. gate' # 255
      BY <2>3, <3>1 DEF KEYOFF
    <3>5. g2 = FALSE
      BY <1>15, <3>4, Zenon
    <3> HIDE DEF on, pitch
    <3>6. note = 0 /\ hard = FALSE
      BY <3>2, Zenon
    <3> QED
      BY <3>1, <3>3, <3>5, <3>6
  <2>4. CASE r.note = KEYON
    <3>1. newnote' = 0 /\ gate' = 240 + (r.note % 16) /\ restart' = FALSE
      BY <1>16, <2>4 DEF Reads, REST, KEYON
    <3>2. pitch = FALSE
      BY <2>4 DEF REST, KEYON
    <3>3. on = TRUE
      BY <2>1, <2>4, Zenon
    <3>4. gate' = 255
      BY <2>4, <3>1 DEF KEYON
    <3>5. g2 = TRUE
      BY <1>15, <3>4, Zenon
    <3> HIDE DEF on, pitch
    <3>6. note = 0 /\ hard = FALSE
      BY <3>2, Zenon
    <3> QED
      BY <3>1, <3>3, <3>5, <3>6
  <2>5. CASE r.note < REST
    <3>1. r.note # REST /\ ~ (r.note > REST) /\ r.note # KEYOFF /\ r.note # KEYON
      BY <1>4, <2>5 DEF REST, NOTE, KEYON, KEYOFF
    <3>2. /\ newnote' = (r.note + t) % 256
          /\ gate' = NoteGate(o, r.fx).gate
          /\ restart' = NoteGate(o, r.fx).restart
      BY <1>16, <3>1, Zenon DEF Reads
    <3>3. pitch = TRUE
      BY <2>5
    <3>4. on = (g /\ ~ (~ slide /\ rank # 2))
      BY <3>1, Zenon
    <3>5. gate' = IF slide \/ rank = 2 THEN gate ELSE 254
      BY <1>12, <3>2
    <3>6. g2 = (g /\ ~ (~ slide /\ rank # 2))
      <4>1. CASE slide \/ rank = 2
        BY <1>15, <3>5, <4>1, Zenon
      <4>2. CASE ~ (slide \/ rank = 2)
        <5>1. gate' # 255
          BY <3>5, <4>2
        <5> QED
          BY <1>15, <4>2, <5>1, Zenon
      <4> QED
        BY <4>1, <4>2
    <3> HIDE DEF on, pitch
    <3>7. note = (r.note + t) % 256 /\ hard = (~ slide /\ rank = 0)
      BY <1>11, <3>3, Zenon
    <3> QED
      BY <1>12, <3>2, <3>4, <3>6, <3>7, Zenon
  <2>6. r.note = REST \/ r.note = KEYOFF \/ r.note = KEYON \/ r.note < REST
    BY <1>4 DEF REST, KEYOFF, KEYON, NOTE
  <2> HIDE DEF note, on, hard
  <2> QED
    BY <2>2, <2>3, <2>4, <2>5, <2>6
<1>17. PICK voice : voice = [instr |-> EditorNumber(instr),
                             cmd |-> IF newfx = 0 THEN <<0, 0>> ELSE <<newfx, newparam>>,
                             note |-> newnote, gate |-> gate = 255, restart |-> restart]
  OBVIOUS
<1>18. Editor!Sounded(voice, r, t)
         = [instr |-> e, cmd |-> c, note |-> note, gate |-> on, restart |-> hard]
  <2>1. voice.instr = i /\ voice.gate = g
    BY <1>8, <1>15, <1>17, Zenon
  <2>2. /\ Editor!IsPitch(r.note) = pitch
        /\ Editor!CMD_TONEPORTA = CMD_TONEPORTA /\ Editor!REST = REST
        /\ Editor!KEYON = KEYON /\ Editor!KEYOFF = KEYOFF
    BY DEF Editor!IsPitch, Editor!CMD_TONEPORTA, CMD_TONEPORTA, Editor!REST, REST,
           Editor!KEYON, KEYON, Editor!KEYOFF, KEYOFF
  <2>3. Editor!StoredCommand(r) = c /\ c[1] = r.fx
    BY <1>10
  <2>4. (IF r.instr = 0 THEN voice.instr ELSE r.instr) = e
    BY <1>6, <2>1
  <2>5. Editor!Releases(song.ranks[e], r.fx) = (~ slide /\ rank # 2)
    BY <1>11, <2>2, Zenon DEF Editor!Releases
  <2>6. Editor!Restarts(song.ranks[e], r.fx) = (~ slide /\ rank = 0)
    BY <1>11, <2>2, Zenon DEF Editor!Restarts
  <2> HIDE DEF pitch
  <2>7. Editor!Sounded(voice, r, t) =
          [instr |-> e, cmd |-> c,
           note  |-> IF pitch THEN (r.note + t) % 256 ELSE 0,
           gate  |-> CASE r.note = KEYON  -> TRUE
                       [] r.note = KEYOFF -> FALSE
                       [] r.note = REST   -> g
                       [] OTHER -> g /\ ~ (~ slide /\ rank # 2),
           restart |-> pitch /\ (~ slide /\ rank = 0)]
    BY <2>1, <2>2, <2>3, <2>4, <2>5, <2>6, Zenon DEF Editor!Sounded
  <2> QED
    BY <2>7, Zenon
<1> HIDE DEF note, on, hard
<1>19. [instr |-> EditorNumber(instr),
        cmd |-> IF newfx = 0 THEN <<0, 0>> ELSE <<newfx, newparam>>,
        note |-> newnote, gate |-> gate = 255, restart |-> restart]'
         = Editor!Sounded(voice, r, t)
  <2>1. [instr |-> EditorNumber(instr)',
         cmd |-> IF newfx' = 0 THEN <<0, 0>> ELSE <<newfx', newparam'>>,
         note |-> newnote', gate |-> gate' = 255, restart |-> restart']
          = [instr |-> e, cmd |-> c, note |-> note, gate |-> on, restart |-> hard]
    BY <1>8, <1>10, <1>13, <1>15, Zenon
  <2> QED
    BY <1>18, <2>1, Zenon
<1>20. r = song.patterns[p][IF row = 0 THEN 1 ELSE row]
  BY <1>0
<1>21. [instr |-> EditorNumber(instr),
        cmd |-> IF newfx = 0 THEN <<0, 0>> ELSE <<newfx, newparam>>,
        note |-> newnote, gate |-> gate = 255, restart |-> restart]'
         = Editor!Sounded([instr |-> EditorNumber(instr),
                           cmd |-> IF newfx = 0 THEN <<0, 0>> ELSE <<newfx, newparam>>,
                           note |-> newnote, gate |-> gate = 255, restart |-> restart],
                          song.patterns[p][IF row = 0 THEN 1 ELSE row], t)
  BY <1>17, <1>19, <1>20, Zenon
<1>22. row' = IF (IF row = 0 THEN 1 ELSE row) = Len(song.patterns[p]) THEN 0
              ELSE (IF row = 0 THEN 1 ELSE row) + 1
  BY <1>0, <1>2, Zenon
<1>23. UNCHANGED <<song.patterns, song.ranks>>
  BY <1>2, Zenon
<1> QED
  BY <1>1, <1>2, <1>21, <1>22, <1>23, Zenon DEF Editor!Fetch

-----------------------------------------------------------------------------
(* The bytes read back.                                                    *)

\* A command as its bytes are read, and the row it is in.
PlainCommand(c) ==
  IF c[1] = 0 THEN <<0, 0>> ELSE <<c[1], Retimed(c[1], Timed(c), TempoUnpacked)>>

ReadAs(r) ==
  TypedRow(r.note, r.instr, IF r.cmd = Held THEN Held ELSE PlainCommand(r.cmd), r.length)

\* The bytes d hold the row r from i on.
RowInBytes(d, r, i) == \A m \in 1 .. Len(RowBytes(r)) : d[(i - 1) + m] = RowBytes(r)[m]

\* A row's bytes give back the row.
LEMMA RowReadBack ==
  ASSUME NEW r, Sound(r), NEW d, NEW i \in Nat \ {0}, RowInBytes(d, r, i)
  PROVE  /\ ReadRow(d, i) = [row |-> ReadAs(r), next |-> i + Len(RowBytes(r))]
         /\ i + (IF d[i] < FX THEN 1 ELSE 0) <= (i - 1) + Len(RowBytes(r))
         /\ d[i] > 0
<1>0. PICK p, fx, k : p = i + Lead(r) /\ fx = r.cmd[1] /\ k = CommandBytesRead(fx)
  OBVIOUS
<1>1. r \in Typed
  BY DEF Sound
<1>3. /\ RowBytes(r)[1] > 0
      /\ r.length > 1 => RowBytes(r)[1] = 256 - r.length /\ Len(RowBytes(r)) = 1
      /\ r.length = 1 => RowBytes(r)[1] < PACKEDREST
      /\ r.length = 1 /\ r.instr # Keep => RowBytes(r)[1] = r.instr
      /\ r.length = 1 /\ r.instr = Keep => RowBytes(r)[1] = Body(r)[1]
      /\ r.length = 1 => Body(r)[1] \in FX .. KEYON
  BY FirstByte
<1>4. /\ Len(RowBytes(r)) = Lead(r) + Len(Body(r)) /\ Len(Body(r)) \in Nat \ {0}
      /\ \A m \in 1 .. Len(Body(r)) : RowBytes(r)[Lead(r) + m] = Body(r)[m]
      /\ Lead(r) = IF r.instr = Keep THEN 0 ELSE 1
  BY BytesOfRow, BodyIs DEF Lead
<1>5. r.instr = Keep \/ r.instr \in 1 .. 63
  BY <1>1 DEF Typed
<1>6. r.note \in NOTE .. KEYON
  BY <1>1 DEF Typed
<1>7. r.cmd # Held => fx \in 0 .. 15
  BY <1>0, <1>1, Stated DEF Typed
<1>8. /\ r.length = 1 /\ r.cmd = Held => Len(Body(r)) = 1 /\ Body(r)[1] = r.note
      /\ r.length = 1 /\ r.cmd # Held =>
           /\ Body(r)[1] = (IF r.note = REST THEN FXONLY ELSE FX) + fx
           /\ fx # 0 => Body(r)[2] = Timed(r.cmd)
           /\ Len(Body(r)) = k + IF r.note = REST THEN 0 ELSE 1
           /\ r.note # REST => Body(r)[k + 1] = r.note
  BY <1>0, BodyIs
<1>9. RestRun \in Nat /\ RestRun <= 64 /\ PACKEDREST = 256 - RestRun
  BY RestRunAssumption DEF PACKEDREST
<1>10. p \in Nat
  BY <1>0, <1>4
<1>11. d[i] = RowBytes(r)[1]
  <2>1. 1 \in 1 .. Len(RowBytes(r)) /\ (i - 1) + 1 = i
    BY <1>4
  <2> QED
    BY <2>1 DEF RowInBytes
<1>12. ASSUME NEW m \in 1 .. Len(Body(r)) PROVE d[(p + m) - 1] = Body(r)[m]
  <2>1. Lead(r) \in Nat /\ Lead(r) + m \in 1 .. Len(RowBytes(r))
    BY <1>4
  <2>2. d[(i - 1) + (Lead(r) + m)] = RowBytes(r)[Lead(r) + m]
    BY <2>1 DEF RowInBytes
  <2>3. (i - 1) + (Lead(r) + m) = (p + m) - 1
    BY <1>0, <2>1
  <2> QED
    BY <1>4, <2>2, <2>3
<1>13. d[p] = Body(r)[1]
  <2>1. 1 \in 1 .. Len(Body(r)) /\ (p + 1) - 1 = p
    BY <1>4, <1>10
  <2> QED
    BY <1>12, <2>1
<1>14. CASE r.length > 1
  <2>1. r.note = REST /\ r.instr = Keep /\ r.cmd = Held /\ r.length \in 1 .. RestRun
    BY <1>1, <1>14 DEF Sound, BareRest, Typed
  <2>2. d[i] = 256 - r.length /\ Len(RowBytes(r)) = 1
    BY <1>3, <1>11, <1>14
  <2>3. ~ (d[i] < FX) /\ d[i] >= PACKEDREST /\ 256 - d[i] = r.length /\ d[i] > 0
    BY <1>9, <2>1, <2>2 DEF FX
  <2>4. ReadRow(d, i) = [row |-> TypedRow(REST, Keep, Held, r.length), next |-> i + 1]
    <3>1. ~ (d[i] < PACKEDREST) /\ ~ (d[i] \in FXONLY .. NOTE - 1)
      BY <1>9, <2>1, <2>2 DEF FXONLY, NOTE
    <3> QED
      BY <2>3, <3>1 DEF ReadRow
  <2>5. TypedRow(REST, Keep, Held, r.length) = ReadAs(r)
    BY <2>1 DEF ReadAs
  <2> QED
    BY <2>2, <2>3, <2>4, <2>5
<1>15. CASE r.length = 1
  <2> DEFINE ins == d[i] < FX
  <2>1. /\ ins <=> r.instr # Keep
        /\ r.instr # Keep => d[i] = r.instr
        /\ d[i] > 0
        /\ ins = TRUE \/ ins = FALSE
    <3>1. CASE r.instr = Keep
      <4>1. d[i] \in 64 .. 191
        BY <1>3, <1>11, <1>15, <3>1 DEF FX, KEYON
      <4> QED
        BY <3>1, <4>1 DEF FX
    <3>2. CASE r.instr # Keep
      <4>1. d[i] \in 1 .. 63 /\ d[i] = r.instr
        BY <1>3, <1>5, <1>11, <1>15, <3>2
      <4> QED
        BY <3>2, <4>1 DEF FX
    <3> QED
      BY <3>1, <3>2
  <2> HIDE DEF ins
  <2>2. /\ (IF ins THEN i + 1 ELSE i) = p /\ (IF ins THEN d[i] ELSE Keep) = r.instr
        /\ i + (IF ins THEN 1 ELSE 0) <= (i - 1) + Len(RowBytes(r))
    BY <1>0, <1>4, <2>1
  <2>3. ~ (~ ins /\ d[p] >= PACKEDREST)
    <3>1. r.instr = Keep => p = i
      BY <1>0, <1>4
    <3>2. d[i] < PACKEDREST
      BY <1>3, <1>11, <1>15
    <3>3. d[p] \in 64 .. 191
      BY <1>3, <1>13, <1>15 DEF FX, KEYON
    <3> QED
      BY <1>9, <2>1, <3>1, <3>2, <3>3
  <2>4. ReadRow(d, i) =
          IF d[p] >= NOTE /\ (ins \/ d[p] < PACKEDREST)
          THEN [row |-> TypedRow(d[p], r.instr, Held, 1), next |-> p + 1]
          ELSE IF d[p] \in FXONLY .. NOTE - 1
          THEN [row |-> TypedRow(REST, r.instr, ReadCommand(d, p), 1), next |-> p + CommandSize(d, p)]
          ELSE [row |-> TypedRow(d[p + CommandSize(d, p)], r.instr, ReadCommand(d, p), 1),
                next |-> (p + CommandSize(d, p)) + 1]
    <3>1. d[p] >= NOTE => ~ (d[p] \in FXONLY .. NOTE - 1)
      <4>1. d[p] \in 64 .. 191
        BY <1>3, <1>13, <1>15 DEF FX, KEYON
      <4> QED
        BY <4>1 DEF NOTE, FXONLY
    <3> QED
      BY <2>2, <2>3, <3>1 DEF ReadRow, ins
  <2>5. i + Len(RowBytes(r)) = p + Len(Body(r))
    BY <1>0, <1>4
  <2>6. CASE r.cmd = Held
    <3>1. d[p] = r.note /\ d[p] \in 96 .. 191 /\ Len(Body(r)) = 1
      BY <1>6, <1>8, <1>13, <1>15, <2>6 DEF NOTE, KEYON
    <3>2. d[p] >= NOTE /\ d[p] < PACKEDREST
      BY <1>9, <3>1 DEF NOTE
    <3>3. ReadRow(d, i) = [row |-> TypedRow(r.note, r.instr, Held, 1), next |-> p + 1]
      BY <2>4, <3>1, <3>2
    <3>4. TypedRow(r.note, r.instr, Held, 1) = ReadAs(r)
      BY <1>15, <2>6 DEF ReadAs
    <3> QED
      BY <2>1, <2>2, <2>5, <3>1, <3>3, <3>4 DEF ins
  <2>7. CASE r.cmd # Held
    <3> DEFINE base == IF r.note = REST THEN 80 ELSE 64
    <3>1. d[p] = base + fx /\ fx \in 0 .. 15 /\ base \in {64, 80}
      BY <1>7, <1>8, <1>13, <1>15, <2>7 DEF FX, FXONLY
    <3> HIDE DEF base
    <3>2. d[p] % 16 = fx /\ d[p] \in base .. base + 15 /\ ~ (d[p] >= NOTE)
      <4>1. CASE base = 64
        BY <3>1, <4>1 DEF NOTE
      <4>2. CASE base = 80
        BY <3>1, <4>2 DEF NOTE
      <4> QED
        BY <3>1, <4>1, <4>2
    <3>3. CommandSize(d, p) = k /\ k \in 1 .. 2 /\ (fx # 0 => k = 2)
      BY <1>0, <3>2 DEF CommandSize, CommandBytesRead
    <3>4. fx # 0 => d[p + 1] = Timed(r.cmd)
      <4>1. fx # 0 => 2 \in 1 .. Len(Body(r)) /\ (p + 2) - 1 = p + 1
        BY <1>4, <1>8, <1>10, <1>15, <2>7, <3>3
      <4> QED
        BY <1>8, <1>12, <1>15, <2>7, <4>1
    <3>5. ReadCommand(d, p) = PlainCommand(r.cmd)
      <4>1. fx # 0 => Retimed(fx, d[p + 1], TempoUnpacked) = Retimed(fx, Timed(r.cmd), TempoUnpacked)
        BY <3>4 DEF Retimed
      <4>2. ReadCommand(d, p) = IF fx = 0 THEN <<0, 0>> ELSE <<fx, Retimed(fx, d[p + 1], TempoUnpacked)>>
        BY <3>2 DEF ReadCommand, Retimed
      <4>3. PlainCommand(r.cmd) = IF fx = 0 THEN <<0, 0>> ELSE <<fx, Retimed(fx, Timed(r.cmd), TempoUnpacked)>>
        BY <1>0 DEF PlainCommand, Retimed
      <4> QED
        BY <4>1, <4>2, <4>3
    <3>6. ReadAs(r) = TypedRow(r.note, r.instr, PlainCommand(r.cmd), 1)
      BY <1>15, <2>7 DEF ReadAs
    <3>7. CASE r.note = REST
      <4>1. d[p] \in FXONLY .. NOTE - 1
        BY <3>2, <3>7 DEF base, FXONLY, NOTE
      <4>2. Len(Body(r)) = k
        BY <1>8, <1>15, <2>7, <3>3, <3>7
      <4>3. ReadRow(d, i) = [row |-> TypedRow(REST, r.instr, PlainCommand(r.cmd), 1), next |-> p + k]
        BY <2>4, <3>2, <3>3, <3>5, <4>1
      <4> QED
        BY <2>1, <2>2, <2>5, <3>6, <3>7, <4>2, <4>3 DEF ins
    <3>8. CASE r.note # REST
      <4>1. ~ (d[p] \in FXONLY .. NOTE - 1)
        BY <3>2, <3>8 DEF base, FXONLY, NOTE
      <4>2. Len(Body(r)) = k + 1 /\ Body(r)[k + 1] = r.note
        BY <1>8, <1>15, <2>7, <3>8
      <4>3. d[p + k] = r.note
        <5>1. k + 1 \in 1 .. Len(Body(r)) /\ (p + (k + 1)) - 1 = p + k
          BY <1>10, <3>3, <4>2
        <5> QED
          BY <1>12, <4>2, <5>1
      <4>4. ReadRow(d, i) = [row |-> TypedRow(r.note, r.instr, PlainCommand(r.cmd), 1), next |-> (p + k) + 1]
        BY <2>4, <3>2, <3>3, <3>5, <4>1, <4>3
      <4>5. (p + k) + 1 = p + Len(Body(r))
        BY <1>10, <3>3, <4>2
      <4> QED
        BY <2>1, <2>2, <2>5, <3>6, <4>4, <4>5 DEF ins
    <3> QED
      BY <3>7, <3>8
  <2> QED
    BY <2>6, <2>7
<1>16. r.length > 1 \/ r.length = 1
  <2>1. r.length \in 1 .. RestRun
    BY <1>1 DEF Typed
  <2> QED
    BY <1>9, <2>1
<1> QED
  BY <1>14, <1>15, <1>16

\* One read of ReadFrom, f holding what is read from later positions.
ReadOn(P, f, i) ==
  IF i > Len(P) \/ (i > 1 /\ P[i] = 0) THEN <<>>
  ELSE LET r == ReadRow(P \o <<0, 0, 0>>, i)
       IN IF ~ (i + (IF P[i] < FX THEN 1 ELSE 0) <= Len(P)) \/ r.next > Len(P) + 1 THEN <<>>
          ELSE <<r.row>> \o f[r.next]

\* A row read is at least a byte, so the reading has an end, and there is one.
LEMMA NextRead ==
  ASSUME NEW d, NEW i \in Nat, NEW l \in Nat
  PROVE  /\ ReadRow(d, i).next \in Int
         /\ ReadRow(d, i).next <= l => ReadRow(d, i).next \in i + 1 .. l
<1>1. ReadRow(d, i).next \in {i + 1, i + 2, i + 3, i + 4}
  BY DEF ReadRow, CommandSize
<1> QED
  BY <1>1

LEMMA ReadingExists ==
  ASSUME NEW P \in Seq(Nat)
  PROVE  \E f : f = [i \in 1 .. Len(P) + 3 |-> ReadOn(P, f, i)]
<1> DEFINE l     == Len(P) + 3
           Is(f, n) == f = [i \in (l - n) + 1 .. l |-> ReadOn(P, f, i)]
           Bad == {n \in 0 .. l : ~ \E f : Is(f, n)}
<1>1. Len(P) \in Nat /\ l \in Nat /\ l > 0
  OBVIOUS
<1>2. \E f : Is(f, 0)
  <2> DEFINE f == [i \in (l - 0) + 1 .. l |-> <<>>]
  <2>1. (l - 0) + 1 .. l = {}
    BY <1>1
  <2>2. Is(f, 0)
    <3> HIDE DEF l
    <3> QED
      BY <2>1
  <2> QED
    BY <2>2
<1>3. ASSUME NEW n \in 0 .. l - 1, \E f : Is(f, n) PROVE \E f : Is(f, n + 1)
  <2>1. PICK e : Is(e, n)
    BY <1>3
  <2>2. PICK m : m = l - n /\ m \in 1 .. l /\ (l - (n + 1)) + 1 = m /\ (l - n) + 1 = m + 1
    BY <1>1
  <2> DEFINE h == [i \in m .. l |-> IF i = m THEN ReadOn(P, e, m) ELSE e[i]]
  <2>3. \A i \in m + 1 .. l : h[i] = e[i] /\ e[i] = ReadOn(P, e, i)
    <3>1. \A i \in m + 1 .. l : e[i] = ReadOn(P, e, i)
      <4> HIDE DEF l
      <4> QED
        BY <2>1, <2>2
    <3> QED
      BY <1>1, <2>2, <3>1
  <2>4. h[m] = ReadOn(P, e, m)
    BY <2>2
  <2> HIDE DEF h
  <2>5. ASSUME NEW i \in m .. l PROVE ReadOn(P, h, i) = ReadOn(P, e, i)
    <3> DEFINE r == ReadRow(P \o <<0, 0, 0>>, i)
    <3>1. i \in Nat /\ Len(P) + 1 \in Nat
      BY <1>1, <2>2
    <3>2. r.next <= Len(P) + 1 => r.next \in i + 1 .. Len(P) + 1
      BY <3>1, NextRead
    <3>3. r.next <= Len(P) + 1 => h[r.next] = e[r.next]
      <4> HIDE DEF r
      <4>1. r.next <= Len(P) + 1 => r.next \in m + 1 .. l
        BY <1>1, <2>2, <3>2
      <4> QED
        BY <2>3, <4>1
    <3>4. r.next \in Int
      BY <3>1, NextRead
    <3> HIDE DEF r
    <3>5. ~ (r.next > Len(P) + 1) => h[r.next] = e[r.next]
      BY <1>1, <3>3, <3>4
    <3> QED
      BY <3>5 DEF ReadOn, r
  <2>6. \A i \in m .. l : h[i] = ReadOn(P, h, i)
    <3> SUFFICES ASSUME NEW i \in m .. l PROVE h[i] = ReadOn(P, h, i)
      OBVIOUS
    <3>1. i = m \/ i \in m + 1 .. l
      BY <1>1, <2>2
    <3> QED
      BY <2>3, <2>4, <2>5, <3>1
  <2>7. Is(h, n + 1)
    <3>1. h = [i \in m .. l |-> ReadOn(P, h, i)]
      BY <2>6 DEF h
    <3> HIDE DEF l
    <3> QED
      BY <2>2, <3>1
  <2> QED
    BY <2>7
<1>4. Bad = {}
  <2> SUFFICES ASSUME Bad # {} PROVE FALSE
    OBVIOUS
  <2>1. PICK n \in Bad : \A m \in Bad : n <= m
    <3>1. Bad \subseteq Nat
      BY <1>1
    <3> HIDE DEF Bad
    <3> QED
      BY <3>1, LeastOf
  <2> HIDE DEF Is
  <2>2. n \in 0 .. l /\ ~ \E f : Is(f, n)
    BY <2>1
  <2>3. n # 0
    BY <1>2, <2>2
  <2> HIDE DEF l
  <2>4. n - 1 \in 0 .. l - 1 /\ n - 1 \in 0 .. l /\ n - 1 < n /\ (n - 1) + 1 = n
    BY <1>1, <2>2, <2>3
  <2>5. ~ (n - 1 \in Bad)
    <3> HIDE DEF Bad
    <3> QED
      BY <1>1, <2>1, <2>2, <2>4
  <2>6. \E f : Is(f, n - 1)
    BY <2>4, <2>5
  <2> QED
    BY <1>3, <2>2, <2>4, <2>6
<1>5. PICK f : Is(f, l)
  <2> HIDE DEF Is
  <2>1. l \in 0 .. l
    BY <1>1
  <2> HIDE DEF l
  <2> QED
    BY <1>4, <2>1
<1>6. f = [i \in 1 .. l |-> ReadOn(P, f, i)]
  <2>1. (l - l) + 1 = 1
    BY <1>1
  <2> HIDE DEF l
  <2> QED
    BY <1>5, <2>1
<1> QED
  BY <1>6

\* A pattern's bytes give back its packed rows, every one and no more.
LEMMA RowsReadBack ==
  ASSUME NEW p, NEW rr, NEW T, NEW J, NEW M, NEW b, NEW E, PatternHeld(p, rr, T, J, M, b, E)
  PROVE  PatternRowsRead(packed[p]) = [j \in 1 .. Len(T) |-> ReadAs(T[j])]
<1>a. PICK P : P = packed[p]
  OBVIOUS
<1> SUFFICES ASSUME Len(T) \in Nat \ {0}, \A j \in 1 .. Len(T) : Sound(T[j]),
                    BytesLaid(T, b, E, Len(T)), Len(b) <= Reach,
                    P = IF Len(b) >= Reach THEN b ELSE Append(b, 0)
             PROVE  PatternRowsRead(P) = [j \in 1 .. Len(T) |-> ReadAs(T[j])]
  <2>1. T \in Seq(Typed) /\ Len(T) > 0 /\ Layout(rr, T, J, M, Len(rr))
    BY DEF Layout, PatternHeld
  <2>2. \A j \in 1 .. Len(T) : Sound(T[j])
    BY <2>1, RowsSound
  <2> QED
    BY <1>a, <2>1, <2>2 DEF PatternHeld
<1>0. PICK n, l, X : n = Len(T) /\ l = Len(P) /\ X = {ReadAs(T[j]) : j \in 1 .. Len(T)}
  OBVIOUS
<1>1. Reach \in Nat /\ Reach > 0 /\ n \in Nat /\ n > 0
  BY <1>0, ReachAssumption
<1>2. /\ b \in Seq(Nat) /\ E \in [0 .. n -> Nat] /\ E[0] = 0 /\ E[n] = Len(b)
  BY <1>0 DEF BytesLaid
<1>3. ASSUME NEW j \in 1 .. n
      PROVE  /\ E[j] = E[j - 1] + Len(RowBytes(T[j])) /\ E[j] <= Len(b)
             /\ \A i \in 1 .. Len(RowBytes(T[j])) : b[E[j - 1] + i] = RowBytes(T[j])[i]
             /\ E[j - 1] \in Nat /\ E[j] \in Nat /\ Len(RowBytes(T[j])) \in Nat \ {0}
  <2>1. /\ E[j] = E[j - 1] + Len(RowBytes(T[j])) /\ E[j] <= Len(b)
        /\ \A i \in 1 .. Len(RowBytes(T[j])) : b[E[j - 1] + i] = RowBytes(T[j])[i]
    BY <1>0 DEF BytesLaid
  <2>2. j \in 0 .. n /\ j - 1 \in 0 .. n
    BY <1>1
  <2>3. E[j - 1] \in Nat /\ E[j] \in Nat
    BY <1>2, <2>2
  <2>4. Sound(T[j])
    BY <1>0
  <2>5. Len(RowBytes(T[j])) = Lead(T[j]) + Len(Body(T[j])) /\ Len(Body(T[j])) > 0
    BY <2>4, BytesOfRow
  <2>6. Lead(T[j]) \in Nat /\ Len(Body(T[j])) \in Nat
    BY <2>4, BodyIs DEF Lead
  <2> QED
    BY <2>1, <2>3, <2>5, <2>6
<1>4. Len(b) \in Nat /\ Len(b) > 0
  <2>1. 1 \in 1 .. n
    BY <1>1
  <2> QED
    BY <1>2, <1>3, <2>1
<1>5. /\ P \in Seq(Nat) /\ l \in Nat /\ Len(b) <= l /\ l <= Reach
      /\ \A i \in 1 .. Len(b) : P[i] = b[i]
      /\ l = Len(b) \/ (l = Len(b) + 1 /\ P[l] = 0)
  BY <1>0, <1>1, <1>2, <1>4
<1>6. SubSeq(P, 1, IF Len(P) < Reach THEN Len(P) ELSE Reach) = P
  <2>1. (IF Len(P) < Reach THEN Len(P) ELSE Reach) = Len(P)
    BY <1>0, <1>1, <1>5
  <2> QED
    BY <1>5, <2>1, SubSeqFull
<1> DEFINE Is(f) == f = [i \in 1 .. Len(P) + 3 |-> ReadOn(P, f, i)]
           read  == CHOOSE f : Is(f)
<1>7. PatternRowsRead(P) = read[1]
  <2>1. PatternRowsRead(P) = ReadFrom(P)
    BY <1>6 DEF PatternRowsRead
  <2>2. ReadFrom(P) = read[1]
    BY DEF ReadFrom, ReadOn
  <2> HIDE DEF read
  <2> QED
    BY <2>1, <2>2
<1>8. Is(read)
  <2>1. \E f : Is(f)
    BY <1>5, ReadingExists
  <2> HIDE DEF Is
  <2> QED
    BY <2>1
<1>9. \A i \in 1 .. l + 3 : read[i] = ReadOn(P, read, i)
  <2> HIDE DEF read
  <2> QED
    BY <1>0, <1>8
<1> HIDE DEF read, Is
<1> DEFINE Rest(j) == [m \in 1 .. n - j |-> ReadAs(T[j + m])]
           Good(j) == read[E[j] + 1] = Rest(j)
<1>10. ASSUME NEW j \in 0 .. n PROVE Rest(j) \in Seq(X) /\ Len(Rest(j)) = n - j
  <2>1. n - j \in Nat /\ \A m \in 1 .. n - j : j + m \in 1 .. n
    BY <1>1
  <2>2. \A m \in 1 .. n - j : ReadAs(T[j + m]) \in X
    BY <1>0, <2>1
  <2> QED
    BY <2>1, <2>2
<1>11. Good(n)
  <2>1. n - n = 0 /\ 1 .. 0 = {}
    BY <1>1
  <2>2. Rest(n) = <<>>
    <3>1. Rest(n) \in Seq(X) /\ Len(Rest(n)) = 0
      BY <1>1, <1>10, <2>1
    <3> HIDE DEF Rest
    <3> QED
      BY <3>1
  <2>3. E[n] + 1 \in 1 .. l + 3 /\ E[n] + 1 > 1 /\ E[n] + 1 \in Nat
    BY <1>2, <1>4, <1>5
  <2>4. E[n] + 1 > Len(P) \/ P[E[n] + 1] = 0
    BY <1>0, <1>2, <1>4, <1>5
  <2>5. read[E[n] + 1] = <<>>
    BY <1>9, <2>3, <2>4 DEF ReadOn
  <2> QED
    BY <2>2, <2>5
<1>12. ASSUME NEW j \in 1 .. n, Good(j) PROVE Good(j - 1)
  <2>1. PICK i, r, d : i = E[j - 1] + 1 /\ r = T[j] /\ d = P \o <<0, 0, 0>>
    OBVIOUS
  <2>2. /\ Sound(r) /\ i \in Nat \ {0} /\ i - 1 = E[j - 1] /\ Len(RowBytes(r)) \in Nat \ {0}
        /\ E[j] = (i - 1) + Len(RowBytes(r)) /\ E[j] <= l
        /\ \A m \in 1 .. Len(RowBytes(r)) : b[(i - 1) + m] = RowBytes(r)[m]
    <3>1. /\ E[j] = E[j - 1] + Len(RowBytes(r)) /\ E[j] <= Len(b)
          /\ \A m \in 1 .. Len(RowBytes(r)) : b[E[j - 1] + m] = RowBytes(r)[m]
          /\ E[j - 1] \in Nat /\ E[j] \in Nat /\ Len(RowBytes(r)) \in Nat \ {0}
      BY <1>3, <2>1
    <3>2. Sound(r)
      BY <1>0, <2>1
    <3>3. i \in Nat \ {0} /\ i - 1 = E[j - 1]
      <4>1. E[j - 1] \in Nat /\ i = E[j - 1] + 1
        BY <1>3, <2>1
      <4> QED
        BY <4>1
    <3>4. E[j] <= l
      BY <1>4, <1>5, <3>1
    <3> QED
      BY <3>1, <3>2, <3>3, <3>4
  <2>3. /\ \A m \in 1 .. l : d[m] = P[m]
        /\ i \in 1 .. l
    <3>1. \A m \in 1 .. l : d[m] = P[m]
      <4>1. P \in Seq(Nat) /\ <<0, 0, 0>> \in Seq(Nat)
        BY <1>5
      <4> QED
        BY <1>0, <1>5, <2>1, <4>1
    <3>2. E[j] \in Nat /\ i <= E[j] /\ i >= 1
      BY <1>3, <2>2
    <3>3. i \in 1 .. l
      BY <1>5, <2>2, <3>2
    <3> QED
      BY <3>1, <3>3
  <2>4. RowInBytes(d, r, i)
    <3> SUFFICES ASSUME NEW m \in 1 .. Len(RowBytes(r)) PROVE d[(i - 1) + m] = RowBytes(r)[m]
      BY DEF RowInBytes
    <3>1. (i - 1) + m \in 1 .. Len(b) /\ (i - 1) + m \in 1 .. l
      <4>1. E[j] <= Len(b) /\ E[j] \in Nat /\ i \in Nat /\ i >= 1
        BY <1>3, <2>2
      <4>2. (i - 1) + m \in Nat /\ (i - 1) + m >= 1 /\ (i - 1) + m <= E[j]
        BY <2>2, <4>1
      <4> QED
        BY <1>4, <1>5, <4>1, <4>2
    <3> QED
      BY <1>5, <2>2, <2>3, <3>1
  <2>5. /\ ReadRow(d, i) = [row |-> ReadAs(r), next |-> i + Len(RowBytes(r))]
        /\ i + (IF d[i] < FX THEN 1 ELSE 0) <= (i - 1) + Len(RowBytes(r))
        /\ d[i] > 0
    BY <2>2, <2>4, RowReadBack
  <2>6. i + Len(RowBytes(r)) = E[j] + 1 /\ ~ (E[j] + 1 > l + 1)
    BY <1>5, <2>2
  <2>7. /\ ReadRow(d, i).row = ReadAs(r) /\ ReadRow(d, i).next = E[j] + 1
        /\ ~ (i > l) /\ P[i] = d[i] /\ ~ (P[i] = 0)
    BY <1>5, <2>3, <2>5, <2>6
  <2>8. i + (IF P[i] < FX THEN 1 ELSE 0) <= l
    <3>1. (IF P[i] < FX THEN 1 ELSE 0) \in 0 .. 1
      OBVIOUS
    <3>2. i + (IF P[i] < FX THEN 1 ELSE 0) <= E[j]
      BY <2>2, <2>5, <2>7
    <3> QED
      BY <1>5, <2>2, <3>1, <3>2
  <2>9. ReadOn(P, read, i) = <<ReadAs(r)>> \o read[E[j] + 1]
    BY <1>0, <2>1, <2>6, <2>7, <2>8 DEF ReadOn
  <2>10. read[i] = <<ReadAs(r)>> \o Rest(j)
    <3>1. i \in 1 .. l + 3
      BY <1>5, <2>3
    <3> QED
      BY <1>9, <1>12, <2>9, <3>1
  <2>11. <<ReadAs(r)>> \o Rest(j) = Rest(j - 1)
    <3>1. j \in 0 .. n /\ j - 1 \in 0 .. n /\ n - j \in Nat /\ n - (j - 1) = 1 + (n - j)
      BY <1>1
    <3>2. /\ Rest(j) \in Seq(X) /\ Len(Rest(j)) = n - j
          /\ Rest(j - 1) \in Seq(X) /\ Len(Rest(j - 1)) = 1 + (n - j)
      BY <1>10, <3>1
    <3>3. ReadAs(r) \in X
      BY <1>0, <2>1
    <3>4. <<ReadAs(r)>> \in Seq(X) /\ Len(<<ReadAs(r)>>) = 1 /\ <<ReadAs(r)>>[1] = ReadAs(r)
      BY <3>3
    <3>5. ASSUME NEW m \in 1 .. 1 + (n - j)
          PROVE  Rest(j - 1)[m] = IF m <= 1 THEN ReadAs(r) ELSE Rest(j)[m - 1]
      <4>1. Rest(j - 1)[m] = ReadAs(T[(j - 1) + m])
        BY <3>1
      <4>2. CASE m = 1
        BY <2>1, <3>1, <4>1, <4>2
      <4>3. CASE m # 1
        <5>1. m - 1 \in 1 .. n - j /\ j + (m - 1) = (j - 1) + m /\ ~ (m <= 1)
          BY <3>1, <4>3
        <5>2. Rest(j)[m - 1] = ReadAs(T[j + (m - 1)])
          BY <5>1
        <5> HIDE DEF Rest
        <5> QED
          BY <4>1, <5>1, <5>2
      <4> QED
        BY <4>2, <4>3
    <3> DEFINE c == <<ReadAs(r)>> \o Rest(j)
    <3> HIDE DEF Rest
    <3>6. /\ c \in Seq(X) /\ Len(c) = 1 + (n - j)
          /\ \A m \in 1 .. 1 + (n - j) : c[m] = IF m <= 1 THEN ReadAs(r) ELSE Rest(j)[m - 1]
      BY <3>2, <3>4, ConcatProperties
    <3> HIDE DEF c
    <3>7. c = Rest(j - 1)
      BY <3>2, <3>5, <3>6, SeqEqual
    <3> QED
      BY <3>7 DEF c
  <2> HIDE DEF Rest
  <2>12. E[j - 1] + 1 = i
    BY <2>1
  <2> QED
    BY <2>10, <2>11, <2>12
<1>13. Good(0)
  <2> DEFINE Bad == {m \in 0 .. n : ~ Good(n - m)}
  <2> HIDE DEF Good
  <2>1. Bad = {}
    <3> SUFFICES ASSUME Bad # {} PROVE FALSE
      OBVIOUS
    <3>1. PICK m \in Bad : \A k \in Bad : m <= k
      <4>1. Bad \subseteq Nat
        BY <1>1
      <4> HIDE DEF Bad
      <4> QED
        BY <4>1, LeastOf
    <3>2. m \in 0 .. n /\ ~ Good(n - m)
      BY <3>1
    <3>3. m # 0
      <4>1. n - 0 = n
        BY <1>1
      <4> QED
        BY <1>11, <3>2, <4>1
    <3>4. m - 1 \in 0 .. n /\ m - 1 < m /\ n - (m - 1) \in 1 .. n /\ (n - (m - 1)) - 1 = n - m
      BY <1>1, <3>2, <3>3
    <3>5. ~ (m - 1 \in Bad)
      <4> HIDE DEF Bad
      <4> QED
        BY <1>1, <3>1, <3>2, <3>4
    <3>6. Good(n - (m - 1))
      BY <3>4, <3>5
    <3> QED
      BY <1>12, <3>2, <3>4, <3>6
  <2>2. n \in 0 .. n /\ n - n = 0
    BY <1>1
  <2> QED
    BY <2>1, <2>2
<1>14. E[0] + 1 = 1 /\ Rest(0) = [j \in 1 .. n |-> ReadAs(T[j])]
  <2>1. n - 0 = n /\ \A m \in 1 .. n : 0 + m = m
    BY <1>1
  <2> QED
    BY <1>2, <2>1
<1> HIDE DEF Rest
<1> QED
  BY <1>0, <1>7, <1>13, <1>14


\* The command an editor's row plays as, and the row.
Plays == (0 .. 15) \X Nat

Shape == [note : Nat, instr : 0 .. 63, fx : Nat, data : Nat]

Shown(r) ==
  EditorRow(r.note, IF r.instr = Keep THEN 0 ELSE r.instr,
            PlainCommand(r.cmd)[1], PlainCommand(r.cmd)[2])

LEMMA PlainCommandIs ==
  ASSUME NEW c \in Command
  PROVE  /\ PlainCommand(c) \in Plays /\ PlainCommand(c) # Held
         /\ PlainCommand(c)[1] = c[1]
         /\ PlainCommand(c)[2] = IF c[1] = 0 THEN 0
                                 ELSE IF c[1] = 15 /\ c[2] % 128 = 2 THEN c[2] + 1 ELSE c[2]
<1>1. PICK fx, d : c = <<fx, d>> /\ fx = c[1] /\ d = c[2] /\ fx \in 0 .. 15 /\ d \in 0 .. 255
  BY Stated
<1>2. CASE fx = 0
  BY <1>1, <1>2 DEF PlainCommand, Plays, Held
<1>3. CASE fx # 0 /\ fx # 15
  <2>1. PlainCommand(c) = <<fx, d>>
    BY <1>1, <1>3 DEF PlainCommand, Timed, Retimed, CMD_SETTEMPO
  <2> QED
    BY <1>1, <1>3, <2>1 DEF Plays, Held
<1>4. CASE fx = 15
  <2>1. PICK m, e : m = d % 128 /\ e = d - m /\ m \in 0 .. 127 /\ e \in {0, 128} /\ d = e + m
    BY <1>1
  <2>2. Timed(c) = e + TempoPacked(m)
    BY <1>1, <1>4, <2>1 DEF Timed, Retimed, CMD_SETTEMPO
  <2>3. PICK w : w = TempoPacked(m) /\ w \in 0 .. 127
    BY <2>1 DEF TempoPacked
  <2>4. (e + w) % 128 = w /\ (e + w) - w = e
    BY <2>1, <2>3
  <2>5. PlainCommand(c) = <<15, e + TempoUnpacked(w)>>
    BY <1>1, <1>4, <2>2, <2>3, <2>4 DEF PlainCommand, Retimed, CMD_SETTEMPO
  <2>6. e + TempoUnpacked(w) = IF m = 2 THEN d + 1 ELSE d
    BY <2>1, <2>3 DEF TempoPacked, TempoUnpacked
  <2> QED
    BY <1>1, <1>4, <2>1, <2>5, <2>6 DEF Plays, Held
<1> QED
  BY <1>2, <1>3, <1>4

LEMMA ShownPlain ==
  ASSUME NEW R \in Seq(Row), NEW k \in 1 .. Len(R)
  PROVE  Shown(RowsOf(R)[k]) = Plain(R[k])
<1>1. PICK r, s, c : r = R[k] /\ s = RowsOf(R)[k] /\ c = <<r.fx, r.data>>
  OBVIOUS
<1>2. /\ s.note = r.note /\ s.instr = IF r.instr = 0 THEN Keep ELSE r.instr
      /\ s.cmd = c
  BY <1>1, RowsSingle
<1>3. /\ r.fx \in 0 .. 15 /\ r.data \in 0 .. 255 /\ r.instr \in 0 .. 63
      /\ r = [note |-> r.note, instr |-> r.instr, fx |-> r.fx, data |-> r.data]
  <2>1. r \in Row
    BY <1>1
  <2> QED
    BY <2>1 DEF Row
<1>4. c \in Command /\ c[1] = r.fx /\ c[2] = r.data
  BY <1>1, <1>3 DEF Command
<1>5. (IF s.instr = Keep THEN 0 ELSE s.instr) = r.instr
  <2>1. r.instr # Keep
    <3>1. \A i \in 0 .. 63 : i # Keep
      BY DEF Keep
    <3> QED
      BY <1>3, <3>1
  <2>2. CASE r.instr = 0
    BY <1>2, <2>2
  <2>3. CASE r.instr # 0
    BY <1>2, <2>1, <2>3
  <2> QED
    BY <2>2, <2>3
<1>6. Shown(s) = EditorRow(r.note, r.instr, r.fx,
        IF r.fx = 0 THEN 0 ELSE IF r.fx = 15 /\ r.data % 128 = 2 THEN r.data + 1 ELSE r.data)
  BY <1>2, <1>4, <1>5, PlainCommandIs DEF Shown
<1>7. CASE r.fx = 0
  BY <1>1, <1>3, <1>6, <1>7 DEF Plain, EditorRow, CMD_SETTEMPO
<1>8. CASE r.fx = 15 /\ r.data % 128 = 2
  BY <1>1, <1>3, <1>6, <1>8 DEF Plain, EditorRow, CMD_SETTEMPO
<1>9. CASE r.fx # 0 /\ ~ (r.fx = 15 /\ r.data % 128 = 2)
  BY <1>1, <1>3, <1>6, <1>9 DEF Plain, EditorRow, CMD_SETTEMPO
<1> QED
  BY <1>7, <1>8, <1>9

\* What a typed row's spreading adds: the row, then rests of its command.
Spreading == [held : Plays, out : Seq(Shape)]

Opened(s, a, note, i, held, m) ==
  LET l == Len(a.out) IN
  /\ s \in Spreading /\ s.held = held /\ Len(s.out) = l + m
  /\ \A k \in 1 .. l : s.out[k] = a.out[k]
  /\ s.out[l + 1] = EditorRow(note, i, held[1], held[2])
  /\ \A k \in l + 2 .. l + m : s.out[k] = EditorRow(REST, 0, held[1], held[2])

Instrument(i) == IF i = Keep THEN 0 ELSE i

LEMMA SpreadOut ==
  ASSUME NEW a \in Spreading, NEW note \in NOTE .. KEYON, NEW instr0 \in {Keep} \cup 1 .. 63,
         NEW cmd \in {Held} \cup Plays, NEW m \in Nat \ {0}
  PROVE  Opened(Spread(a, TypedRow(note, instr0, cmd, m)), a, note, Instrument(instr0),
                IF cmd = Held THEN a.held ELSE cmd, m)
<1>1. PICK held, l, s, x, y, ins :
        /\ held = (IF cmd = Held THEN a.held ELSE cmd) /\ l = Len(a.out)
        /\ s = Spread(a, TypedRow(note, instr0, cmd, m))
        /\ ins = Instrument(instr0)
        /\ x = EditorRow(note, ins, held[1], held[2])
        /\ y = EditorRow(REST, 0, held[1], held[2])
  OBVIOUS
<1>2. held \in Plays /\ a.out \in Seq(Shape) /\ l \in Nat
  BY <1>1 DEF Spreading
<1>3. x \in Shape /\ y \in Shape
  <2>1. held[1] \in Nat /\ held[2] \in Nat
    BY <1>2 DEF Plays
  <2>2. ins \in 0 .. 63 /\ note \in Nat /\ REST \in Nat
    BY <1>1 DEF Keep, NOTE, KEYON, REST, Instrument
  <2> QED
    BY <1>1, <2>1, <2>2 DEF Shape, EditorRow
<1> DEFINE p == Append(a.out, x)
           q == [i \in 1 .. m - 1 |-> y]
<1>4. s = [held |-> held, out |-> p \o q]
  BY <1>1 DEF Spread, TypedRow, Instrument
<1>5. /\ p \in Seq(Shape) /\ Len(p) = l + 1 /\ p[l + 1] = x
      /\ \A i \in 1 .. l : p[i] = a.out[i]
  BY <1>1, <1>2, <1>3
<1>6. q \in Seq(Shape) /\ Len(q) = m - 1 /\ \A i \in 1 .. m - 1 : q[i] = y
  <2>1. m - 1 \in Nat
    OBVIOUS
  <2> QED
    BY <1>3, <2>1
<1> HIDE DEF p, q
<1> DEFINE c == p \o q
<1>7. /\ c \in Seq(Shape) /\ Len(c) = Len(p) + Len(q)
      /\ \A i \in 1 .. Len(p) + Len(q) : c[i] = IF i <= Len(p) THEN p[i] ELSE q[i - Len(p)]
  BY <1>5, <1>6, ConcatProperties
<1>8. s = [held |-> held, out |-> c]
  BY <1>4
<1> HIDE DEF c
<1>9. Len(c) = l + m /\ \A i \in 1 .. l + m : c[i] = IF i <= l + 1 THEN p[i] ELSE q[i - (l + 1)]
  BY <1>2, <1>5, <1>6, <1>7
<1>10. \A i \in 1 .. l : c[i] = a.out[i]
  BY <1>2, <1>5, <1>9
<1>11. c[l + 1] = x
  BY <1>2, <1>5, <1>9
<1>12. ASSUME NEW i \in l + 2 .. l + m PROVE c[i] = y
  <2>1. i \in 1 .. l + m /\ ~ (i <= l + 1) /\ i - (l + 1) \in 1 .. m - 1
    BY <1>2
  <2> QED
    BY <1>6, <1>9, <2>1
<1>13. s \in Spreading /\ s.held = held /\ s.out = c
  BY <1>2, <1>7, <1>8 DEF Spreading
<1> QED
  BY <1>1, <1>9, <1>10, <1>11, <1>12, <1>13 DEF Opened

\* What is spread so far: the first k rows, the last one's command held.
Spreads(rr, acc, k) ==
  /\ acc \in Spreading /\ Len(acc.out) = k
  /\ k > 0 => acc.held = PlainCommand(rr[k].cmd)
  /\ \A i \in 1 .. k : acc.out[i] = Shown(rr[i])

\* The row T[j] spread behind a, m rows of it.
SpreadPart(a, t, m) == Spread(a, TypedRow(t.note, t.instr, ReadAs(t).cmd, m))

LEMMA PartOfRow ==
  ASSUME NEW a \in Spreading, NEW t \in Typed, NEW m \in Nat \ {0}
  PROVE  Opened(SpreadPart(a, t, m), a, t.note, Instrument(t.instr),
                IF t.cmd = Held THEN a.held ELSE PlainCommand(t.cmd), m)
<1>1. PICK note, instr0, cmd : note = t.note /\ instr0 = t.instr /\ cmd = ReadAs(t).cmd
  OBVIOUS
<1>2. note \in NOTE .. KEYON /\ instr0 \in {Keep} \cup 1 .. 63 /\ t.cmd \in {Held} \cup Command
  BY <1>1 DEF Typed
<1>3. cmd = IF t.cmd = Held THEN Held ELSE PlainCommand(t.cmd)
  BY <1>1 DEF ReadAs, TypedRow
<1>4. /\ cmd \in {Held} \cup Plays
      /\ (IF cmd = Held THEN a.held ELSE cmd) = IF t.cmd = Held THEN a.held ELSE PlainCommand(t.cmd)
  <2>1. CASE t.cmd = Held
    BY <1>3, <2>1
  <2>2. CASE t.cmd # Held
    <3>1. PlainCommand(t.cmd) \in Plays /\ PlainCommand(t.cmd) # Held
      BY <1>2, <2>2, PlainCommandIs
    <3> QED
      BY <1>3, <2>2, <3>1
  <2> QED
    BY <2>1, <2>2
<1>5. Opened(Spread(a, TypedRow(note, instr0, cmd, m)), a, note, Instrument(instr0),
             IF cmd = Held THEN a.held ELSE cmd, m)
  BY <1>2, <1>4, SpreadOut
<1>6. SpreadPart(a, t, m) = Spread(a, TypedRow(note, instr0, cmd, m))
  BY <1>1 DEF SpreadPart
<1> QED
  BY <1>1, <1>4, <1>5, <1>6

\* A row that begins a packed row follows those before it.
LEMMA RowBegun ==
  ASSUME NEW rr \in Seq(Single), NEW k \in Nat, k + 1 \in 1 .. Len(rr),
         NEW a, Spreads(rr, a, k), NEW t \in Typed,
         t.note = rr[k + 1].note, t.instr = rr[k + 1].instr,
         t.cmd = IF k > 0 /\ rr[k + 1].cmd = rr[k].cmd THEN Held ELSE rr[k + 1].cmd
  PROVE  Spreads(rr, SpreadPart(a, t, 1), k + 1)
<1>1. PICK r, s, held, pc : /\ r = rr[k + 1] /\ s = SpreadPart(a, t, 1) /\ pc = PlainCommand(r.cmd)
                            /\ held = (IF t.cmd = Held THEN a.held ELSE PlainCommand(t.cmd))
  OBVIOUS
<1>2. r \in Single /\ r.cmd \in Command /\ r.cmd # Held
  <2>1. r \in Single
    BY <1>1
  <2> QED
    BY <2>1, Stated DEF Single
<1>3. held = pc
  BY <1>1, <1>2 DEF Spreads
<1>4. /\ s \in Spreading /\ s.held = pc /\ Len(s.out) = k + 1
      /\ \A i \in 1 .. k : s.out[i] = a.out[i]
      /\ s.out[k + 1] = EditorRow(t.note, Instrument(t.instr), pc[1], pc[2])
  <2>1. a \in Spreading /\ Len(a.out) = k
    BY DEF Spreads
  <2>2. Opened(s, a, t.note, Instrument(t.instr), held, 1)
    BY <1>1, <2>1, PartOfRow
  <2> QED
    BY <1>3, <2>1, <2>2 DEF Opened
<1>5. s.out[k + 1] = Shown(rr[k + 1])
  BY <1>1, <1>4 DEF Shown, Instrument
<1>6. \A i \in 1 .. k + 1 : s.out[i] = Shown(rr[i])
  <2>1. \A i \in 1 .. k : s.out[i] = Shown(rr[i])
    BY <1>4 DEF Spreads
  <2> QED
    BY <1>5, <2>1
<1> QED
  BY <1>1, <1>4, <1>6 DEF Spreads

\* A row more of a run follows those of the run.
LEMMA RowRunsOn ==
  ASSUME NEW rr \in Seq(Single), NEW k \in Nat \ {0}, k + 1 \in 1 .. Len(rr),
         NEW a \in Spreading, NEW t \in Typed, NEW m \in Nat \ {0},
         Spreads(rr, SpreadPart(a, t, m), k),
         BareRest(rr[k + 1]), rr[k + 1].cmd = rr[k].cmd
  PROVE  Spreads(rr, SpreadPart(a, t, m + 1), k + 1)
<1>1. PICK s, u, held, l, x :
        /\ s = SpreadPart(a, t, m) /\ u = SpreadPart(a, t, m + 1) /\ l = Len(a.out)
        /\ held = (IF t.cmd = Held THEN a.held ELSE PlainCommand(t.cmd))
        /\ x = EditorRow(t.note, Instrument(t.instr), held[1], held[2])
  OBVIOUS
<1>2. /\ s \in Spreading /\ s.held = held /\ Len(s.out) = l + m
      /\ \A i \in 1 .. l : s.out[i] = a.out[i]
      /\ s.out[l + 1] = x
      /\ \A i \in l + 2 .. l + m : s.out[i] = EditorRow(REST, 0, held[1], held[2])
  <2>1. Opened(s, a, t.note, Instrument(t.instr), held, m)
    BY <1>1, PartOfRow
  <2> QED
    BY <1>1, <2>1 DEF Opened
<1>3. /\ u \in Spreading /\ u.held = held /\ Len(u.out) = l + (m + 1)
      /\ \A i \in 1 .. l : u.out[i] = a.out[i]
      /\ u.out[l + 1] = x
      /\ \A i \in l + 2 .. l + (m + 1) : u.out[i] = EditorRow(REST, 0, held[1], held[2])
  <2>1. m + 1 \in Nat \ {0}
    OBVIOUS
  <2>2. Opened(u, a, t.note, Instrument(t.instr), held, m + 1)
    BY <1>1, <2>1, PartOfRow
  <2> QED
    BY <1>1, <2>2 DEF Opened
<1>4. l \in Nat /\ k = l + m
  <2>1. Len(s.out) = k
    BY <1>1 DEF Spreads
  <2>2. a.out \in Seq(Shape)
    BY DEF Spreading
  <2> QED
    BY <1>1, <1>2, <2>1, <2>2
<1>5. \A i \in 1 .. k : u.out[i] = s.out[i]
  <2> SUFFICES ASSUME NEW i \in 1 .. k PROVE u.out[i] = s.out[i]
    OBVIOUS
  <2>1. i \in 1 .. l \/ i = l + 1 \/ (i \in l + 2 .. l + m /\ i \in l + 2 .. l + (m + 1))
    BY <1>4
  <2> QED
    BY <1>2, <1>3, <2>1
<1>6. held = PlainCommand(rr[k + 1].cmd)
  BY <1>1, <1>2 DEF Spreads
<1>7. u.out[k + 1] = Shown(rr[k + 1])
  <2>1. k + 1 \in l + 2 .. l + (m + 1)
    BY <1>4
  <2>2. u.out[k + 1] = EditorRow(REST, 0, held[1], held[2])
    BY <1>3, <2>1
  <2>3. rr[k + 1].note = REST /\ rr[k + 1].instr = Keep
    BY DEF BareRest
  <2> QED
    BY <1>6, <2>2, <2>3 DEF Shown
<1>8. \A i \in 1 .. k + 1 : u.out[i] = Shown(rr[i])
  <2>1. \A i \in 1 .. k : u.out[i] = Shown(rr[i])
    BY <1>1, <1>5 DEF Spreads
  <2> QED
    BY <1>7, <2>1
<1>9. Len(u.out) = k + 1
  BY <1>3, <1>4
<1> QED
  BY <1>1, <1>3, <1>6, <1>8, <1>9 DEF Spreads

\* A packed row's spreading.
LEMMA SpreadWhole ==
  ASSUME NEW a \in Spreading, NEW t \in Typed
  PROVE  Spread(a, ReadAs(t)) = SpreadPart(a, t, t.length) /\ SpreadPart(a, t, t.length) \in Spreading
<1>1. ReadAs(t) = TypedRow(t.note, t.instr, ReadAs(t).cmd, t.length)
  BY DEF ReadAs, TypedRow
<1>2. t.length \in Nat \ {0}
  BY RestRunAssumption DEF Typed
<1>3. SpreadPart(a, t, t.length) \in Spreading
  BY <1>2, PartOfRow DEF Opened
<1> QED
  BY <1>1, <1>3 DEF SpreadPart

\* The spreading of all packed rows exists, and what it is after each.
LEMMA SpreadingExists ==
  ASSUME NEW T \in Seq(Typed)
  PROVE  \E raw \in [0 .. Len(T) -> Spreading] :
           /\ raw[0] = [held |-> <<0, 0>>, out |-> <<>>]
           /\ \A j \in 1 .. Len(T) : raw[j] = SpreadPart(raw[j - 1], T[j], T[j].length)
           /\ RawRows([j \in 1 .. Len(T) |-> ReadAs(T[j])]) = raw[Len(T)].out
<1> DEFINE U     == [j \in 1 .. Len(T) |-> ReadAs(T[j])]
           n     == Len(T)
           start == [held |-> <<0, 0>>, out |-> <<>>]
           Is(f) == f = [k \in 0 .. n |-> IF k = 0 THEN start ELSE Spread(f[k - 1], U[k])]
           raw   == CHOOSE f : Is(f)
           g     == [e \in (1 .. n) \X Spreading |-> SpreadPart(e[2], T[e[1]], T[e[1]].length)]
<1>1. n \in Nat /\ (\A k \in 1 .. n : T[k] \in Typed /\ U[k] = ReadAs(T[k])) /\ Len(U) = n
  OBVIOUS
<1>2. RawRows(U) = raw[n].out
  <2>1. Len(U) = n
    BY <1>1
  <2> HIDE DEF U, n
  <2> QED
    BY <2>1 DEF RawRows
<1> HIDE DEF U
<1>3. start \in Spreading
  BY DEF Spreading, Plays
<1>4. g \in [(1 .. n) \X Spreading -> Spreading]
  BY <1>1, SpreadWhole
<1>5. PICK f \in [0 .. n -> Spreading] : Steps(f, start, g, n)
  <2> HIDE DEF start, g, n
  <2> QED
    BY <1>1, <1>3, <1>4, StepsExist
<1>6. ASSUME NEW k \in 0 .. n
      PROVE  f[k] = IF k = 0 THEN start ELSE Spread(f[k - 1], U[k])
  <2>1. f[k] = IF k = 0 THEN start ELSE g[<<k, f[k - 1]>>]
    BY <1>5 DEF Steps
  <2>2. k # 0 => k \in 1 .. n /\ f[k - 1] \in Spreading
    <3>1. k # 0 => k \in 1 .. n /\ k - 1 \in 0 .. n
      BY <1>1
    <3> HIDE DEF n
    <3> QED
      BY <1>5, <3>1
  <2>3. k # 0 => g[<<k, f[k - 1]>>] = SpreadPart(f[k - 1], T[k], T[k].length)
    BY <2>2
  <2>4. k # 0 => SpreadPart(f[k - 1], T[k], T[k].length) = Spread(f[k - 1], U[k])
    BY <1>1, <2>2, SpreadWhole
  <2> QED
    BY <2>1, <2>3, <2>4
<1>7. Is(f)
  <2> HIDE DEF start, n
  <2> QED
    BY <1>5, <1>6
<1>8. Is(raw)
  <2> HIDE DEF Is
  <2> QED
    BY <1>7
<1>9. raw[0] = start /\ \A k \in 1 .. n : raw[k] = Spread(raw[k - 1], U[k])
  <2> HIDE DEF start, n, raw
  <2> QED
    BY <1>1, <1>8
<1> HIDE DEF raw, Is, g
<1>10. raw = f
  <2>1. raw = [k \in 0 .. n |-> raw[k]]
    <3> HIDE DEF n, start
    <3> QED
      BY <1>8 DEF Is
  <2> DEFINE Off == {k \in 0 .. n : raw[k] # f[k]}
  <2>2. Off = {}
    <3> SUFFICES ASSUME Off # {} PROVE FALSE
      OBVIOUS
    <3>1. PICK k \in Off : \A m \in Off : k <= m
      <4>1. Off \subseteq Nat
        OBVIOUS
      <4> HIDE DEF Off
      <4> QED
        BY <4>1, LeastOf
    <3>2. k \in 0 .. n /\ raw[k] # f[k]
      BY <3>1
    <3>3. k # 0
      BY <1>6, <1>9, <3>2
    <3>4. k - 1 \in 0 .. n /\ k \in 1 .. n /\ ~ (k - 1 \in Off)
      BY <1>1, <3>1, <3>2, <3>3
    <3>5. raw[k - 1] = f[k - 1]
      BY <3>4
    <3> QED
      BY <1>6, <1>9, <3>2, <3>3, <3>4, <3>5
  <2> HIDE DEF n
  <2> QED
    BY <1>5, <2>1, <2>2
<1>11. \A k \in 1 .. n : raw[k] = SpreadPart(raw[k - 1], T[k], T[k].length)
  <2> SUFFICES ASSUME NEW k \in 1 .. n PROVE raw[k] = SpreadPart(raw[k - 1], T[k], T[k].length)
    OBVIOUS
  <2>1. raw[k - 1] \in Spreading
    BY <1>1, <1>5, <1>10
  <2> QED
    BY <1>1, <1>9, <2>1, SpreadWhole
<1> QED
  BY <1>2, <1>5, <1>9, <1>10, <1>11 DEF U

\* The rows packed are the rows spread.
LEMMA RowsSpread ==
  ASSUME NEW R \in Seq(Row), Len(R) > 0, NEW T, NEW J, NEW M,
         Layout(RowsOf(R), T, J, M, Len(R))
  PROVE  RawRows([j \in 1 .. Len(T) |-> ReadAs(T[j])]) = [k \in 1 .. Len(R) |-> Plain(R[k])]
<1>0. PICK rr, n, l : rr = RowsOf(R) /\ n = Len(R) /\ l = Len(T)
  OBVIOUS
<1>1. rr \in Seq(Single) /\ Len(rr) = n /\ n \in Nat \ {0}
  BY <1>0, RowsSingle
<1>2. T \in Seq(Typed) /\ l \in Nat \ {0} /\ \A j \in 1 .. l : T[j] \in Typed
  BY <1>0 DEF Layout
<1>3. PICK raw \in [0 .. l -> Spreading] :
        /\ raw[0] = [held |-> <<0, 0>>, out |-> <<>>]
        /\ \A j \in 1 .. l : raw[j] = SpreadPart(raw[j - 1], T[j], T[j].length)
        /\ RawRows([j \in 1 .. l |-> ReadAs(T[j])]) = raw[l].out
  BY <1>0, <1>2, SpreadingExists
<1>4. /\ J \in [1 .. n -> 1 .. l] /\ M \in [1 .. n -> 1 .. RestRun]
      /\ J[1] = 1 /\ M[1] = 1 /\ J[n] = l /\ M[n] = T[l].length
  BY <1>0 DEF Layout
<1>5. ASSUME NEW k \in 1 .. n
      PROVE  /\ J[k] \in 1 .. l /\ J[k] - 1 \in 0 .. l /\ M[k] \in Nat \ {0}
             /\ raw[J[k] - 1] \in Spreading /\ T[J[k]] \in Typed
  <2>1. J[k] \in 1 .. l /\ M[k] \in 1 .. RestRun /\ RestRun \in Nat
    BY <1>4, RestRunAssumption
  <2>2. J[k] - 1 \in 0 .. l
    BY <1>2, <2>1
  <2> QED
    BY <1>2, <1>3, <2>1, <2>2
<1> DEFINE Good(k) == Spreads(rr, SpreadPart(raw[J[k] - 1], T[J[k]], M[k]), k)
<1>6. ASSUME NEW k \in 1 .. n, M[k] = 1
      PROVE  /\ T[J[k]].note = rr[k].note /\ T[J[k]].instr = rr[k].instr
             /\ T[J[k]].cmd = IF k > 1 /\ rr[k].cmd = rr[k - 1].cmd THEN Held ELSE rr[k].cmd
  BY <1>0, <1>6 DEF Layout
<1>7. Good(1)
  <2>1. PICK a, t : a = raw[0] /\ t = T[1]
    OBVIOUS
  <2>2. 1 \in 1 .. n /\ 0 + 1 = 1 /\ 1 - 1 = 0 /\ 1 \in 1 .. l /\ 0 \in 0 .. l /\ 0 \in Nat
    BY <1>1, <1>2
  <2>3. t \in Typed /\ t.note = rr[1].note /\ t.instr = rr[1].instr /\ t.cmd = rr[1].cmd
    BY <1>4, <1>5, <1>6, <2>1, <2>2
  <2>4. a \in Spreading /\ a.out = <<>>
    BY <1>3, <2>1, <2>2
  <2>5. Spreads(rr, a, 0)
    <3>1. Len(<<>>) = 0 /\ 1 .. 0 = {}
      OBVIOUS
    <3> QED
      BY <2>4, <3>1 DEF Spreads
  <2>6. Spreads(rr, SpreadPart(a, t, 1), 0 + 1)
    BY <1>1, <2>2, <2>3, <2>5, RowBegun
  <2> QED
    BY <1>4, <2>1, <2>2, <2>6
<1>8. ASSUME NEW k \in 1 .. n - 1, Good(k) PROVE Good(k + 1)
  <2>1. k \in 1 .. n /\ k + 1 \in 1 .. n /\ k \in Nat \ {0} /\ (k + 1) - 1 = k /\ k > 0 /\ k + 1 > 1
    BY <1>1
  <2>2. PICK a, t, m : a = raw[J[k] - 1] /\ t = T[J[k]] /\ m = M[k]
    OBVIOUS
  <2>3. a \in Spreading /\ t \in Typed /\ m \in Nat \ {0} /\ Spreads(rr, SpreadPart(a, t, m), k)
    BY <1>5, <1>8, <2>1, <2>2
  <2>4. \/ M[k] < T[J[k]].length /\ J[k + 1] = J[k] /\ M[k + 1] = M[k] + 1
        \/ M[k] = T[J[k]].length /\ J[k + 1] = J[k] + 1 /\ M[k + 1] = 1
    BY <1>0 DEF Layout
  <2>5. CASE J[k + 1] = J[k] /\ M[k + 1] = m + 1
    <3>1. M[k + 1] # 1
      BY <2>3, <2>5
    <3>2. BareRest(rr[k + 1]) /\ rr[k + 1].cmd = rr[k].cmd
      BY <1>0, <2>1, <3>1 DEF Layout
    <3>3. Spreads(rr, SpreadPart(a, t, m + 1), k + 1)
      BY <1>1, <2>1, <2>3, <3>2, RowRunsOn
    <3> QED
      BY <2>2, <2>5, <3>3
  <2>6. CASE m = t.length /\ J[k + 1] = J[k] + 1 /\ M[k + 1] = 1
    <3>1. PICK b, u : b = raw[J[k + 1] - 1] /\ u = T[J[k + 1]]
      OBVIOUS
    <3>2. J[k + 1] - 1 = J[k] /\ J[k] \in 1 .. l
      BY <1>5, <2>1, <2>6
    <3>3. b = SpreadPart(a, t, m)
      BY <1>3, <2>2, <2>6, <3>1, <3>2
    <3>4. Spreads(rr, b, k)
      BY <2>3, <3>3
    <3>5. u \in Typed
      BY <1>5, <2>1, <3>1
    <3>6. /\ u.note = rr[k + 1].note /\ u.instr = rr[k + 1].instr
          /\ u.cmd = IF k > 0 /\ rr[k + 1].cmd = rr[k].cmd THEN Held ELSE rr[k + 1].cmd
      BY <1>6, <2>1, <2>6, <3>1
    <3>7. Spreads(rr, SpreadPart(b, u, 1), k + 1)
      BY <1>1, <2>1, <3>4, <3>5, <3>6, RowBegun
    <3> QED
      BY <2>6, <3>1, <3>7
  <2> QED
    BY <2>2, <2>4, <2>5, <2>6
<1>9. Good(n)
  <2> DEFINE Bad == {k \in 1 .. n : ~ Good(k)}
  <2> HIDE DEF Good
  <2> SUFFICES ASSUME Bad # {} PROVE FALSE
    BY <1>1
  <2>1. PICK k \in Bad : \A m \in Bad : k <= m
    <3>1. Bad \subseteq Nat
      OBVIOUS
    <3> HIDE DEF Bad
    <3> QED
      BY <3>1, LeastOf
  <2>2. k \in 1 .. n /\ ~ Good(k)
    BY <2>1
  <2>3. k # 1
    BY <1>7, <2>2
  <2>4. k - 1 \in 1 .. n - 1 /\ ~ (k - 1 \in Bad) /\ (k - 1) + 1 = k /\ k - 1 \in 1 .. n
    BY <1>1, <2>1, <2>2, <2>3
  <2>5. Good(k - 1)
    BY <2>4
  <2> QED
    BY <1>8, <2>2, <2>4, <2>5
<1>10. Spreads(rr, raw[l], n)
  <2>1. n \in 1 .. n /\ l \in 1 .. l
    BY <1>1, <1>2
  <2>2. SpreadPart(raw[J[n] - 1], T[J[n]], M[n]) = raw[l]
    BY <1>3, <1>4, <2>1
  <2> QED
    BY <1>9, <2>2
<1>11. raw[l].out \in Seq(Shape) /\ Len(raw[l].out) = n /\ \A i \in 1 .. n : raw[l].out[i] = Plain(R[i])
  <2>1. raw[l] \in Spreading /\ Len(raw[l].out) = n /\ \A i \in 1 .. n : raw[l].out[i] = Shown(rr[i])
    BY <1>10 DEF Spreads
  <2>2. \A i \in 1 .. n : Shown(rr[i]) = Plain(R[i])
    BY <1>0, ShownPlain
  <2> QED
    BY <2>1, <2>2 DEF Spreading
<1>12. raw[l].out = [k \in 1 .. n |-> Plain(R[k])]
  BY <1>1, <1>11
<1> QED
  BY <1>0, <1>3, <1>12

\* Each pattern's bytes give back its rows.
LEMMA PatternReadBack ==
  ASSUME SongFits(song), packed = [p \in DOMAIN song.patterns |-> Packed(Ordered(song)[p])],
         NEW p \in DOMAIN song.patterns
  PROVE  RawRows(PatternRowsRead(packed[p]))
           = [k \in DOMAIN song.patterns[p] |-> Plain(Ordered(song)[p][k])]
<1>1. PICK R, P : R = Ordered(song)[p] /\ P = packed[p]
  OBVIOUS
<1>2. R \in Seq(Row) /\ Len(R) > 0 /\ RowsIn(p) = RowsOf(R) /\ Len(RowsOf(R)) = Len(R)
      /\ DOMAIN song.patterns[p] = 1 .. Len(R)
  <2>1. /\ R \in Seq(Row) /\ Len(R) = Len(song.patterns[p]) /\ Len(R) \in Nat \ {0}
        /\ RowsIn(p) = RowsOf(R) /\ Len(RowsIn(p)) = Len(R)
    BY <1>1, OrderedRows DEF RowsIn
  <2>2. DOMAIN song.patterns[p] = 1 .. Len(song.patterns[p])
    BY DEF SongFits
  <2> QED
    BY <2>1, <2>2
<1>3. PICK T, J, M, b, E : PatternHeld(p, RowsIn(p), T, J, M, b, E)
  BY PatternsHeld
<1>4. Layout(RowsOf(R), T, J, M, Len(R))
  BY <1>1, <1>2, <1>3 DEF PatternHeld
<1>6. PatternRowsRead(P) = [j \in 1 .. Len(T) |-> ReadAs(T[j])]
  BY <1>1, <1>3, RowsReadBack
<1>7. RawRows([j \in 1 .. Len(T) |-> ReadAs(T[j])]) = [k \in 1 .. Len(R) |-> Plain(R[k])]
  BY <1>2, <1>4, RowsSpread
<1> QED
  BY <1>1, <1>2, <1>6, <1>7

-----------------------------------------------------------------------------
(* Theorems.                                                               *)

\* Between fetches the cursor is before the editor's next row, for every song
\* whose patterns fit the cursor's reach (mt_getnewnote, mt_rest).
THEOREM SongFollowed ==
  ASSUME \A s \in Songs : SongFits(s)
  PROVE  Spec => []Followed
<1>1. Init => Followed
  BY FollowedAtFirst
<1>2. Followed /\ [Next]_vars => Followed'
  <2> SUFFICES ASSUME Followed, [Next]_vars PROVE Followed'
    OBVIOUS
  <2>1. CASE Next
    <3>1. PICK p \in DOMAIN packed, t \in Transposes \cup {trans} : GetNewNote(p, t)
      BY <2>1 DEF Next
    <3> QED
      BY <3>1, FetchFollows DEF Follows
  <2>2. CASE UNCHANGED vars
    <3>1. /\ song' = song /\ packed' = packed /\ gate' = gate /\ instr' = instr /\ row' = row
          /\ pattptr' = pattptr /\ packedrest' = packedrest /\ pattnum' = pattnum
          /\ newfx' = newfx /\ newparam' = newparam
      BY <2>2 DEF vars, channel
    <3> QED
      BY <3>1 DEF Followed, Commanded, RowsIn, PatternHeld
  <2> QED
    BY <2>1, <2>2
<1> QED
  BY <1>1, <1>2, PTL DEF Spec

\* The packed stream is the editor's rows, one a fetch, each row's own command,
\* instrument, note, gate and restart, for every song whose patterns fit the
\* cursor's reach (greloc's packing read back by mt_getnewnote).
THEOREM EditorImplemented ==
  ASSUME \A s \in Songs : SongFits(s)
  PROVE  Spec => ImplementsEditor
<1>1. Init => Editor!Init
  <2> SUFFICES ASSUME Init PROVE Editor!Init
    OBVIOUS
  <2>1. song.ranks \in Ranks
    BY FollowedAtFirst DEF Followed, SongFits, Ranks
  <2>2. EditorNumber(instr) = Editor!FirstInstrument
    BY <2>1, FollowedAtFirst, EditorNumbered
  <2>3. [instr |-> EditorNumber(instr),
         cmd |-> IF newfx = 0 THEN <<0, 0>> ELSE <<newfx, newparam>>,
         note |-> newnote, gate |-> gate = 255, restart |-> restart]
          = [instr |-> Editor!FirstInstrument, cmd |-> <<0, 0>>, note |-> 0,
             gate |-> FALSE, restart |-> FALSE]
    <3>1. newfx = 0 /\ newnote = 0 /\ restart = FALSE /\ gate = 254
      BY DEF Init
    <3>2. (gate = 255) = FALSE
      BY <3>1
    <3> QED
      BY <2>2, <3>1, <3>2, Zenon
  <2>4. pattnum = 1 /\ trans = 0 /\ row = 0
    BY DEF Init
  <2> QED
    BY <2>3, <2>4, Zenon DEF Editor!Init
<1>2. Followed /\ [Next]_vars => [Editor!Next]_(Editor!vars)
  <2> SUFFICES ASSUME Followed, [Next]_vars PROVE [Editor!Next]_(Editor!vars)
    OBVIOUS
  <2>1. CASE Next
    <3>1. PICK p \in DOMAIN packed, t \in Transposes \cup {trans} : GetNewNote(p, t)
      BY <2>1 DEF Next
    <3>2. Editor!Fetch(p, t) /\ DOMAIN packed = DOMAIN song.patterns
      BY <3>1, VoiceFollows DEF Followed
    <3> QED
      BY <3>1, <3>2 DEF Editor!Next
  <2>2. CASE UNCHANGED vars
    BY <2>2 DEF vars, channel, Editor!vars, EditorNumber
  <2> QED
    BY <2>1, <2>2
<1> QED
  BY <1>1, <1>2, SongFollowed, PTL DEF Spec, ImplementsEditor, Editor!Spec

\* A packed pattern decodes to the editor's rows it was packed from, for every
\* song whose patterns fit the cursor's reach (typed.pack_rows and packed.pattern_rows).
THEOREM PatternsDecodeBack ==
  ASSUME \A s \in Songs : SongFits(s)
  PROVE  Spec => []DecodesBack
<1>1. Followed => DecodesBack
  <2> SUFFICES ASSUME Followed, NEW p \in DOMAIN packed
               PROVE  RawRows(PatternRowsRead(packed[p]))
                        = [k \in DOMAIN song.patterns[p] |-> Plain(Ordered(song)[p][k])]
    BY DEF DecodesBack
  <2>1. SongFits(song) /\ packed = [q \in DOMAIN song.patterns |-> Packed(Ordered(song)[q])]
    BY DEF Followed
  <2>2. p \in DOMAIN song.patterns
    BY <2>1
  <2> QED
    BY <2>1, <2>2, PatternReadBack
<1> QED
  BY <1>1, SongFollowed, PTL

=============================================================================
