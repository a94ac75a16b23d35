---------------------------- MODULE PatternCodec ----------------------------
(***************************************************************************)
(* A pattern's rows in the three forms the code gives them: the editor's   *)
(* rows, typed rows that state a command only where it changes and run     *)
(* rests together, and the packed bytes the playroutine's cursor reads.    *)
(*                                                                         *)
(* An editor row is [note, instr, fx, data], bytes all; a typed row is     *)
(* [note, instr, cmd, length], where instr is Keep and cmd is Held where   *)
(* the row states none. Notes keep their byte: note_of and note_byte are   *)
(* inverse to each other. Cursors are bytes, scaled to Reach.              *)
(***************************************************************************)
EXTENDS Integers, SequencesExt

CONSTANTS
  Reach,      \* the cursor's reach: 256 in the code
  RestRun     \* the rows one packed rest spans at most: 64 in the code

ASSUME ReachAssumption   == Reach \in 1 .. 256
ASSUME RestRunAssumption == RestRun \in 2 .. 64

FX     == 64        \* $40: a command and its row's note follow
FXONLY == 80        \* $50: a command on a rest row
NOTE   == 96        \* $60
REST   == 189       \* $BD, then key off and key on
KEYOFF == 190
KEYON  == 191
PACKEDREST == 256 - RestRun

CMD_TONEPORTA == 3
CMD_SETTEMPO  == 15

Keep == -1          \* no instrument stated
Held == <<>>        \* no command stated

EditorRow(n, i, f, d) == [note |-> n, instr |-> i, fx |-> f, data |-> d]
TypedRow(n, i, c, l)  == [note |-> n, instr |-> i, cmd |-> c, length |-> l]

-----------------------------------------------------------------------------
(* Editor rows and typed rows.                                             *)

\* Each editor row states its own command.
RowsOf(rows) ==
  [i \in DOMAIN rows |->
     TypedRow(rows[i].note, IF rows[i].instr = 0 THEN Keep ELSE rows[i].instr,
              <<rows[i].fx, rows[i].data>>, 1)]

\* A typed row's editor rows, behind those before it.
Spread(acc, r) ==
  LET held == IF r.cmd = Held THEN acc.held ELSE r.cmd
      instr == IF r.instr = Keep THEN 0 ELSE r.instr
  IN [held |-> held,
      out |-> Append(acc.out, EditorRow(r.note, instr, held[1], held[2]))
              \o [i \in 1 .. r.length - 1 |-> EditorRow(REST, 0, held[1], held[2])]]

\* Editor rows of typed ones: held commands restated, rests spread.
RawRows(rows) ==
  LET raw[k \in 0 .. Len(rows)] ==
        IF k = 0 THEN [held |-> <<0, 0>>, out |-> <<>>] ELSE Spread(raw[k - 1], rows[k])
  IN raw[Len(rows)].out

BareRest(r) == r.note = REST /\ r.instr = Keep

\* (mutant) A rest that states a command is taken for a run.
RunTakesCommand(out, r) ==
  Len(out) > 1 /\ BareRest(r) /\ BareRest(Last(out)) /\ Last(out).length < RestRun

\* A rest joins the run before it, if that can take one more; the first row
\* never begins a run.
RunTakes(out, r) ==
  /\ Len(out) > 1
  /\ BareRest(r) /\ BareRest(Last(out))
  /\ Last(out).cmd = Held
  /\ Last(out).length < RestRun

\* (mutant) The first row relies on the command of the pattern before.
HeldAtStart == <<0, 0>>

\* What the first row's command is compared with: it is always stated.
StatedFirst == Held

\* A row behind those packed before it: in the last one's run, or a row more.
Pack(acc, r) ==
  LET same == r.cmd = acc.held
  IN [held |-> r.cmd,
      out |-> IF same /\ RunTakes(acc.out, r)
              THEN [acc.out EXCEPT ![Len(acc.out)].length = @ + 1]
              ELSE Append(acc.out, [r EXCEPT !.cmd = IF same THEN Held ELSE @])]

\* greloc's form: a command where it changes, rests after the first row in runs.
PackedRows(rows) ==
  LET pack[k \in 0 .. Len(rows)] ==
        IF k = 0 THEN [held |-> StatedFirst, out |-> <<>>] ELSE Pack(pack[k - 1], rows[k])
  IN pack[Len(rows)].out

-----------------------------------------------------------------------------
(* Typed rows and packed bytes.                                            *)

\* A tempo of 3 or more is stored as the countdown, one less.
TempoPacked(t)   == IF t >= 3 THEN t - 1 ELSE t
TempoUnpacked(t) == IF t >= 2 THEN t + 1 ELSE t

Retimed(fx, data, Tempo(_)) ==
  IF fx = CMD_SETTEMPO THEN (data - (data % 128)) + Tempo(data % 128) ELSE data

CommandBytes(r, base) ==
  IF r.cmd[1] = 0 THEN <<base>>
  ELSE <<base + r.cmd[1], Retimed(r.cmd[1], r.cmd[2], TempoPacked)>>

\* One row: instrument, then a rest run, or a command and a note.
RowBytes(r) ==
  (IF r.instr = Keep THEN <<>> ELSE <<r.instr>>)
  \o (IF r.length > 1 THEN <<256 - r.length>>
      ELSE IF r.cmd = Held THEN <<r.note>>
      ELSE IF r.note = REST THEN CommandBytes(r, FXONLY)
      ELSE Append(CommandBytes(r, FX), r.note))

\* The packed pattern; rows that fill the reach have no end mark.
PatternBytes(rows) ==
  LET bytes[k \in 0 .. Len(rows)] == IF k = 0 THEN <<>> ELSE bytes[k - 1] \o RowBytes(rows[k])
      out == bytes[Len(rows)]
  IN IF Len(out) >= Reach THEN out ELSE Append(out, 0)

\* The pattern of an editor's rows as the player's image holds it.
Packed(rows) == PatternBytes(PackedRows(RowsOf(rows)))

Fits(rows) == Len(Packed(rows)) <= Reach

-----------------------------------------------------------------------------
(* The packed grammar: bytes read back into typed rows.                    *)

\* The command at position i, and how many bytes it takes.
ReadCommand(b, i) ==
  LET fx == b[i] % 16 IN
  IF fx = 0 THEN <<0, 0>> ELSE <<fx, Retimed(fx, b[i + 1], TempoUnpacked)>>
CommandSize(b, i) == IF b[i] % 16 = 0 THEN 1 ELSE 2

\* The row at position i: an instrument, then one of four forms.
ReadRow(b, i) ==
  LET ins == b[i] < FX
      p   == IF ins THEN i + 1 ELSE i
      instr == IF ins THEN b[i] ELSE Keep
      q   == p + CommandSize(b, p)
  IN CASE ~ ins /\ b[p] >= PACKEDREST ->
            [row |-> TypedRow(REST, Keep, Held, 256 - b[p]), next |-> p + 1]
       [] b[p] >= NOTE /\ (ins \/ b[p] < PACKEDREST) ->
            [row |-> TypedRow(b[p], instr, Held, 1), next |-> p + 1]
       [] b[p] \in FXONLY .. NOTE - 1 ->
            [row |-> TypedRow(REST, instr, ReadCommand(b, p), 1), next |-> q]
       [] OTHER -> [row |-> TypedRow(b[q], instr, ReadCommand(b, p), 1), next |-> q + 1]

\* Typed rows from position i on, to the end mark or the end of the bytes: a
\* row the reach cuts short is left out.
ReadFrom(b) ==
  LET wholeRow(i) == i + (IF b[i] < FX THEN 1 ELSE 0) <= Len(b)
      f[i \in 1 .. Len(b) + 3] ==
        IF i > Len(b) \/ (i > 1 /\ b[i] = 0) THEN <<>>
        ELSE LET padded == b \o <<0, 0, 0>>
                 r == ReadRow(padded, i)
             IN IF ~ wholeRow(i) \/ r.next > Len(b) + 1 THEN <<>>
                ELSE <<r.row>> \o f[r.next]
  IN f[1]

\* A pattern at its address: at most the cursor's reach is read.
PatternRowsRead(b) == ReadFrom(SubSeq(b, 1, IF Len(b) < Reach THEN Len(b) ELSE Reach))

=============================================================================
