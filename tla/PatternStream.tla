---------------------------- MODULE PatternStream ----------------------------
(***************************************************************************)
(* The packed playroutine's pattern stream: mt_getnewnote and mt_rest read *)
(* one row of a packed pattern a call, through a byte cursor, a count of   *)
(* the rest run it is in and the command the channel holds. The patterns   *)
(* are the image's: an editor's song, its instruments put in greloc's      *)
(* class order, its rows packed. Editor is what the stream must amount to. *)
(*                                                                         *)
(* newnote is what the fetch leaves; the tick 0 that takes it is RowClock. *)
(***************************************************************************)
EXTENDS PatternCodec, FiniteSets

CONSTANTS
  Songs,        \* the songs checked: [patterns, ranks]
  Transposes    \* the transposes an orderlist may set, as bytes

VARIABLES
  song,                  \* the editor's song
  packed,                \* its packed patterns
  pattnum, trans,        \* chosen by the sequencer when a pattern has ended
  pattptr, packedrest,   \* the cursor: position (0: ended), and rest run count
  instr, newfx, newparam, newnote, gate, restart,
  row                    \* history: the editor's next row

channel == <<pattptr, packedrest, instr, newfx, newparam, newnote, gate, restart>>
vars == <<song, packed, pattnum, trans, channel, row>>

-----------------------------------------------------------------------------
(* The image: instruments by class.                                        *)

OfRank(ranks, k) == Cardinality({i \in DOMAIN ranks : ranks[i] = k})

\* An instrument's number once they are sorted by class, the sort being stable.
OrderedNumber(ranks, i) ==
  Cardinality({j \in DOMAIN ranks : ranks[j] < ranks[i] \/ (ranks[j] = ranks[i] /\ j <= i)})

Ordered(s) ==
  [p \in DOMAIN s.patterns |-> [k \in DOMAIN s.patterns[p] |->
     [s.patterns[p][k] EXCEPT !.instr = IF @ = 0 THEN 0 ELSE OrderedNumber(s.ranks, @)]]]

FirstNoHr   == OfRank(song.ranks, 0) + 1
FirstLegato == OfRank(song.ranks, 0) + OfRank(song.ranks, 1) + 1
HrInstr     == OfRank(song.ranks, 0) > 0
NoHrInstr   == OfRank(song.ranks, 1) > 0
Legato      == OfRank(song.ranks, 2) > 0

-----------------------------------------------------------------------------
(* mt_getnewnote.                                                          *)

\* The byte at a position of the stream: the cursor is a byte of Reach values.
At(p, pos) ==
  LET i == (pos % Reach) + 1 IN IF i \in DOMAIN packed[p] THEN packed[p][i] ELSE 0

\* mt_rest: the cursor after the row at pos, or 0 at the end mark.
AfterRow(p, pos) == IF At(p, pos + 1) = 0 THEN 0 ELSE (pos + 1) % Reach

\* (mutant) The count is not carried over a call.
RestCountRestarts(p, pos) == At(p, pos) + 1

\* A packed rest's count: it starts at the stored byte and ends at zero.
RestCount(p, pos) == (IF packedrest = 0 THEN At(p, pos) ELSE packedrest) + 1

PackedRest(p, pos) ==
  /\ At(p, pos) >= PACKEDREST
  /\ packedrest' = RestCount(p, pos) % 256
  /\ pattptr' = IF packedrest' = 0 THEN AfterRow(p, pos) ELSE pos
  /\ UNCHANGED <<instr, newfx, newparam, gate>>
  /\ newnote' = 0 /\ restart' = FALSE

\* (mutant) The classes are told apart only where all three occur.
ClassesApartWhenAll == HrInstr /\ NoHrInstr /\ Legato

ClassesApart == (HrInstr /\ NoHrInstr) \/ Legato

\* What a new note does to the gate and the envelope, by its instrument's class.
NoteGate(i, fx) ==
  LET unrestarted == ClassesApart /\ i >= FirstNoHr
      tied == fx = CMD_TONEPORTA \/ (unrestarted /\ Legato /\ i >= FirstLegato)
  IN [gate |-> IF tied THEN gate ELSE 254,
      restart |-> ~ tied /\ ~ unrestarted /\ HrInstr]

\* The note column at pos: a rest, a gate change or a new note.
NoteColumn(p, t, pos, i, fx) ==
  LET a == At(p, pos) IN
  CASE a = REST -> newnote' = 0 /\ UNCHANGED gate /\ restart' = FALSE
    [] a > REST -> newnote' = 0 /\ gate' = 240 + (a % 16) /\ restart' = FALSE
    [] OTHER ->
         /\ newnote' = (a + t) % 256
         /\ gate' = NoteGate(i, fx).gate
         /\ restart' = NoteGate(i, fx).restart

CommandBytesRead(fx) == IF fx = 0 THEN 1 ELSE 2

\* A row from pos on, the instrument byte read: an optional command, then the
\* note column unless the command stands on a rest row.
RowFrom(p, t, pos, i) ==
  LET a  == At(p, pos)
      fx == a % 16
      after == pos + CommandBytesRead(fx)
  IN IF a >= NOTE
     THEN /\ UNCHANGED <<newfx, newparam>>
          /\ NoteColumn(p, t, pos, i, newfx)
          /\ pattptr' = AfterRow(p, pos)
     ELSE /\ newfx' = fx
          /\ newparam' = IF fx = 0 THEN newparam ELSE At(p, pos + 1)
          /\ IF a >= FXONLY
             THEN /\ pattptr' = AfterRow(p, after - 1)
                  /\ newnote' = 0 /\ restart' = FALSE /\ UNCHANGED gate
             ELSE /\ NoteColumn(p, t, after, i, fx)
                  /\ pattptr' = AfterRow(p, after)

StatedRow(p, t, pos) ==
  LET a == At(p, pos) IN
  /\ a < PACKEDREST
  /\ instr' = IF a < FX THEN a ELSE instr
  /\ RowFrom(p, t, IF a < FX THEN pos + 1 ELSE pos, instr')
  /\ UNCHANGED packedrest

\* The sequencer's choice, made when the last row fetched ended its pattern.
Chosen(p, t) ==
  IF pattptr = 0 THEN p \in DOMAIN packed /\ t \in Transposes ELSE p = pattnum /\ t = trans

GetNewNote(p, t) ==
  /\ Chosen(p, t)
  /\ PackedRest(p, pattptr) \/ StatedRow(p, t, pattptr)
  /\ pattnum' = p /\ trans' = t
  /\ LET k == IF row = 0 THEN 1 ELSE row
     IN row' = IF k = Len(song.patterns[p]) THEN 0 ELSE k + 1
  /\ UNCHANGED <<song, packed>>

\* The image's first values: initchn gives every channel instrument 1.
Init ==
  /\ song \in Songs
  /\ packed = [p \in DOMAIN song.patterns |-> Packed(Ordered(song)[p])]
  /\ pattnum = 1 /\ trans = 0 /\ pattptr = 0 /\ packedrest = 0
  /\ instr = 1 /\ newfx = 0 /\ newparam = 0 /\ newnote = 0
  /\ gate = 254 /\ restart = FALSE
  /\ row = 0

Next == \E p \in DOMAIN packed, t \in Transposes \cup {trans} : GetNewNote(p, t)

Spec == Init /\ [][Next]_vars

\* The row clock fetches a row every row time, for ever (RowClock).
FairSpec == Spec /\ WF_vars(Next)

-----------------------------------------------------------------------------
(* Properties.                                                             *)

\* A song of up to 63 instruments whose patterns fit the cursor's reach.
SongFits(s) ==
  /\ s.ranks \in Seq(0 .. 2) /\ Len(s.ranks) \in 1 .. FX - 1
  /\ \A p \in DOMAIN s.patterns :
       /\ s.patterns[p] # <<>>
       /\ s.patterns[p] \in Seq([note : NOTE .. KEYON, instr : 0 .. Len(s.ranks),
                                  fx : 0 .. 15, data : 0 .. 255])
       /\ Fits(Ordered(s)[p])

\* The cursor is a position in reach or 0; a rest run's count is 0 outside
\* runs and otherwise among the packed rest bytes.
TypeOK ==
  /\ pattnum \in DOMAIN packed /\ trans \in 0 .. 255
  /\ pattptr \in 0 .. Reach - 1
  /\ packedrest \in {0} \cup PACKEDREST .. 255
  /\ instr \in DOMAIN song.ranks
  /\ newfx \in 0 .. 15 /\ newparam \in 0 .. 255
  /\ newnote \in 0 .. 255 /\ gate \in {254, 255} /\ restart \in BOOLEAN

\* The song's own forms of a row: data no command reads and a tempo that plays
\* as another are not told apart by the packed bytes.
Plain(r) ==
  CASE r.fx = 0 -> [r EXCEPT !.data = 0]
    [] r.fx = CMD_SETTEMPO /\ r.data % 128 = 2 -> [r EXCEPT !.data = @ + 1]
    [] OTHER -> r

\* A packed pattern decodes (packed.pattern_rows, typed.raw_rows) to the
\* editor's rows it was packed from: every one, in order, and nothing else.
DecodesBack ==
  \A p \in DOMAIN packed :
    RawRows(PatternRowsRead(packed[p]))
      = [k \in DOMAIN song.patterns[p] |-> Plain(Ordered(song)[p][k])]

\* The stream is the editor's rows, one a fetch: the refinement mapping gives
\* the packed instrument number back its editor's number, and the gate byte its
\* meaning.
EditorNumber(n) == CHOOSE i \in DOMAIN song.ranks : OrderedNumber(song.ranks, i) = n

Editor == INSTANCE EditorRows WITH
  patterns <- song.patterns,
  ranks <- song.ranks,
  voice <- [instr |-> EditorNumber(instr),
            cmd |-> IF newfx = 0 THEN <<0, 0>> ELSE <<newfx, newparam>>,
            note |-> newnote, gate |-> gate = 255, restart |-> restart]

ImplementsEditor == Editor!Spec

\* Every pattern comes to its end: the cursor never circles inside one.
PatternsEnd == []<>(row = 0 /\ pattptr = 0)

=============================================================================
