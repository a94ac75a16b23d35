----------------------------- MODULE EditorRows -----------------------------
(***************************************************************************)
(* What a fetch promises: one editor row of the pattern in play, in order, *)
(* from its first row to its last, with the row's own command, instrument, *)
(* note and gate, and a hard restart as the row's instrument asks for it.  *)
(* The pattern that follows and its transpose are the orderlist's choice.  *)
(***************************************************************************)
EXTENDS PatternCodec

CONSTANTS
  Transposes          \* the transposes an orderlist may set, as bytes

VARIABLES
  patterns,           \* editor rows per pattern
  ranks,              \* per instrument: 0 hard restart, 1 none, 2 legato
  pattnum, trans,     \* the pattern in play and its transpose
  row,                \* the next row, 0 once the pattern has ended
  voice               \* what the last fetch left

vars == <<patterns, ranks, pattnum, trans, row, voice>>

IsPitch(n) == n < REST

\* The command a row gives the playroutine, in its units.
StoredCommand(r) ==
  IF r.fx = 0 THEN <<0, 0>> ELSE <<r.fx, Retimed(r.fx, r.data, TempoPacked)>>

FirstInstrument ==
  CHOOSE i \in DOMAIN ranks :
    \A j \in DOMAIN ranks : ranks[i] < ranks[j] \/ (ranks[i] = ranks[j] /\ i <= j)

\* What a pitch does to the gate: nothing for a slide or a legato instrument.
Releases(rank, fx) == fx # CMD_TONEPORTA /\ rank # 2
Restarts(rank, fx) == fx # CMD_TONEPORTA /\ rank = 0

Sounded(v, r, t) ==
  LET instr == IF r.instr = 0 THEN v.instr ELSE r.instr
      cmd   == StoredCommand(r)
  IN [instr |-> instr,
      cmd   |-> cmd,
      note  |-> IF IsPitch(r.note) THEN (r.note + t) % 256 ELSE 0,
      gate  |-> CASE r.note = KEYON  -> TRUE
                  [] r.note = KEYOFF -> FALSE
                  [] r.note = REST   -> v.gate
                  [] OTHER -> v.gate /\ ~ Releases(ranks[instr], cmd[1]),
      restart |-> IsPitch(r.note) /\ Restarts(ranks[instr], cmd[1])]

Init ==
  /\ pattnum = 1 /\ trans = 0 /\ row = 0
  /\ voice = [instr |-> FirstInstrument, cmd |-> <<0, 0>>, note |-> 0,
              gate |-> FALSE, restart |-> FALSE]

Fetch(p, t) ==
  LET k == IF row = 0 THEN 1 ELSE row
  IN /\ IF row = 0 THEN p \in DOMAIN patterns /\ t \in Transposes ELSE p = pattnum /\ t = trans
     /\ voice' = Sounded(voice, patterns[p][k], t)
     /\ row' = IF k = Len(patterns[p]) THEN 0 ELSE k + 1
     /\ pattnum' = p /\ trans' = t
     /\ UNCHANGED <<patterns, ranks>>

Next == \E p \in DOMAIN patterns, t \in Transposes \cup {trans} : Fetch(p, t)

Spec == Init /\ [][Next]_vars

=============================================================================
