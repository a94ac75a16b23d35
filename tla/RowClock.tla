------------------------------ MODULE RowClock ------------------------------
(***************************************************************************)
(* When the packed playroutine (goattracker.play, machine chan) plays its  *)
(* rows: the tick counter and its reload, the tick-0 sequencer, note init  *)
(* and tempo commands, and the fetch of the next row that the gate timer   *)
(* triggers ahead of time. A play call runs the channels one after the     *)
(* other on tempos and a funk pair they share; each step is one channel's  *)
(* part of a call. Sound (tables, pitch, registers) is not modelled here.  *)
(***************************************************************************)
EXTENDS Song

CONSTANTS
  Songs,      \* the songs played
  GateModes   \* the builds: "timer" latches the gate timer at tick 0, "live" reads
              \* the instrument's (V2.35 players), "fixed" has one (FIXEDPARAMS)

ASSUME GateModesAssumption == GateModes \subseteq {"timer", "live", "fixed"}

\* A build with one gate timer has the first instrument's.
FixedGate(s) == s.gates[1]

VARIABLES
  song,       \* the song packed
  mode,       \* the build that plays it
  stage,      \* "init": its start is pending; "lead-in": its first tick 0; "plays"
  turn,       \* the channel the play call runs next
  tempos,     \* per channel, the counter's reload; 0 and 1 name the funk pair
  funk,       \* the funk pair
  paired,     \* history: a funktempo has set the pair
  chn         \* per channel, its variables and the history kept of it

vars == <<song, mode, stage, turn, tempos, funk, paired, chn>>

\* mt_funktempotbl as the image holds it.
FirstFunk == [i \in 0 .. 1 |-> IF i = 0 THEN 8 ELSE 5]

(***************************************************************************)
(* A channel's variables are counter, gatetimer, instr, newfx, newparam,   *)
(* newnote (whether one waits), pattptr (the row to fetch next, 0 at a     *)
(* pattern's end) and seq, the sequencer's own. The rest is history that   *)
(* no step reads: fetched, the fetches since tick 0 (two stand for more);  *)
(* next and heard, the last row fetched and the row that plays, each the   *)
(* sequencer's state it was read under and its number, from 1 (0: none     *)
(* yet); dur, the calls the row that plays has lasted.                     *)
(***************************************************************************)
Ord(x) == PackedOrder(song.orders[x])

NoRow(x, s) == [seq |-> Sequence(PackedOrder(s.orders[x]), SeqStart), row |-> 0]

Init ==
  /\ song \in Songs
  /\ mode \in GateModes
  /\ mode = "live" => \A i, j \in DOMAIN song.gates : song.gates[i] = song.gates[j]
  /\ stage = "init"
  /\ turn = 0
  /\ tempos = [x \in Chan |-> 0]
  /\ funk = FirstFunk
  /\ paired = FALSE
  /\ chn = [x \in Chan |->
       [counter |-> 0, gatetimer |-> 0, instr |-> 1, newfx |-> DONOTHING, newparam |-> 0,
        newnote |-> FALSE, pattptr |-> 0, seq |-> SeqStart,
        fetched |-> 0, next |-> NoRow(x, song), heard |-> NoRow(x, song),
        dur |-> 0]]

\* The first play call: every channel its default tempo, instrument 1 and a
\* counter that reaches tick 0 in the next call.
StartCall ==
  /\ stage = "init"
  /\ stage' = "lead-in"
  /\ tempos' = [x \in Chan |-> song.deftempo]
  /\ chn' = [x \in Chan |-> [chn[x] EXCEPT !.counter = 1, !.instr = 1]]
  /\ UNCHANGED <<song, mode, turn, funk, paired>>

\* Channel x's part of a later call; the last channel's ends the call.
Turn(x) ==
  /\ stage # "init"
  /\ turn = x
  /\ turn' = (x + 1) % Channels
  /\ stage' = IF x = Channels - 1 THEN "plays" ELSE stage
  /\ UNCHANGED <<song, mode>>

-----------------------------------------------------------------------------
(* The stages of a channel's step, each from the channel's variables to    *)
(* the channel's variables.                                                *)

\* The gate timer done() compares the counter with.
Gate(c) == CASE mode = "timer" -> c.gatetimer
             [] mode = "live"  -> song.gates[c.instr]
             [] mode = "fixed" -> FixedGate(song)

Counted(c) == [c EXCEPT !.counter = (@ - 1) % BYTES,
                        !.dur = Lengthened(@)]

\* Where a row leaves pattptr: past it, or 0 where the end mark follows.
RowEnd(c, at) == IF at = PatternRows(song, c.seq.pattnum) THEN 0 ELSE at

\* mt_getnewnote and mt_rest: the row at pattptr, and the position after it.
GetNewNote(c) ==
  LET row == RowAt(song, c.seq.pattnum, c.pattptr)
      at  == c.pattptr + 1
  IN  [c EXCEPT !.instr = IF row.instr # 0 THEN row.instr ELSE @,
                !.newfx = row.fx,
                !.newparam = IF row.fx # DONOTHING THEN StoredParam(row) ELSE @,
                !.newnote = row.note \/ @,
                !.pattptr = RowEnd(c, at),
                !.fetched = IF @ < 2 THEN @ + 1 ELSE @,
                !.next = [seq |-> c.seq, row |-> at]]

\* (mutant) The gate timer is compared as a bound.
DoneFromGate(c) == IF c.counter <= Gate(c) THEN GetNewNote(c) ELSE c

\* mt_done: the gate timer's fetch.
Done(c) == IF c.counter = Gate(c) THEN GetNewNote(c) ELSE c

\* mt_tick0 runs the sequencer where the last fetch ended its pattern.
EndsPattern(c) == c.pattptr = 0

NewPattern(x, c) ==
  IF EndsPattern(c) THEN [c EXCEPT !.seq = Sequence(Ord(x), @)] ELSE c

\* (mutant) The direct wave flag is not masked off the gate timer.
NoNewPattUnmasked(c) ==
  [c EXCEPT !.gatetimer = song.gates[c.instr] + (IF c.instr \in song.direct THEN 128 ELSE 0),
            !.newnote = FALSE]

\* mt_nonewpatt latches the gate timer and takes the note that waits.
NoNewPatt(c) ==
  [c EXCEPT !.gatetimer = IF mode = "timer" THEN song.gates[c.instr] ELSE @,
            !.newnote = FALSE]

\* A note's init ends the channel's part of the call: no wavetable, no effects,
\* no fetch. A tone portamento's and a direct wave instrument's go on.
InitEnds(c) == c.newnote /\ c.newfx # TONEPORTA /\ c.instr \notin song.direct

\* The row fetched before is the row that plays from this tick 0 on.
Heard(c) == [c EXCEPT !.heard = c.next, !.dur = IF c.next.row > 0 THEN 1 ELSE 0,
                      !.fetched = 0]

\* (mutant) A channel's own tempo is set on every channel.
Tick0CmdGlobal(x, c) ==
  /\ tempos' = CASE c.newfx = FUNKTEMPO -> [k \in Chan |-> 0]
                 [] c.newfx = SETTEMPO -> [k \in Chan |-> c.newparam % 128]
                 [] OTHER -> tempos
  /\ funk' = IF c.newfx = FUNKTEMPO
               THEN [i \in 0 .. 1 |-> Speed(song, c.newparam)[i + 1]] ELSE funk
  /\ paired' = (paired \/ c.newfx = FUNKTEMPO)

\* mt_tick0_e, mt_tick0_f: the fetched row's command where it sets a tempo. A
\* held command runs again at each tick 0 until another is fetched.
Tick0Cmd(x, c) ==
  /\ tempos' = CASE c.newfx = FUNKTEMPO -> [k \in Chan |-> 0]
                 [] c.newfx = SETTEMPO /\ c.newparam >= 128 ->
                      [tempos EXCEPT ![x] = c.newparam % 128]
                 [] c.newfx = SETTEMPO /\ c.newparam < 128 ->
                      [k \in Chan |-> c.newparam]
                 [] OTHER -> tempos
  /\ funk' = IF c.newfx = FUNKTEMPO
               THEN [i \in 0 .. 1 |-> Speed(song, c.newparam)[i + 1]] ELSE funk
  /\ paired' = (paired \/ c.newfx = FUNKTEMPO)

-----------------------------------------------------------------------------
\* The counter reaches zero: sequencer, note init, command, then the wavetable
\* and the fetch unless the note's init was the channel's last stage.
Tick0(x) ==
  LET c == NoNewPatt(NewPattern(x, Heard(Counted(chn[x]))))
  IN  /\ Turn(x)
      /\ chn[x].counter = 1
      /\ chn' = [chn EXCEPT ![x] = IF InitEnds(chn[x]) THEN c ELSE Done(c)]
      /\ Tick0Cmd(x, chn[x])

Reloaded(x) == IF tempos[x] >= 2 THEN tempos[x] ELSE (funk[tempos[x]] - 1) % BYTES

\* The counter goes below zero (bit 7): it is reloaded, a funk tempo by turns.
Reload(x) ==
  /\ Turn(x)
  /\ chn[x].counter = 0 \/ chn[x].counter > 128
  /\ chn' = [chn EXCEPT ![x] = Done([Counted(@) EXCEPT !.counter = Reloaded(x)])]
  /\ tempos' = [tempos EXCEPT ![x] = IF @ >= 2 THEN @ ELSE 1 - @]
  /\ UNCHANGED <<funk, paired>>

\* Any other call counts, and fetches where the gate timer says.
Count(x) ==
  /\ Turn(x)
  /\ chn[x].counter \in 2 .. 128
  /\ chn' = [chn EXCEPT ![x] = Done(Counted(@))]
  /\ UNCHANGED <<tempos, funk, paired>>

Next == StartCall \/ \E x \in Chan : Tick0(x) \/ Reload(x) \/ Count(x)

Spec == Init /\ [][Next]_vars

\* The player is called for as long as it plays (Player.playing is always true).
FairSpec == Spec /\ WF_vars(Next)

-----------------------------------------------------------------------------
RowNumbers == [seq : [songptr : Byte, trans : Byte, repeat : Byte,
                      pattnum : 0 .. REPEAT - 1, loops : 0 .. LoopCap],
               row : 0 .. 128]

TypeOK ==
  /\ stage \in {"init", "lead-in", "plays"}
  /\ turn \in Chan
  /\ tempos \in [Chan -> Byte]
  /\ funk \in [0 .. 1 -> Byte]
  /\ paired \in BOOLEAN
  /\ \A x \in Chan :
       /\ chn[x].counter \in Byte
       /\ chn[x].instr \in DOMAIN song.gates
       /\ chn[x].pattptr \in 0 .. PatternRows(song, chn[x].seq.pattnum) - 1
       /\ chn[x].fetched \in 0 .. 2
       /\ chn[x].next \in RowNumbers /\ chn[x].heard \in RowNumbers

BeginsRow(x) == stage = "plays" /\ turn = x /\ chn[x].counter = 1

\* No row is read over the one before it: between two tick 0s at most one row
\* is fetched, whichever of its instrument's gate timers is in force.
FetchedOnce == \A x \in Chan : chn[x].fetched <= 1

\* A row is there when its time comes: no tick 0 finds the row of the tick 0
\* before still waiting to be read, so none sounds twice as long as its tempo.
RowReady == [][ \A x \in Chan : BeginsRow(x) => chn[x].fetched = 1 ]_vars

\* Funktempo 0 keeps the funk pair (the documents' words, not the code's).
FunkZeroKeeps ==
  [][ \A x \in Chan :
        BeginsRow(x) /\ chn[x].newfx = FUNKTEMPO /\ chn[x].newparam = 0 => funk' = funk ]_vars

\* Every channel comes to its loop mark: no tempo stops a channel for ever.
AllLoop == <>(\A x \in Chan : chn[x].seq.loops = LoopCap)

-----------------------------------------------------------------------------
(* The converter's replay of the same song.                                *)

Walked(x) == AsWalk(Ord(x), chn[x].heard.seq)

\* A packed pair holds the tempos, the replay's each one less; the pair it starts
\* with is not so (FirstPairAsReplayed). The replay starts six frames before its
\* first row, the player with a start call and the tick 0 of no row: the replay
\* stands still until these are over.
WalkTick(x) == IF stage # "plays" \/ (chn[x].counter = 0 /\ chn[x].heard.row = 0)
                 THEN 6 ELSE chn[x].counter

Replay == INSTANCE TempoWalk WITH
  StopLoops <- LoopCap + 1,
  turn   <- IF stage = "plays" THEN turn ELSE 0,
  tick   <- [x \in Chan |-> WalkTick(x)],
  tempo  <- [x \in Chan |-> IF stage = "init" THEN song.deftempo ELSE tempos[x]],
  funk   <- IF paired THEN [i \in 0 .. 1 |-> (funk[i] - 1) % BYTES] ELSE FirstFunk,
  walk   <- [x \in Chan |-> Walked(x)],
  row    <- [x \in Chan |-> chn[x].heard.row],
  dur    <- [x \in Chan |-> chn[x].dur],
  failed <- FALSE

ImplementsReplay == Replay!Spec

\* A row played under the pair the playroutine starts with lasts as long as the
\* converter's replay of the playroutine has it last (a reload, and the tick 0).
FirstPairAsReplayed ==
  [][ \A x \in Chan :
        Reload(x) /\ ~ paired /\ tempos[x] < 2 =>
          chn'[x].counter = Replay!FirstPair[tempos[x]] ]_vars

=============================================================================
