---------------------------- MODULE RowClockProofs ----------------------------
(***************************************************************************)
(* The packed playroutine's clock on every song whose tempos leave its     *)
(* gate timers time: each row is fetched once, between two tick 0s, before *)
(* its own; and the rows, their lengths and the tempos are those of the    *)
(* converter's replay of the song. The argument is one inductive           *)
(* invariant: which row a channel has fetched is decided by its counter    *)
(* and the gate timer in force, and the row follows the one that plays.    *)
(***************************************************************************)
EXTENDS RowClock, OrderlistProofs

-----------------------------------------------------------------------------
(* The songs this file is about.                                           *)

\* A counter reloaded with t reaches every gate timer on its way to tick 0.
Reaches(s, t) == t \in 1 .. 128 /\ \A i \in DOMAIN s.gates : s.gates[i] <= t

\* A funk pair whose two reloads do.
PairReaches(s, pair) == \A i \in 0 .. 1 : Reaches(s, (pair[i] - 1) % BYTES)

\* A tempo is a reload, or it recalls the funk pair: the player's own, where no
\* funktempo has set another.
TempoReaches(s, t) == IF t >= 2 THEN Reaches(s, t) ELSE PairReaches(s, FirstFunk)

RowOK(s, r) ==
  /\ r.instr \in {0} \cup DOMAIN s.gates
  /\ r.fx \in 0 .. 15
  /\ r.param \in Byte
  /\ r.fx = SETTEMPO => TempoReaches(s, Countdown(r.param % 128))
  /\ r.fx = FUNKTEMPO =>
       /\ \A i \in 1 .. 2 : Speed(s, r.param)[i] \in Byte
       /\ PairReaches(s, [i \in 0 .. 1 |-> Speed(s, r.param)[i + 1]])

Playable(s) ==
  /\ \A x \in Chan :
       /\ WellFormed(s.orders[x])
       /\ \A i \in 0 .. s.orders[x].size - 1 :
            IsPattern(s.orders[x].entries[i]) => s.orders[x].entries[i] \in DOMAIN s.patterns
  /\ 0 \in DOMAIN s.patterns
  /\ \A p \in DOMAIN s.patterns :
       /\ PatternRows(s, p) \in 1 .. 128
       /\ \A r \in 0 .. PatternRows(s, p) - 1 : RowOK(s, RowAt(s, p, r))
  /\ 1 \in DOMAIN s.gates
  /\ \A i \in DOMAIN s.gates : s.gates[i] \in 1 .. 63
  /\ s.deftempo \in 0 .. 127
  /\ TempoReaches(s, s.deftempo)

SongsPlayable == \A s \in Songs : Playable(s)

-----------------------------------------------------------------------------
(* Places in a song: the sequencer's state a row is read under, the row.   *)

PlaceOK(s, x, n) ==
  /\ n = [seq |-> n.seq, row |-> n.row]
  /\ SeqOK(s.orders[x], n.seq)
  /\ n.seq.pattnum \in DOMAIN s.patterns
  /\ n.row \in 0 .. PatternRows(s, n.seq.pattnum)

EndsAt(s, n) == n.row = PatternRows(s, n.seq.pattnum)

\* The sequencer's state and the position the row after n is read under.
SeqAfter(s, x, n) ==
  IF EndsAt(s, n) THEN Sequence(PackedOrder(s.orders[x]), n.seq) ELSE n.seq
PtrAfter(s, n)    == IF EndsAt(s, n) THEN 0 ELSE n.row
RowAfter(s, x, n) == [seq |-> SeqAfter(s, x, n), row |-> PtrAfter(s, n) + 1]

-----------------------------------------------------------------------------
(* The inductive invariant.                                                *)

ChanFields == {"counter", "gatetimer", "instr", "newfx", "newparam", "newnote", "pattptr",
               "seq", "fetched", "next", "heard", "dur"}

\* The command in force is the one of the row fetched last.
CommandOf(s, c) ==
  IF c.next.row = 0 THEN c.newfx = DONOTHING
  ELSE LET r == RowAt(s, c.next.seq.pattnum, c.next.row - 1)
       IN  /\ c.newfx = r.fx
           /\ r.fx # DONOTHING => c.newparam = StoredParam(r)

ChanOK(s, x, c) ==
  /\ DOMAIN c = ChanFields
  /\ c.instr \in DOMAIN s.gates
  /\ PlaceOK(s, x, c.heard)
  /\ PlaceOK(s, x, c.next)
  /\ c.heard.row = 0 => c.dur = 0
  /\ CommandOf(s, c)

\* The row that plays is the last one fetched, and the next is to be read.
Unread(s, x, c) ==
  /\ c.fetched = 0
  /\ c.next = c.heard
  /\ c.seq = SeqAfter(s, x, c.heard)
  /\ c.pattptr = PtrAfter(s, c.heard)

\* The row after the one that plays has been fetched, once.
Fetched(s, x, c) ==
  /\ c.fetched = 1
  /\ c.next = RowAfter(s, x, c.heard)
  /\ c.seq = c.next.seq
  /\ c.pattptr = PtrAfter(s, c.next)

\* Before its first tick 0.
Started(s, x, c) ==
  /\ c.seq = SeqStart /\ c.pattptr = 0 /\ c.fetched = 0
  /\ c.heard = NoRow(x, s) /\ c.next = NoRow(x, s)

\* The gate timer done() compares the counter with.
GateOf(s, m, c) == IF m = "timer" THEN c.gatetimer
                   ELSE IF m = "live" THEN s.gates[c.instr] ELSE s.gates[1]

GateOK(s, m, c) ==
  /\ m = "timer" => \E i \in DOMAIN s.gates : c.gatetimer = s.gates[i]
  /\ m = "live" => \A i, j \in DOMAIN s.gates : s.gates[i] = s.gates[j]

\* From the gate timer's tick on until tick 0 the row has been fetched.
Running(s, m, x, c) ==
  /\ c.counter \in 0 .. 128
  /\ GateOK(s, m, c)
  /\ c.counter # 0 /\ c.counter <= GateOf(s, m, c) => Fetched(s, x, c)
  /\ c.counter = 0 \/ c.counter > GateOf(s, m, c) => Unread(s, x, c)

\* Channel x has not been through its first tick 0.
Waits(x) == stage = "init" \/ (stage = "lead-in" /\ x >= turn)

ChannelsOK ==
  /\ DOMAIN chn = Chan
  /\ \A x \in Chan :
       /\ ChanOK(song, x, chn[x])
       /\ Waits(x) => Started(song, x, chn[x])
       /\ stage = "init" => chn[x].counter = 0
       /\ stage = "lead-in" /\ x >= turn => chn[x].counter = 1
       /\ ~ Waits(x) => Running(song, mode, x, chn[x])

TempoOK(s, t, pair, set) ==
  /\ t \in [Chan -> 0 .. 127]
  /\ pair \in [0 .. 1 -> Byte]
  /\ set \in BOOLEAN
  /\ IF set THEN PairReaches(s, pair) ELSE pair = FirstFunk
  /\ \A x \in Chan : t[x] >= 2 \/ ~ set => TempoReaches(s, t[x])

IInv ==
  /\ song \in Songs
  /\ mode \in {"timer", "live", "fixed"}
  /\ mode = "live" => \A i, j \in DOMAIN song.gates : song.gates[i] = song.gates[j]
  /\ stage \in {"init", "lead-in", "plays"}
  /\ turn \in Chan
  /\ stage = "init" => turn = 0 /\ tempos \in [Chan -> 0 .. 127]
                       /\ funk = FirstFunk /\ paired = FALSE
  /\ stage # "init" => TempoOK(song, tempos, funk, paired)
  /\ ChannelsOK

-----------------------------------------------------------------------------
(* Lemmas about places.                                                    *)

\* A call of the sequencer reads a pattern of the song.
LEMMA SeqPlace ==
  ASSUME NEW s, Playable(s), NEW x \in Chan, NEW q, SeqOK(s.orders[x], q)
  PROVE  /\ SeqOK(s.orders[x], Sequence(PackedOrder(s.orders[x]), q))
         /\ Sequence(PackedOrder(s.orders[x]), q).pattnum \in DOMAIN s.patterns
<1>1. WellFormed(s.orders[x])
  BY DEF Playable
<1>2. PICK i \in 0 .. s.orders[x].size - 1 :
        /\ IsPattern(s.orders[x].entries[i])
        /\ Sequence(PackedOrder(s.orders[x]), q).pattnum = s.orders[x].entries[i]
  BY <1>1, SeqNames
<1>3. s.orders[x].entries[i] \in DOMAIN s.patterns
  BY <1>2 DEF Playable
<1> QED
  BY <1>1, <1>2, <1>3, SeqKeepsOK

\* The place after a place is one of the song, and not before its first row.
LEMMA PlaceAfter ==
  ASSUME NEW s, Playable(s), NEW x \in Chan, NEW n, PlaceOK(s, x, n)
  PROVE  /\ SeqOK(s.orders[x], SeqAfter(s, x, n))
         /\ SeqAfter(s, x, n).pattnum \in DOMAIN s.patterns
         /\ PatternRows(s, SeqAfter(s, x, n).pattnum) \in 1 .. 128
         /\ PtrAfter(s, n) \in 0 .. PatternRows(s, SeqAfter(s, x, n).pattnum) - 1
         /\ PlaceOK(s, x, RowAfter(s, x, n))
         /\ RowAfter(s, x, n).row # 0
<1> DEFINE q == SeqAfter(s, x, n)
<1>1. SeqOK(s.orders[x], q) /\ q.pattnum \in DOMAIN s.patterns
  BY SeqPlace DEF SeqAfter, PlaceOK
<1>2. PatternRows(s, q.pattnum) \in 1 .. 128
  BY <1>1 DEF Playable
<1>3. PtrAfter(s, n) \in 0 .. PatternRows(s, q.pattnum) - 1
  <2>1. CASE EndsAt(s, n)
    BY <1>2, <2>1 DEF PtrAfter
  <2>2. CASE ~ EndsAt(s, n)
    <3>1. q = n.seq /\ PtrAfter(s, n) = n.row
      BY <2>2 DEF SeqAfter, PtrAfter
    <3>2. n.row \in 0 .. PatternRows(s, q.pattnum) /\ n.row # PatternRows(s, q.pattnum)
      BY <2>2, <3>1 DEF PlaceOK, EndsAt
    <3> HIDE DEF q
    <3> QED
      BY <1>2, <3>1, <3>2
  <2> QED
    BY <2>1, <2>2
<1> HIDE DEF q
<1>4. PtrAfter(s, n) + 1 \in 0 .. PatternRows(s, q.pattnum) /\ PtrAfter(s, n) + 1 # 0
  BY <1>2, <1>3
<1> DEFINE m == RowAfter(s, x, n)
<1>5. m = [seq |-> q, row |-> PtrAfter(s, n) + 1]
  BY DEF RowAfter, q
<1> HIDE DEF m
<1>6. m.seq = q /\ m.row = PtrAfter(s, n) + 1 /\ m = [seq |-> m.seq, row |-> m.row]
  BY <1>5
<1>7. PlaceOK(s, x, m) /\ m.row # 0
  BY <1>1, <1>4, <1>6 DEF PlaceOK
<1> QED
  BY <1>1, <1>2, <1>3, <1>7 DEF q, m

\* The place before a channel's first row: the next row is its pattern's first.
LEMMA FirstPlace ==
  ASSUME NEW s, Playable(s), NEW x \in Chan
  PROVE  /\ PlaceOK(s, x, NoRow(x, s))
         /\ NoRow(x, s).row = 0
         /\ NoRow(x, s).seq = Sequence(PackedOrder(s.orders[x]), SeqStart)
         /\ SeqAfter(s, x, NoRow(x, s)) = NoRow(x, s).seq
         /\ PtrAfter(s, NoRow(x, s)) = 0
<1> DEFINE n == NoRow(x, s)
<1>1. n.row = 0 /\ n.seq = Sequence(PackedOrder(s.orders[x]), SeqStart)
      /\ n = [seq |-> n.seq, row |-> n.row]
  BY DEF NoRow
<1>2. SeqOK(s.orders[x], SeqStart)
  BY StartOK DEF Playable
<1>3. SeqOK(s.orders[x], n.seq) /\ n.seq.pattnum \in DOMAIN s.patterns
  BY <1>1, <1>2, SeqPlace
<1>4. PatternRows(s, n.seq.pattnum) \in 1 .. 128
  BY <1>3 DEF Playable
<1> HIDE DEF n
<1>5. PlaceOK(s, x, n) /\ ~ EndsAt(s, n)
  BY <1>1, <1>3, <1>4 DEF PlaceOK, EndsAt
<1> QED
  BY <1>1, <1>5 DEF SeqAfter, PtrAfter, n

\* The gate timer in force is one of the song's: a reload reaches it.
LEMMA GateInForce ==
  ASSUME NEW s, Playable(s), NEW m \in {"timer", "live", "fixed"}, NEW c, GateOK(s, m, c),
         c.instr \in DOMAIN s.gates
  PROVE  /\ GateOf(s, m, c) \in 1 .. 63
         /\ \A t : Reaches(s, t) => GateOf(s, m, c) <= t
<1>1. \E i \in DOMAIN s.gates : GateOf(s, m, c) = s.gates[i]
  BY DEF GateOf, GateOK, Playable
<1> QED
  BY <1>1 DEF Playable, Reaches

\* ... and the module's own.
LEMMA GateIs ==
  ASSUME mode \in {"timer", "live", "fixed"}, NEW c
  PROVE  Gate(c) = GateOf(song, mode, c)
<1>1. CASE mode = "timer"
  BY <1>1 DEF Gate, GateOf
<1>2. CASE mode = "live"
  BY <1>2 DEF Gate, GateOf
<1>3. CASE mode = "fixed"
  BY <1>3 DEF Gate, GateOf, FixedGate
<1> QED
  BY <1>1, <1>2, <1>3

-----------------------------------------------------------------------------
(* The stages of a channel's step.                                         *)

\* The gate timer's fetch reads the row after the one that plays.
LEMMA RowFetched ==
  ASSUME NEW x \in Chan, Playable(song), mode \in {"timer", "live", "fixed"},
         NEW c, ChanOK(song, x, c), GateOK(song, mode, c), Unread(song, x, c)
  PROVE  LET d == GetNewNote(c)
         IN  /\ ChanOK(song, x, d)
             /\ GateOK(song, mode, d)
             /\ GateOf(song, mode, d) = GateOf(song, mode, c)
             /\ Fetched(song, x, d)
             /\ d.counter = c.counter
             /\ d.heard = c.heard /\ d.dur = c.dur
<1> DEFINE row == RowAt(song, c.seq.pattnum, c.pattptr)
           at  == c.pattptr + 1
           d   == GetNewNote(c)
<1>1. /\ PlaceOK(song, x, c.heard)
      /\ c.seq = SeqAfter(song, x, c.heard)
      /\ c.pattptr = PtrAfter(song, c.heard)
      /\ DOMAIN c = ChanFields
      /\ c.fetched = 0
  BY DEF ChanOK, Unread
<1>2. /\ c.seq.pattnum \in DOMAIN song.patterns
      /\ PatternRows(song, c.seq.pattnum) \in 1 .. 128
      /\ c.pattptr \in 0 .. PatternRows(song, c.seq.pattnum) - 1
      /\ PlaceOK(song, x, RowAfter(song, x, c.heard))
      /\ RowAfter(song, x, c.heard).row # 0
  BY <1>1, PlaceAfter
<1>3. RowAfter(song, x, c.heard) = [seq |-> c.seq, row |-> at]
  BY <1>1 DEF RowAfter
<1>4. RowOK(song, row)
  BY <1>2 DEF Playable
<1>5. d = [c EXCEPT !.instr = IF row.instr # 0 THEN row.instr ELSE @,
                    !.newfx = row.fx,
                    !.newparam = IF row.fx # DONOTHING THEN StoredParam(row) ELSE @,
                    !.newnote = row.note \/ @,
                    !.pattptr = RowEnd(c, at),
                    !.fetched = IF @ < 2 THEN @ + 1 ELSE @,
                    !.next = [seq |-> c.seq, row |-> at]]
  BY DEF GetNewNote
<1> HIDE DEF d, row
<1>6. /\ DOMAIN d = ChanFields
      /\ d.instr = IF row.instr # 0 THEN row.instr ELSE c.instr
      /\ d.newfx = row.fx
      /\ row.fx # DONOTHING => d.newparam = StoredParam(row)
      /\ d.pattptr = RowEnd(c, at)
      /\ d.fetched = 1
      /\ d.next = [seq |-> c.seq, row |-> at]
      /\ d.counter = c.counter /\ d.heard = c.heard /\ d.dur = c.dur
      /\ d.seq = c.seq /\ d.gatetimer = c.gatetimer
  BY <1>1, <1>5 DEF ChanFields
<1>7. d.instr \in DOMAIN song.gates
  BY <1>4, <1>6 DEF RowOK, ChanOK
<1>8. CommandOf(song, d)
  <2>1. d.next.row # 0 /\ d.next.row - 1 = c.pattptr /\ d.next.seq = c.seq
    BY <1>2, <1>3, <1>6
  <2>2. row = RowAt(song, d.next.seq.pattnum, d.next.row - 1)
    BY <2>1 DEF row
  <2> QED
    BY <1>6, <2>1, <2>2 DEF CommandOf
<1>9. ChanOK(song, x, d)
  BY <1>2, <1>3, <1>6, <1>7, <1>8 DEF ChanOK
<1>10. GateOK(song, mode, d)
  BY <1>6 DEF GateOK
<1>11. GateOf(song, mode, d) = GateOf(song, mode, c)
  <2>1. CASE mode = "live"
    BY <1>7, <2>1 DEF GateOf, GateOK, ChanOK
  <2>2. CASE mode # "live"
    BY <1>6, <2>2 DEF GateOf
  <2> QED
    BY <2>1, <2>2
<1>12. Fetched(song, x, d)
  <2>1. d.next = RowAfter(song, x, d.heard) /\ d.seq = d.next.seq
    BY <1>3, <1>6
  <2>2. d.pattptr = PtrAfter(song, d.next)
    BY <1>6 DEF RowEnd, PtrAfter, EndsAt
  <2> QED
    BY <1>6, <2>1, <2>2 DEF Fetched
<1> QED
  BY <1>6, <1>9, <1>10, <1>11, <1>12 DEF d

\* What done() leaves: the row is fetched at the gate timer's tick, and at no
\* tick below it.
LEMMA DoneRuns ==
  ASSUME NEW x \in Chan, Playable(song), mode \in {"timer", "live", "fixed"},
         NEW c, ChanOK(song, x, c), GateOK(song, mode, c), c.counter \in 0 .. 128,
         c.counter # 0 /\ c.counter < GateOf(song, mode, c) => Fetched(song, x, c),
         c.counter = 0 \/ c.counter >= GateOf(song, mode, c) => Unread(song, x, c)
  PROVE  /\ ChanOK(song, x, Done(c))
         /\ Running(song, mode, x, Done(c))
         /\ Done(c).heard = c.heard /\ Done(c).dur = c.dur /\ Done(c).counter = c.counter
<1>1. Gate(c) = GateOf(song, mode, c)
  BY GateIs
<1>2. GateOf(song, mode, c) \in 1 .. 63
  BY GateInForce DEF ChanOK
<1>3. CASE c.counter = Gate(c)
  <2> DEFINE d == GetNewNote(c)
  <2>1. Unread(song, x, c)
    BY <1>1, <1>2, <1>3
  <2>2. /\ ChanOK(song, x, d)
        /\ GateOK(song, mode, d)
        /\ GateOf(song, mode, d) = GateOf(song, mode, c)
        /\ Fetched(song, x, d)
        /\ d.counter = c.counter
        /\ d.heard = c.heard /\ d.dur = c.dur
    BY <2>1, RowFetched
  <2>3. Done(c) = d
    BY <1>3 DEF Done
  <2> HIDE DEF d
  <2>4. Running(song, mode, x, d)
    BY <1>1, <1>2, <1>3, <2>2 DEF Running
  <2> QED
    BY <2>2, <2>3, <2>4
<1>4. CASE c.counter # Gate(c)
  <2>1. Done(c) = c
    BY <1>4 DEF Done
  <2>2. Running(song, mode, x, c)
    BY SMTT(30), <1>1, <1>2, <1>4 DEF Running
  <2> QED
    BY <2>1, <2>2
<1> QED
  BY <1>3, <1>4

\* A call that counts leaves everything but the counter and the length as it is.
LEMMA CountedIs ==
  ASSUME NEW c, DOMAIN c = ChanFields
  PROVE  /\ DOMAIN Counted(c) = ChanFields
         /\ Counted(c).counter = (c.counter - 1) % BYTES
         /\ Counted(c).dur = Lengthened(c.dur)
         /\ \A f \in ChanFields \ {"counter", "dur"} : Counted(c)[f] = c[f]
<1>1. Counted(c) = [c EXCEPT !.counter = (@ - 1) % BYTES, !.dur = Lengthened(@)]
  BY DEF Counted
<1> QED
  BY <1>1 DEF ChanFields

\* What the invariant says of a channel is not of its counter and length.
LEMMA SameRows ==
  ASSUME NEW s, NEW m, NEW x \in Chan, NEW c, NEW d, ChanOK(s, x, c), GateOK(s, m, c),
         DOMAIN d = ChanFields,
         \A f \in ChanFields \ {"counter", "dur"} : d[f] = c[f],
         d.dur = Lengthened(c.dur)
  PROVE  /\ ChanOK(s, x, d)
         /\ GateOK(s, m, d)
         /\ GateOf(s, m, d) = GateOf(s, m, c)
         /\ Unread(s, x, d) <=> Unread(s, x, c)
         /\ Fetched(s, x, d) <=> Fetched(s, x, c)
         /\ d.heard = c.heard
<1>1. /\ d.gatetimer = c.gatetimer /\ d.instr = c.instr /\ d.newfx = c.newfx
      /\ d.newparam = c.newparam /\ d.pattptr = c.pattptr /\ d.seq = c.seq
      /\ d.fetched = c.fetched /\ d.next = c.next /\ d.heard = c.heard
  BY DEF ChanFields
<1>2. c.heard.row = 0 => d.dur = 0
  BY DEF ChanOK, Lengthened
<1>3. CommandOf(s, d)
  BY <1>1 DEF ChanOK, CommandOf
<1> QED
  BY <1>1, <1>2, <1>3 DEF ChanOK, GateOK, GateOf, Unread, Fetched

-----------------------------------------------------------------------------
(* A channel's part of a call, on the channel's own variables.             *)

\* A call that counts keeps a running channel running, and fetches on time.
LEMMA CountRuns ==
  ASSUME NEW x \in Chan, Playable(song), mode \in {"timer", "live", "fixed"},
         NEW c, ChanOK(song, x, c), Running(song, mode, x, c), c.counter \in 2 .. 128
  PROVE  LET d == Done(Counted(c))
         IN  /\ ChanOK(song, x, d)
             /\ Running(song, mode, x, d)
             /\ d.counter = c.counter - 1
             /\ d.heard = c.heard /\ d.dur = Lengthened(c.dur)
<1> DEFINE k == Counted(c)
<1>1. DOMAIN c = ChanFields /\ GateOK(song, mode, c) /\ c.instr \in DOMAIN song.gates
  BY DEF ChanOK, Running
<1>2. k.counter = c.counter - 1
  <2>1. k.counter = (c.counter - 1) % BYTES
    BY <1>1, CountedIs
  <2>2. (c.counter - 1) % 256 = c.counter - 1
    OBVIOUS
  <2> QED
    BY <2>1, <2>2 DEF BYTES
<1>3. /\ ChanOK(song, x, k) /\ GateOK(song, mode, k)
      /\ GateOf(song, mode, k) = GateOf(song, mode, c)
      /\ Unread(song, x, k) <=> Unread(song, x, c)
      /\ Fetched(song, x, k) <=> Fetched(song, x, c)
      /\ k.heard = c.heard /\ k.dur = Lengthened(c.dur)
  <2>1. /\ DOMAIN k = ChanFields /\ k.dur = Lengthened(c.dur)
        /\ \A f \in ChanFields \ {"counter", "dur"} : k[f] = c[f]
    BY <1>1, CountedIs
  <2> HIDE DEF k
  <2> QED
    BY <1>1, <2>1, SameRows
<1>4. GateOf(song, mode, c) \in 1 .. 63
  BY <1>1, GateInForce
<1> HIDE DEF k
<1>5. k.counter \in 1 .. 127
  BY <1>2
<1>6. k.counter < GateOf(song, mode, k) => Fetched(song, x, k)
  BY SMTT(30), <1>2, <1>3, <1>4 DEF Running
<1>7. k.counter >= GateOf(song, mode, k) => Unread(song, x, k)
  BY SMTT(30), <1>2, <1>3, <1>4 DEF Running
<1>8. /\ ChanOK(song, x, Done(k))
      /\ Running(song, mode, x, Done(k))
      /\ Done(k).heard = k.heard /\ Done(k).dur = k.dur /\ Done(k).counter = k.counter
  BY <1>3, <1>5, <1>6, <1>7, DoneRuns
<1> QED
  BY <1>2, <1>3, <1>8 DEF k

\* So does a call that reloads the counter, if the reload reaches the gate timers.
LEMMA ReloadRuns ==
  ASSUME NEW x \in Chan, Playable(song), mode \in {"timer", "live", "fixed"},
         NEW c, ChanOK(song, x, c), Running(song, mode, x, c), c.counter = 0,
         NEW t, Reaches(song, t)
  PROVE  LET d == Done([Counted(c) EXCEPT !.counter = t])
         IN  /\ ChanOK(song, x, d)
             /\ Running(song, mode, x, d)
             /\ d.counter = t
             /\ d.heard = c.heard /\ d.dur = Lengthened(c.dur)
<1> DEFINE k == [Counted(c) EXCEPT !.counter = t]
<1>1. DOMAIN c = ChanFields /\ GateOK(song, mode, c) /\ c.instr \in DOMAIN song.gates
  BY DEF ChanOK, Running
<1>2. /\ ChanOK(song, x, k) /\ GateOK(song, mode, k)
      /\ GateOf(song, mode, k) = GateOf(song, mode, c)
      /\ Unread(song, x, k) <=> Unread(song, x, c)
      /\ k.heard = c.heard /\ k.dur = Lengthened(c.dur) /\ k.counter = t
  <2>1. /\ DOMAIN k = ChanFields /\ k.dur = Lengthened(c.dur) /\ k.counter = t
        /\ \A f \in ChanFields \ {"counter", "dur"} : k[f] = c[f]
    <3>1. /\ DOMAIN Counted(c) = ChanFields /\ Counted(c).dur = Lengthened(c.dur)
          /\ \A f \in ChanFields \ {"counter", "dur"} : Counted(c)[f] = c[f]
      BY <1>1, CountedIs
    <3> QED
      BY <3>1 DEF ChanFields
  <2> HIDE DEF k
  <2> QED
    BY <1>1, <2>1, SameRows
<1>3. GateOf(song, mode, c) \in 1 .. 63 /\ GateOf(song, mode, c) <= t /\ t \in 1 .. 128
  BY <1>1, GateInForce DEF Reaches
<1>4. Unread(song, x, c)
  BY DEF Running
<1> HIDE DEF k
<1>5. /\ ChanOK(song, x, Done(k))
      /\ Running(song, mode, x, Done(k))
      /\ Done(k).heard = k.heard /\ Done(k).dur = k.dur /\ Done(k).counter = k.counter
  <2>1. k.counter \in 0 .. 128 /\ ~ (k.counter < GateOf(song, mode, k))
    BY <1>2, <1>3
  <2> QED
    BY <1>2, <1>4, <2>1, DoneRuns
<1> QED
  BY <1>2, <1>5 DEF k

\* Tick 0 of a channel whose fetched row is there: that row plays from now on.
\* The counter is zero, below every gate timer, so done() fetches nothing.
LEMMA Tick0Runs ==
  ASSUME NEW x \in Chan, Playable(song), mode \in {"timer", "live", "fixed"},
         mode = "live" => \A i, j \in DOMAIN song.gates : song.gates[i] = song.gates[j],
         NEW c, ChanOK(song, x, c), c.counter = 1,
         c.pattptr = PtrAfter(song, c.next),
         (c.next.row = 0 /\ c.seq = SeqStart /\ c.next = NoRow(x, song)) \/ (c.next.row # 0 /\ c.seq = c.next.seq)
  PROVE  LET d == NoNewPatt(NewPattern(x, Heard(Counted(c))))
         IN  /\ ChanOK(song, x, d) /\ ChanOK(song, x, Done(d))
             /\ Running(song, mode, x, d) /\ Done(d) = d
             /\ d.counter = 0
             /\ d.heard = c.next
             /\ d.dur = IF c.next.row > 0 THEN 1 ELSE 0
<1> DEFINE h == Heard(Counted(c))
           p == NewPattern(x, h)
           d == NoNewPatt(p)
<1>1. DOMAIN c = ChanFields /\ PlaceOK(song, x, c.next) /\ c.instr \in DOMAIN song.gates
      /\ CommandOf(song, c)
  BY DEF ChanOK
<1>2. h = [Counted(c) EXCEPT !.heard = Counted(c).next,
                             !.dur = IF Counted(c).next.row > 0 THEN 1 ELSE 0,
                             !.fetched = 0]
  BY DEF Heard
<1>3. /\ DOMAIN Counted(c) = ChanFields
      /\ Counted(c).counter = 0
      /\ \A f \in ChanFields \ {"counter", "dur"} : Counted(c)[f] = c[f]
  <2>1. (c.counter - 1) % 256 = 0
    OBVIOUS
  <2> QED
    BY <1>1, <2>1, CountedIs DEF BYTES
<1>4. /\ DOMAIN h = ChanFields /\ h.counter = 0 /\ h.heard = c.next /\ h.next = c.next
      /\ h.dur = (IF c.next.row > 0 THEN 1 ELSE 0) /\ h.fetched = 0
      /\ h.gatetimer = c.gatetimer /\ h.instr = c.instr /\ h.newfx = c.newfx
      /\ h.newparam = c.newparam /\ h.pattptr = c.pattptr /\ h.seq = c.seq
  <2>1. Counted(c).next = c.next
    BY <1>3 DEF ChanFields
  <2> QED
    BY <1>2, <1>3, <2>1 DEF ChanFields
<1> HIDE DEF h
<1>5. p = IF h.pattptr = 0 THEN [h EXCEPT !.seq = Sequence(PackedOrder(song.orders[x]), h.seq)]
          ELSE h
  BY DEF NewPattern, EndsPattern, Ord
<1>6. /\ DOMAIN p = ChanFields /\ p.counter = 0 /\ p.heard = c.next /\ p.next = c.next
      /\ p.dur = (IF c.next.row > 0 THEN 1 ELSE 0) /\ p.fetched = 0
      /\ p.gatetimer = c.gatetimer /\ p.instr = c.instr /\ p.newfx = c.newfx
      /\ p.newparam = c.newparam /\ p.pattptr = c.pattptr
      /\ p.seq = IF c.pattptr = 0 THEN Sequence(PackedOrder(song.orders[x]), c.seq) ELSE c.seq
  BY <1>4, <1>5 DEF ChanFields
<1> HIDE DEF p
<1>7. /\ DOMAIN d = ChanFields /\ d.counter = 0 /\ d.heard = c.next /\ d.next = c.next
      /\ d.dur = (IF c.next.row > 0 THEN 1 ELSE 0) /\ d.fetched = 0
      /\ d.instr = c.instr /\ d.newfx = c.newfx /\ d.newparam = c.newparam
      /\ d.pattptr = c.pattptr /\ d.seq = p.seq
      /\ mode = "timer" => d.gatetimer = song.gates[c.instr]
  BY <1>6 DEF NoNewPatt, ChanFields
<1> HIDE DEF d
<1>8. d.seq = SeqAfter(song, x, c.next)
  <2>1. CASE c.next.row = 0
    <3>1. c.pattptr = 0 /\ SeqAfter(song, x, c.next) = Sequence(PackedOrder(song.orders[x]), SeqStart)
      BY <2>1, FirstPlace
    <3> QED
      BY <1>6, <1>7, <2>1, <3>1
  <2>2. CASE c.next.row # 0
    BY <1>6, <1>7, <2>2 DEF SeqAfter, PtrAfter
  <2> QED
    BY <2>1, <2>2
<1>9. Unread(song, x, d)
  BY <1>7, <1>8 DEF Unread
<1>10. GateOK(song, mode, d)
  BY <1>1, <1>7 DEF GateOK
<1>11. ChanOK(song, x, d)
  <2>1. CommandOf(song, d)
    BY <1>1, <1>7 DEF CommandOf
  <2> QED
    BY <1>1, <1>7, <2>1 DEF ChanOK
<1>12. GateOf(song, mode, d) \in 1 .. 63
  BY <1>1, <1>7, <1>10, GateInForce
<1>13. Running(song, mode, x, d)
  BY <1>7, <1>9, <1>10 DEF Running
<1>14. Done(d) = d
  BY <1>7, <1>12, GateIs DEF Done
<1> QED
  BY <1>7, <1>11, <1>13, <1>14 DEF d, p, h

-----------------------------------------------------------------------------
(* Tempos.                                                                 *)

\* What a packed tempo command says, of the tempo its row names.
LEMMA StoredTempo ==
  ASSUME NEW r, r.param \in Byte, r.fx = SETTEMPO
  PROVE  /\ StoredParam(r) \in Byte
         /\ StoredParam(r) % 128 = Countdown(r.param % 128)
         /\ Countdown(r.param % 128) \in 0 .. 127
         /\ StoredParam(r) >= 128 <=> r.param >= 128
         /\ StoredParam(r) < 128 => StoredParam(r) = Countdown(r.param % 128)
<1> DEFINE p == r.param
           t == p % 128
           u == Countdown(t)
<1>1. p \in 0 .. 255
  BY DEF Byte, BYTES
<1>2. t \in 0 .. 127 /\ (p = t \/ p = t + 128) /\ (p >= 128 <=> p = t + 128)
  BY <1>1
<1> HIDE DEF p, t
<1>3. u \in 0 .. 127
  BY <1>2 DEF Countdown
<1> HIDE DEF u
<1>4. StoredParam(r) = p - t + u
  BY DEF StoredParam, p, t, u
<1>5. p - t + u = u \/ p - t + u = 128 + u
  BY <1>2, <1>3
<1>6. u % 128 = u /\ (128 + u) % 128 = u
  BY <1>3
<1> QED
  BY <1>1, <1>2, <1>3, <1>4, <1>5, <1>6 DEF p, t, u, Byte, BYTES

\* The command of a fetched row is one the song may have.
LEMMA RowCommanded ==
  ASSUME NEW s, Playable(s), NEW x \in Chan, NEW c, ChanOK(s, x, c), c.newfx # DONOTHING
  PROVE  /\ c.next.row # 0
         /\ LET r == RowAt(s, c.next.seq.pattnum, c.next.row - 1)
            IN  RowOK(s, r) /\ c.newfx = r.fx /\ c.newparam = StoredParam(r)
<1> DEFINE p == c.next.seq.pattnum
           r == RowAt(s, p, c.next.row - 1)
<1>1. c.next.row # 0 /\ c.newfx = r.fx /\ c.newparam = StoredParam(r)
  BY DEF ChanOK, CommandOf
<1>2. p \in DOMAIN s.patterns /\ c.next.row \in 0 .. PatternRows(s, p)
  BY DEF ChanOK, PlaceOK
<1>3. PatternRows(s, p) \in 1 .. 128
  BY <1>2 DEF Playable
<1>4. c.next.row - 1 \in 0 .. PatternRows(s, p) - 1
  BY <1>1, <1>2, <1>3
<1>5. RowOK(s, r)
  BY <1>2, <1>4 DEF Playable
<1> QED
  BY <1>1, <1>5

\* A funktempo, a tempo for its channel, one for all, and any other command.
LEMMA CommandIs ==
  ASSUME Playable(song), NEW x \in Chan, NEW c, ChanOK(song, x, c), Tick0Cmd(x, c),
         TempoOK(song, tempos, funk, paired)
  PROVE  /\ tempos' \in [Chan -> 0 .. 127] /\ funk' \in [0 .. 1 -> Byte]
         /\ c.newfx = FUNKTEMPO =>
              /\ \A k \in Chan : tempos'[k] = 0
              /\ \A i \in 0 .. 1 : funk'[i] = Speed(song, c.newparam)[i + 1]
              /\ PairReaches(song, funk')
              /\ paired' = TRUE
         /\ c.newfx # FUNKTEMPO => funk' = funk /\ paired' = paired
         /\ c.newfx = SETTEMPO =>
              /\ c.newparam \in Byte
              /\ TempoReaches(song, c.newparam % 128)
              /\ \A k \in Chan : tempos'[k] = IF k = x \/ c.newparam < 128
                                                THEN c.newparam % 128 ELSE tempos[k]
         /\ c.newfx # FUNKTEMPO /\ c.newfx # SETTEMPO => tempos' = tempos
<1> DEFINE r == RowAt(song, c.next.seq.pattnum, c.next.row - 1)
<1>1. tempos \in [Chan -> 0 .. 127] /\ funk \in [0 .. 1 -> Byte] /\ paired \in BOOLEAN
  BY DEF TempoOK
<1>2. paired' = (paired \/ c.newfx = FUNKTEMPO)
  BY DEF Tick0Cmd
<1>3. (c.newfx = FUNKTEMPO => paired' = TRUE) /\ (c.newfx # FUNKTEMPO => paired' = paired)
  BY <1>1, <1>2, Zenon
<1>4. CASE c.newfx = FUNKTEMPO
  <2>1. r.fx = FUNKTEMPO /\ c.newparam = r.param /\ RowOK(song, r)
    <3>1. RowOK(song, r) /\ c.newfx = r.fx /\ c.newparam = StoredParam(r)
      BY <1>4, RowCommanded DEF FUNKTEMPO, DONOTHING
    <3> HIDE DEF r
    <3> QED
      BY <1>4, <3>1 DEF StoredParam, FUNKTEMPO, SETTEMPO
  <2>2. tempos' = [k \in Chan |-> 0]
        /\ funk' = [i \in 0 .. 1 |-> Speed(song, r.param)[i + 1]]
    BY <1>4, <2>1 DEF Tick0Cmd, FUNKTEMPO, SETTEMPO
  <2>3. PairReaches(song, funk') /\ \A i \in 1 .. 2 : Speed(song, r.param)[i] \in Byte
    BY <2>1, <2>2 DEF RowOK
  <2> HIDE DEF r
  <2>4. funk' \in [0 .. 1 -> Byte]
    BY <2>2, <2>3
  <2> QED
    BY <1>3, <1>4, <2>1, <2>2, <2>3, <2>4 DEF FUNKTEMPO, SETTEMPO
<1>5. CASE c.newfx = SETTEMPO
  <2>1. /\ c.newparam % 128 \in 0 .. 127 /\ TempoReaches(song, c.newparam % 128)
        /\ c.newparam \in Byte /\ (c.newparam < 128 => c.newparam = c.newparam % 128)
    <3>1. RowOK(song, r) /\ r.fx = SETTEMPO /\ c.newparam = StoredParam(r)
      BY <1>5, RowCommanded DEF SETTEMPO, DONOTHING
    <3> HIDE DEF r
    <3>2. r.param \in Byte /\ TempoReaches(song, Countdown(r.param % 128))
      BY <3>1 DEF RowOK
    <3> QED
      BY <3>1, <3>2, StoredTempo
  <2>2. c.newfx # FUNKTEMPO
    BY <1>5 DEF SETTEMPO, FUNKTEMPO
  <2>3. funk' = funk
    BY <2>2 DEF Tick0Cmd
  <2>4. tempos' = IF c.newparam >= 128 THEN [tempos EXCEPT ![x] = c.newparam % 128]
                  ELSE [k \in Chan |-> c.newparam]
    <3>1. c.newparam >= 128 <=> ~ (c.newparam < 128)
      BY <2>1 DEF Byte, BYTES
    <3> QED
      BY <1>5, <2>2, <3>1 DEF Tick0Cmd
  <2>5. \A k \in Chan : tempos'[k] = IF k = x \/ c.newparam < 128
                                       THEN c.newparam % 128 ELSE tempos[k]
    BY <1>1, <2>1, <2>4 DEF Byte, BYTES
  <2>6. tempos' \in [Chan -> 0 .. 127]
    BY <1>1, <2>1, <2>4 DEF Byte, BYTES
  <2> QED
    BY <1>1, <1>3, <1>5, <2>1, <2>2, <2>3, <2>5, <2>6
<1>6. CASE c.newfx # FUNKTEMPO /\ c.newfx # SETTEMPO
  <2>1. tempos' = tempos /\ funk' = funk
    BY <1>6 DEF Tick0Cmd
  <2> QED
    BY <1>1, <1>3, <1>6, <2>1
<1> QED
  BY <1>4, <1>5, <1>6

\* A tempo command leaves tempos whose reloads reach the gate timers.
LEMMA CommandReaches ==
  ASSUME Playable(song), NEW x \in Chan, NEW c, ChanOK(song, x, c), Tick0Cmd(x, c),
         TempoOK(song, tempos, funk, paired)
  PROVE  TempoOK(song, tempos', funk', paired')
<1>1. tempos' \in [Chan -> 0 .. 127] /\ funk' \in [0 .. 1 -> Byte]
  BY CommandIs
<1>2. CASE c.newfx = FUNKTEMPO
  <2>1. (\A k \in Chan : tempos'[k] = 0) /\ PairReaches(song, funk') /\ paired' = TRUE
    BY <1>2, CommandIs
  <2> QED
    BY <1>1, <2>1 DEF TempoOK
<1>3. CASE c.newfx = SETTEMPO
  <2>1. /\ funk' = funk /\ paired' = paired /\ TempoReaches(song, c.newparam % 128)
        /\ \A k \in Chan : tempos'[k] = c.newparam % 128 \/ tempos'[k] = tempos[k]
    <3>1. c.newfx # FUNKTEMPO
      BY <1>3 DEF FUNKTEMPO, SETTEMPO
    <3>2. funk' = funk /\ paired' = paired
      BY <3>1, CommandIs
    <3>3. /\ TempoReaches(song, c.newparam % 128)
          /\ \A k \in Chan : tempos'[k] = IF k = x \/ c.newparam < 128
                                            THEN c.newparam % 128 ELSE tempos[k]
      BY <1>3, CommandIs
    <3> QED
      BY <3>2, <3>3
  <2> QED
    BY <1>1, <2>1 DEF TempoOK
<1>4. CASE c.newfx # FUNKTEMPO /\ c.newfx # SETTEMPO
  <2>1. tempos' = tempos /\ funk' = funk /\ paired' = paired
    BY <1>4, CommandIs
  <2> QED
    BY <2>1
<1> QED
  BY <1>2, <1>3, <1>4

\* Every reload reaches the gate timers, and the pair's turn keeps it so.
LEMMA ReloadReaches ==
  ASSUME NEW x \in Chan, TempoOK(song, tempos, funk, paired),
         tempos' = [tempos EXCEPT ![x] = IF @ >= 2 THEN @ ELSE 1 - @],
         UNCHANGED <<funk, paired>>
  PROVE  /\ Reaches(song, Reloaded(x))
         /\ TempoOK(song, tempos', funk', paired')
<1>1. tempos \in [Chan -> 0 .. 127] /\ funk \in [0 .. 1 -> Byte] /\ paired \in BOOLEAN
  BY DEF TempoOK
<1>2. Reaches(song, Reloaded(x))
  <2>1. CASE tempos[x] >= 2
    BY <2>1 DEF TempoOK, TempoReaches, Reloaded
  <2>2. CASE ~ (tempos[x] >= 2)
    <3>1. tempos[x] \in 0 .. 1
      BY <1>1, <2>2
    <3>2. PairReaches(song, funk)
      BY <2>2 DEF TempoOK, TempoReaches
    <3> QED
      BY <2>2, <3>1, <3>2 DEF PairReaches, Reloaded
  <2> QED
    BY <2>1, <2>2
<1>3. \A y \in Chan : \/ tempos'[y] = tempos[y]
                      \/ tempos[y] \in 0 .. 1 /\ tempos'[y] \in 0 .. 1
  BY <1>1
<1>4. tempos' \in [Chan -> 0 .. 127]
  BY <1>1
<1>5. ASSUME NEW y \in Chan, tempos'[y] >= 2 \/ ~ paired
      PROVE  TempoReaches(song, tempos'[y])
  <2>1. CASE tempos'[y] = tempos[y]
    BY <1>5, <2>1 DEF TempoOK
  <2>2. CASE tempos[y] \in 0 .. 1 /\ tempos'[y] \in 0 .. 1
    BY <1>5, <2>2 DEF TempoOK, TempoReaches
  <2> QED
    BY <1>3, <2>1, <2>2
<1> QED
  BY <1>2, <1>4, <1>5 DEF TempoOK

-----------------------------------------------------------------------------
(* Each action keeps the invariant.                                        *)

\* The invariant holds when a song is packed.
LEMMA InitIInv ==
  ASSUME SongsPlayable, Init
  PROVE  IInv
<1>1. song \in Songs /\ Playable(song) /\ mode \in {"timer", "live", "fixed"}
  BY GateModesAssumption DEF Init, SongsPlayable
<1>2. /\ stage = "init" /\ turn = 0 /\ turn \in Chan
      /\ tempos \in [Chan -> 0 .. 127] /\ funk = FirstFunk /\ paired = FALSE
  BY ChannelsAssumption DEF Init, Chan
<1>3. DOMAIN chn = Chan
  BY DEF Init
<1>4. ASSUME NEW x \in Chan
      PROVE  /\ ChanOK(song, x, chn[x])
             /\ Started(song, x, chn[x])
             /\ chn[x].counter = 0
  <2> DEFINE c == chn[x]
  <2>1. /\ DOMAIN c = ChanFields /\ c.counter = 0 /\ c.instr = 1 /\ c.newfx = DONOTHING
        /\ c.pattptr = 0 /\ c.seq = SeqStart /\ c.fetched = 0 /\ c.dur = 0
        /\ c.next = NoRow(x, song) /\ c.heard = NoRow(x, song)
    BY DEF Init, ChanFields
  <2> HIDE DEF c
  <2>2. PlaceOK(song, x, NoRow(x, song)) /\ NoRow(x, song).row = 0
    BY <1>1, FirstPlace
  <2>3. ChanOK(song, x, c)
    BY <1>1, <2>1, <2>2 DEF ChanOK, CommandOf, Playable
  <2> QED
    BY <2>1, <2>3 DEF Started, c
<1>5. ChannelsOK
  BY <1>2, <1>3, <1>4 DEF ChannelsOK, Waits
<1> QED
  BY <1>1, <1>2, <1>5 DEF IInv, Init

\* The first play call keeps it.
LEMMA StartKeeps ==
  ASSUME SongsPlayable, IInv, StartCall
  PROVE  IInv'
<1>1. Playable(song)
  BY DEF IInv, SongsPlayable
<1>2. /\ stage = "init" /\ stage' = "lead-in" /\ turn = 0 /\ turn' = 0
      /\ song' = song /\ mode' = mode
      /\ funk = FirstFunk /\ funk' = funk /\ paired = FALSE /\ paired' = paired
  BY DEF IInv, StartCall
<1>3. TempoOK(song, tempos', funk', paired')
  <2>1. tempos' = [x \in Chan |-> song.deftempo]
    BY DEF StartCall
  <2>2. FirstFunk \in [0 .. 1 -> Byte]
    BY DEF FirstFunk, Byte, BYTES
  <2> QED
    BY <1>1, <1>2, <2>1, <2>2 DEF TempoOK, Playable
<1>4. ASSUME NEW x \in Chan
      PROVE  /\ ChanOK(song, x, chn'[x])
             /\ Started(song, x, chn'[x])
             /\ chn'[x].counter = 1
  <2>1. ChanOK(song, x, chn[x]) /\ Started(song, x, chn[x])
    BY <1>2 DEF IInv, ChannelsOK, Waits
  <2>2. chn'[x] = [chn[x] EXCEPT !.counter = 1, !.instr = 1]
    BY DEF StartCall
  <2> DEFINE c == chn[x]
             d == chn'[x]
  <2>3. DOMAIN c = ChanFields
    BY <2>1 DEF ChanOK
  <2> HIDE DEF c, d
  <2>4. /\ DOMAIN d = ChanFields /\ d.counter = 1 /\ d.instr = 1 /\ d.newfx = c.newfx
        /\ d.newparam = c.newparam /\ d.pattptr = c.pattptr /\ d.seq = c.seq
        /\ d.fetched = c.fetched /\ d.next = c.next /\ d.heard = c.heard /\ d.dur = c.dur
    BY <2>2, <2>3 DEF ChanFields, c, d
  <2>5. ChanOK(song, x, d)
    BY <1>1, <2>1, <2>4 DEF ChanOK, CommandOf, Playable, c
  <2>6. Started(song, x, d)
    BY <2>1, <2>4 DEF Started, c
  <2> QED
    BY <2>4, <2>5, <2>6 DEF d
<1>5. DOMAIN chn' = Chan
  BY DEF StartCall
<1>6. ChannelsOK'
  BY <1>2, <1>4, <1>5 DEF ChannelsOK, Waits, Chan
<1> QED
  BY <1>2, <1>3, <1>6 DEF IInv, Chan

\* The channels that have had their turn: this one has, the others are as before.
LEMMA TurnTaken ==
  ASSUME IInv, NEW x \in Chan, Turn(x)
  PROVE  /\ song' = song /\ mode' = mode
         /\ stage \in {"lead-in", "plays"} /\ stage' \in {"lead-in", "plays"}
         /\ turn = x /\ turn' \in Chan
         /\ Waits(x) <=> stage = "lead-in"
         /\ ~ Waits(x)'
         /\ \A y \in Chan \ {x} : Waits(y)' <=> Waits(y)
         /\ turn' = IF x = Channels - 1 THEN 0 ELSE x + 1
         /\ stage' = IF x = Channels - 1 THEN "plays" ELSE stage
<1>1. Channels \in Nat \ {0} /\ x \in 0 .. Channels - 1 /\ Chan = 0 .. Channels - 1
  BY ChannelsAssumption DEF Chan
<1>2. turn = x /\ turn' = (x + 1) % Channels /\ song' = song /\ mode' = mode
      /\ stage' = (IF x = Channels - 1 THEN "plays" ELSE stage)
      /\ stage \in {"lead-in", "plays"}
  BY DEF Turn, IInv
<1>3. turn' = IF x = Channels - 1 THEN 0 ELSE x + 1
  <2>1. CASE x = Channels - 1
    <3>1. (x + 1) % Channels = 0
      BY <1>1, <2>1
    <3> QED
      BY <1>2, <2>1, <3>1
  <2>2. CASE x # Channels - 1
    <3>1. x + 1 \in 0 .. Channels - 1
      BY <1>1, <2>2
    <3>2. (x + 1) % Channels = x + 1
      BY <1>1, <3>1
    <3> QED
      BY <1>2, <2>2, <3>2
  <2> QED
    BY <2>1, <2>2
<1>4. turn' \in Chan
  BY <1>1, <1>3
<1>5. ~ Waits(x)' /\ (Waits(x) <=> stage = "lead-in")
  BY <1>1, <1>2, <1>3 DEF Waits
<1>6. ASSUME NEW y \in Chan, y # x PROVE Waits(y)' <=> Waits(y)
  BY <1>1, <1>2, <1>3, <1>6 DEF Waits
<1> QED
  BY <1>2, <1>3, <1>4, <1>5, <1>6

\* A turn that leaves its channel running keeps the channels' part.
LEMMA OneRuns ==
  ASSUME IInv, NEW x \in Chan, Turn(x), NEW d, ChanOK(song, x, d), Running(song, mode, x, d),
         DOMAIN chn' = Chan, chn'[x] = d, \A y \in Chan \ {x} : chn'[y] = chn[y]
  PROVE  ChannelsOK'
<1>1. /\ song' = song /\ mode' = mode /\ stage' \in {"lead-in", "plays"}
      /\ ~ Waits(x)' /\ stage \in {"lead-in", "plays"}
      /\ \A y \in Chan \ {x} : Waits(y)' <=> Waits(y)
  BY TurnTaken
<1>2. ASSUME NEW y \in Chan
      PROVE  /\ ChanOK(song, y, chn'[y])
             /\ Waits(y)' => Started(song, y, chn'[y])
             /\ stage' = "lead-in" /\ y >= turn' => chn'[y].counter = 1
             /\ ~ Waits(y)' => Running(song, mode, y, chn'[y])
  <2>1. CASE y = x
    <3>1. ~ (stage' = "lead-in" /\ y >= turn')
      BY <1>1, <2>1 DEF Waits
    <3> QED
      BY <1>1, <2>1, <3>1
  <2>2. CASE y # x
    <3>1. chn'[y] = chn[y] /\ (Waits(y)' <=> Waits(y))
      BY <1>1, <2>2
    <3>2. stage' = "lead-in" /\ y >= turn' => Waits(y)
      BY <3>1 DEF Waits
    <3>3. Waits(y) => chn[y].counter = 1
      BY <1>1 DEF Waits, IInv, ChannelsOK
    <3> QED
      BY <3>1, <3>2, <3>3 DEF IInv, ChannelsOK
  <2> QED
    BY <2>1, <2>2
<1> QED
  BY <1>1, <1>2 DEF ChannelsOK

\* A channel before its turn: what its next call finds.
LEMMA TurnFinds ==
  ASSUME SongsPlayable, IInv, NEW x \in Chan, Turn(x)
  PROVE  /\ Playable(song) /\ mode \in {"timer", "live", "fixed"}
         /\ ChanOK(song, x, chn[x])
         /\ TempoOK(song, tempos, funk, paired)
         /\ stage = "lead-in" => Started(song, x, chn[x]) /\ chn[x].counter = 1
         /\ stage = "plays" => Running(song, mode, x, chn[x])
         /\ chn[x].counter # 1 => stage = "plays"
         /\ chn[x].counter \in 0 .. 128
<1>1. stage \in {"lead-in", "plays"} /\ turn = x /\ (Waits(x) <=> stage = "lead-in")
  BY TurnTaken
<1>2. Playable(song) /\ mode \in {"timer", "live", "fixed"}
  BY DEF IInv, SongsPlayable
<1>3. ChanOK(song, x, chn[x]) /\ TempoOK(song, tempos, funk, paired)
  BY <1>1 DEF IInv, ChannelsOK
<1>4. stage = "lead-in" => Started(song, x, chn[x]) /\ chn[x].counter = 1
  BY <1>1 DEF IInv, ChannelsOK, Chan
<1>5. stage = "plays" => Running(song, mode, x, chn[x])
  BY <1>1 DEF IInv, ChannelsOK
<1> QED
  BY <1>1, <1>2, <1>3, <1>4, <1>5 DEF Running

\* Where a channel's tick 0 leaves it: the row fetched before plays.
LEMMA Tick0Is ==
  ASSUME SongsPlayable, IInv, NEW x \in Chan, Tick0(x)
  PROVE  \E d : /\ chn' = [chn EXCEPT ![x] = d]
                /\ ChanOK(song, x, d) /\ Running(song, mode, x, d)
                /\ d.counter = 0 /\ d.heard = chn[x].next
                /\ d.dur = IF chn[x].next.row > 0 THEN 1 ELSE 0
                /\ stage = "plays" => Fetched(song, x, chn[x]) /\ chn[x].next.row # 0
                /\ stage = "lead-in" => chn[x].next.row = 0
<1> DEFINE c == chn[x]
           d == NoNewPatt(NewPattern(x, Heard(Counted(c))))
<1>1. /\ Playable(song) /\ mode \in {"timer", "live", "fixed"}
      /\ ChanOK(song, x, c) /\ c.counter = 1
      /\ stage = "lead-in" => Started(song, x, c)
      /\ stage = "plays" => Running(song, mode, x, c)
      /\ stage \in {"lead-in", "plays"}
  BY TurnFinds, TurnTaken DEF Tick0
<1>2. mode = "live" => \A i, j \in DOMAIN song.gates : song.gates[i] = song.gates[j]
  BY DEF IInv
<1>3. chn' = [chn EXCEPT ![x] = IF InitEnds(c) THEN d ELSE Done(d)]
  BY DEF Tick0
<1> HIDE DEF c
<1>4. stage = "lead-in" =>
        c.pattptr = PtrAfter(song, c.next) /\ c.next.row = 0 /\ c.seq = SeqStart
        /\ c.next = NoRow(x, song)
  BY <1>1, FirstPlace DEF Started
<1>5. stage = "plays" =>
        c.pattptr = PtrAfter(song, c.next) /\ c.next.row # 0 /\ c.seq = c.next.seq
        /\ Fetched(song, x, c)
  <2>1. GateOK(song, mode, c) /\ c.instr \in DOMAIN song.gates =>
          GateOf(song, mode, c) \in 1 .. 63
    BY <1>1, GateInForce
  <2>2. stage = "plays" => Fetched(song, x, c)
    BY <1>1, <2>1 DEF Running, ChanOK
  <2>3. PlaceOK(song, x, c.heard)
    BY <1>1 DEF ChanOK
  <2> QED
    BY <1>1, <2>2, <2>3, PlaceAfter DEF Fetched
<1>6. /\ ChanOK(song, x, d) /\ Running(song, mode, x, d) /\ Done(d) = d
      /\ d.counter = 0 /\ d.heard = c.next
      /\ d.dur = IF c.next.row > 0 THEN 1 ELSE 0
  BY <1>1, <1>2, <1>4, <1>5, Tick0Runs
<1>7. chn' = [chn EXCEPT ![x] = d]
  BY <1>3, <1>6
<1> QED
  BY <1>4, <1>5, <1>6, <1>7 DEF c

\* A tick 0 keeps it.
LEMMA Tick0Keeps ==
  ASSUME SongsPlayable, IInv, NEW x \in Chan, Tick0(x)
  PROVE  IInv'
<1>1. Turn(x) /\ Tick0Cmd(x, chn[x])
  BY DEF Tick0
<1>2. /\ song' = song /\ mode' = mode /\ stage' \in {"lead-in", "plays"} /\ turn' \in Chan
  BY <1>1, TurnTaken
<1>3. PICK d : /\ chn' = [chn EXCEPT ![x] = d]
               /\ ChanOK(song, x, d) /\ Running(song, mode, x, d)
  BY Tick0Is
<1>4. ChannelsOK'
  <2>1. DOMAIN chn = Chan
    BY DEF IInv, ChannelsOK
  <2>2. DOMAIN chn' = Chan /\ chn'[x] = d /\ \A y \in Chan \ {x} : chn'[y] = chn[y]
    BY <1>3, <2>1
  <2> QED
    BY <1>1, <1>3, <2>2, OneRuns
<1>5. TempoOK(song, tempos', funk', paired')
  BY <1>1, TurnFinds, CommandReaches
<1> QED
  BY <1>2, <1>4, <1>5 DEF IInv

\* A counter that is reloaded is one that plays a row, or leads in to one.
LEMMA ReloadIs ==
  ASSUME SongsPlayable, IInv, NEW x \in Chan, Reload(x)
  PROVE  \E d : /\ chn' = [chn EXCEPT ![x] = d]
                /\ ChanOK(song, x, d) /\ Running(song, mode, x, d)
                /\ d.counter = Reloaded(x) /\ Reaches(song, Reloaded(x))
                /\ d.heard = chn[x].heard /\ d.dur = Lengthened(chn[x].dur)
                /\ stage = "plays" /\ chn[x].counter = 0
                /\ TempoOK(song, tempos', funk', paired')
<1> DEFINE c == chn[x]
           k == [Counted(c) EXCEPT !.counter = Reloaded(x)]
           d == Done(k)
<1>1. /\ Turn(x) /\ (c.counter = 0 \/ c.counter > 128)
      /\ tempos' = [tempos EXCEPT ![x] = IF @ >= 2 THEN @ ELSE 1 - @]
      /\ UNCHANGED <<funk, paired>>
  BY DEF Reload
<1>2. /\ Playable(song) /\ mode \in {"timer", "live", "fixed"}
      /\ ChanOK(song, x, c) /\ TempoOK(song, tempos, funk, paired)
      /\ c.counter \in 0 .. 128
      /\ c.counter # 1 => stage = "plays"
      /\ stage = "plays" => Running(song, mode, x, c)
  BY <1>1, TurnFinds
<1>3. chn' = [chn EXCEPT ![x] = d]
  BY DEF Reload
<1> HIDE DEF c
<1>4. c.counter = 0 /\ stage = "plays" /\ Running(song, mode, x, c)
  BY <1>1, <1>2
<1>5. Reaches(song, Reloaded(x)) /\ TempoOK(song, tempos', funk', paired')
  BY <1>1, <1>2, ReloadReaches
<1>6. /\ ChanOK(song, x, d) /\ Running(song, mode, x, d) /\ d.counter = Reloaded(x)
      /\ d.heard = c.heard /\ d.dur = Lengthened(c.dur)
  BY <1>2, <1>4, <1>5, ReloadRuns
<1> HIDE DEF d
<1> QED
  BY <1>3, <1>4, <1>5, <1>6 DEF c

\* Any other call of a running channel.
LEMMA CountIs ==
  ASSUME SongsPlayable, IInv, NEW x \in Chan, Count(x)
  PROVE  \E d : /\ chn' = [chn EXCEPT ![x] = d]
                /\ ChanOK(song, x, d) /\ Running(song, mode, x, d)
                /\ d.counter = chn[x].counter - 1
                /\ d.heard = chn[x].heard /\ d.dur = Lengthened(chn[x].dur)
                /\ stage = "plays" /\ chn[x].counter \in 2 .. 128
<1> DEFINE c == chn[x]
           d == Done(Counted(c))
<1>1. Turn(x) /\ c.counter \in 2 .. 128 /\ chn' = [chn EXCEPT ![x] = d]
  BY DEF Count
<1>2. /\ Playable(song) /\ mode \in {"timer", "live", "fixed"}
      /\ ChanOK(song, x, c)
      /\ c.counter # 1 => stage = "plays"
      /\ stage = "plays" => Running(song, mode, x, c)
  BY <1>1, TurnFinds
<1> HIDE DEF c
<1>3. stage = "plays" /\ Running(song, mode, x, c)
  BY <1>1, <1>2
<1>4. /\ ChanOK(song, x, d) /\ Running(song, mode, x, d) /\ d.counter = c.counter - 1
      /\ d.heard = c.heard /\ d.dur = Lengthened(c.dur)
  BY <1>1, <1>2, <1>3, CountRuns
<1> HIDE DEF d
<1> QED
  BY <1>1, <1>3, <1>4 DEF c

\* A reload keeps the invariant.
LEMMA ReloadKeeps ==
  ASSUME SongsPlayable, IInv, NEW x \in Chan, Reload(x)
  PROVE  IInv'
<1>1. Turn(x)
  BY DEF Reload
<1>2. /\ song' = song /\ mode' = mode /\ stage' \in {"lead-in", "plays"} /\ turn' \in Chan
  BY <1>1, TurnTaken
<1>3. PICK d : /\ chn' = [chn EXCEPT ![x] = d]
               /\ ChanOK(song, x, d) /\ Running(song, mode, x, d)
               /\ TempoOK(song, tempos', funk', paired')
  BY ReloadIs
<1>4. DOMAIN chn = Chan
  BY DEF IInv, ChannelsOK
<1>5. DOMAIN chn' = Chan /\ chn'[x] = d /\ \A y \in Chan \ {x} : chn'[y] = chn[y]
  BY <1>3, <1>4
<1>6. ChannelsOK'
  BY <1>1, <1>3, <1>5, OneRuns
<1> QED
  BY <1>2, <1>3, <1>6 DEF IInv

\* So does a count.
LEMMA CountKeeps ==
  ASSUME SongsPlayable, IInv, NEW x \in Chan, Count(x)
  PROVE  IInv'
<1>1. Turn(x) /\ UNCHANGED <<tempos, funk, paired>>
  BY DEF Count
<1>2. /\ song' = song /\ mode' = mode /\ stage' \in {"lead-in", "plays"} /\ turn' \in Chan
  BY <1>1, TurnTaken
<1>3. PICK d : /\ chn' = [chn EXCEPT ![x] = d]
               /\ ChanOK(song, x, d) /\ Running(song, mode, x, d)
  BY CountIs
<1>4. DOMAIN chn = Chan
  BY DEF IInv, ChannelsOK
<1>5. DOMAIN chn' = Chan /\ chn'[x] = d /\ \A y \in Chan \ {x} : chn'[y] = chn[y]
  BY <1>3, <1>4
<1>6. ChannelsOK'
  BY <1>1, <1>3, <1>5, OneRuns
<1>7. TempoOK(song, tempos, funk, paired)
  BY <1>1, TurnFinds
<1> QED
  BY <1>1, <1>2, <1>6, <1>7 DEF IInv

\* Every step keeps it.
LEMMA StepIInv ==
  ASSUME SongsPlayable, IInv, [Next]_vars
  PROVE  IInv'
<1>1. CASE StartCall
  BY <1>1, StartKeeps
<1>2. ASSUME NEW x \in Chan, Tick0(x) PROVE IInv'
  BY <1>2, Tick0Keeps
<1>3. ASSUME NEW x \in Chan, Reload(x) PROVE IInv'
  BY <1>3, ReloadKeeps
<1>4. ASSUME NEW x \in Chan, Count(x) PROVE IInv'
  BY <1>4, CountKeeps
<1>5. CASE UNCHANGED vars
  BY <1>5 DEF vars, IInv, ChannelsOK, Waits
<1> QED
  BY <1>1, <1>2, <1>3, <1>4, <1>5 DEF Next

-----------------------------------------------------------------------------
(* What follows.                                                           *)

\* Every reachable state of a song whose tempos leave its gate timers time
\* satisfies the inductive invariant: the row a channel has fetched is the one
\* after the row that plays, from the gate timer's tick on and never before.
THEOREM IInvHolds ==
  ASSUME SongsPlayable
  PROVE  Spec => []IInv
<1>1. Init => IInv
  BY InitIInv
<1>2. IInv /\ [Next]_vars => IInv'
  BY StepIInv
<1> QED
  BY <1>1, <1>2, PTL DEF Spec

\* Between two tick 0s at most one row is fetched, whichever gate timer the
\* build compares the counter with.
THEOREM FetchesOnce ==
  ASSUME SongsPlayable
  PROVE  Spec => []FetchedOnce
<1>1. IInv => FetchedOnce
  <2> SUFFICES ASSUME IInv, NEW x \in Chan PROVE chn[x].fetched <= 1
    BY DEF FetchedOnce
  <2>1. CASE Waits(x)
    BY <2>1 DEF IInv, ChannelsOK, Started
  <2>2. CASE ~ Waits(x)
    <3>1. song \in Songs /\ Playable(song) /\ ChanOK(song, x, chn[x])
          /\ Running(song, mode, x, chn[x]) /\ mode \in {"timer", "live", "fixed"}
      BY <2>2 DEF IInv, ChannelsOK, SongsPlayable
    <3>2. GateOf(song, mode, chn[x]) \in 1 .. 63
      BY <3>1, GateInForce DEF Running, ChanOK
    <3>3. Fetched(song, x, chn[x]) \/ Unread(song, x, chn[x])
      <4>1. chn[x].counter \in 0 .. 128
        BY <3>1 DEF Running
      <4>2. CASE chn[x].counter # 0 /\ chn[x].counter <= GateOf(song, mode, chn[x])
        BY <3>1, <4>2 DEF Running
      <4>3. CASE chn[x].counter = 0 \/ chn[x].counter > GateOf(song, mode, chn[x])
        BY <3>1, <4>3 DEF Running
      <4> QED
        BY SMTT(30), <3>2, <4>1, <4>2, <4>3
    <3> QED
      BY <3>3 DEF Fetched, Unread
  <2> QED
    BY <2>1, <2>2
<1> QED
  BY <1>1, IInvHolds, PTL

\* No tick 0 finds the row of the tick 0 before still waiting to be read: the
\* next one has been fetched by then, exactly once.
THEOREM RowsAreReady ==
  ASSUME SongsPlayable
  PROVE  Spec => RowReady
<1>1. IInv => \A x \in Chan : BeginsRow(x) => chn[x].fetched = 1
  <2> SUFFICES ASSUME IInv, NEW x \in Chan, BeginsRow(x) PROVE chn[x].fetched = 1
    OBVIOUS
  <2>1. stage = "plays" /\ chn[x].counter = 1
    BY DEF BeginsRow
  <2>2. song \in Songs /\ Playable(song) /\ ChanOK(song, x, chn[x])
        /\ Running(song, mode, x, chn[x]) /\ mode \in {"timer", "live", "fixed"}
    BY <2>1 DEF IInv, ChannelsOK, SongsPlayable, Waits
  <2>3. GateOf(song, mode, chn[x]) \in 1 .. 63
    BY <2>2, GateInForce DEF Running, ChanOK
  <2>4. Fetched(song, x, chn[x])
    BY <2>1, <2>2, <2>3 DEF Running
  <2> QED
    BY <2>4 DEF Fetched
<1>2. IInv => [\A x \in Chan : BeginsRow(x) => chn[x].fetched = 1]_vars
  BY <1>1
<1> QED
  BY <1>2, IInvHolds, PTL DEF RowReady

\* A place has its type.
LEMMA PlaceType ==
  ASSUME NEW s, Playable(s), NEW x \in Chan, NEW n, PlaceOK(s, x, n)
  PROVE  n \in RowNumbers
<1> DEFINE q == n.seq
<1>1. q \in [songptr : Byte, trans : Byte, repeat : Byte,
             pattnum : 0 .. REPEAT - 1, loops : 0 .. LoopCap]
  <2>1. s.orders[x].size \in 1 .. 254
    BY PackedEnds DEF Playable, BYTES
  <2>2. q \in [songptr : 0 .. s.orders[x].size, trans : Byte, repeat : 0 .. 14,
               pattnum : 0 .. REPEAT - 1, loops : 0 .. LoopCap]
    BY DEF PlaceOK, SeqOK
  <2> HIDE DEF q
  <2>3. q.songptr \in 0 .. s.orders[x].size /\ q.repeat \in 0 .. 14
    BY <2>2
  <2>4. q.songptr \in Byte /\ q.repeat \in Byte
    BY SMTT(30), <2>1, <2>3 DEF Byte, BYTES
  <2> QED
    BY <2>2, <2>4
<1>2. n.row \in 0 .. 128
  BY DEF PlaceOK, Playable
<1>3. n = [seq |-> n.seq, row |-> n.row]
  BY DEF PlaceOK
<1> QED
  BY <1>1, <1>2, <1>3 DEF RowNumbers

\* A channel's variables have their types.
LEMMA ChannelType ==
  ASSUME SongsPlayable, IInv, NEW x \in Chan
  PROVE  /\ chn[x].counter \in Byte
         /\ chn[x].instr \in DOMAIN song.gates
         /\ chn[x].pattptr \in 0 .. PatternRows(song, chn[x].seq.pattnum) - 1
         /\ chn[x].fetched \in 0 .. 2
         /\ chn[x].next \in RowNumbers /\ chn[x].heard \in RowNumbers
<1> DEFINE c == chn[x]
<1>1. /\ Playable(song) /\ mode \in {"timer", "live", "fixed"} /\ ChanOK(song, x, c)
      /\ Waits(x) => Started(song, x, c) /\ c.counter \in {0, 1}
      /\ ~ Waits(x) => Running(song, mode, x, c)
  BY DEF IInv, ChannelsOK, Waits, SongsPlayable
<1> HIDE DEF c
<1>2. c.instr \in DOMAIN song.gates /\ c.next \in RowNumbers /\ c.heard \in RowNumbers
  BY <1>1, PlaceType DEF ChanOK
<1>3. PlaceOK(song, x, c.heard) /\ PlaceOK(song, x, c.next)
  BY <1>1 DEF ChanOK
<1>4. CASE Waits(x)
  <2>1. c.counter \in {0, 1} /\ c.pattptr = 0 /\ c.fetched = 0 /\ c.seq.pattnum = 0
    BY <1>1, <1>4 DEF Started, SeqStart
  <2>2. PatternRows(song, 0) \in 1 .. 128
    BY <1>1 DEF Playable
  <2> QED
    BY <1>2, <2>1, <2>2 DEF Byte, BYTES, c
<1>5. CASE ~ Waits(x)
  <2>1. GateOf(song, mode, c) \in 1 .. 63 /\ c.counter \in 0 .. 128
    BY <1>1, <1>5, GateInForce DEF Running, ChanOK
  <2>2. CASE Unread(song, x, c)
    BY <1>1, <1>2, <1>3, <2>1, <2>2, PlaceAfter DEF Unread, Byte, BYTES, c
  <2>3. CASE Fetched(song, x, c)
    <3>1. c.seq = c.next.seq /\ c.pattptr = PtrAfter(song, c.next) /\ c.fetched = 1
      BY <2>3 DEF Fetched
    <3>2. c.next.row \in 0 .. PatternRows(song, c.seq.pattnum)
          /\ PatternRows(song, c.seq.pattnum) \in 1 .. 128
      BY <1>1, <1>3, <3>1 DEF PlaceOK, Playable
    <3>3. c.pattptr \in 0 .. PatternRows(song, c.seq.pattnum) - 1
      BY <3>1, <3>2 DEF PtrAfter, EndsAt
    <3> QED
      BY <1>2, <2>1, <3>1, <3>3 DEF Byte, BYTES, c
  <2> QED
    BY <1>1, <1>5, <2>1, <2>2, <2>3 DEF Running
<1> QED
  BY <1>4, <1>5

\* Every variable keeps its type: no counter, tempo or position leaves its byte,
\* and no row is read past its pattern's end.
THEOREM TypeCorrect ==
  ASSUME SongsPlayable
  PROVE  Spec => []TypeOK
<1>1. IInv => TypeOK
  <2> SUFFICES ASSUME IInv PROVE TypeOK
    OBVIOUS
  <2>1. /\ tempos \in [Chan -> 0 .. 127] /\ funk \in [0 .. 1 -> Byte] /\ paired \in BOOLEAN
    <3>1. FirstFunk \in [0 .. 1 -> Byte] /\ FALSE \in BOOLEAN
      BY DEF FirstFunk, Byte, BYTES
    <3> QED
      BY <3>1 DEF IInv, TempoOK
  <2>2. tempos \in [Chan -> Byte]
    BY <2>1 DEF Byte, BYTES
  <2>3. stage \in {"init", "lead-in", "plays"} /\ turn \in Chan
    BY DEF IInv
  <2> QED
    BY <2>1, <2>2, <2>3, ChannelType DEF TypeOK
<1> QED
  BY <1>1, IInvHolds, PTL

-----------------------------------------------------------------------------
(* The converter's replay is implemented.                                  *)

\* Songs of one call per frame: the replay's first tick is six.
SingleSpeed == \A s \in Songs : s.deftempo = 5

\* No counter is reloaded from the pair the playroutine starts with, which the
\* replay reads otherwise, nor with less than the replay takes.
Paced ==
  \A x \in Chan : stage = "plays" /\ turn = x /\ chn[x].counter = 0 =>
    /\ tempos[x] >= 2 \/ paired
    /\ Reloaded(x) >= 2

\* Until the first rows the channels count in step, and no tempo has changed.
LeadsIn ==
  \A x \in Chan : /\ chn[x].heard.row = 0
                  /\ stage = "lead-in" => tempos[x] = song.deftempo
                  /\ stage = "lead-in" /\ x < turn => chn[x].counter = 0

CountsIn(k) ==
  \A x \in Chan : /\ chn[x].heard.row = 0
                  /\ tempos[x] = song.deftempo
                  /\ chn[x].counter = IF x >= turn THEN k ELSE IF k = 0 THEN 5 ELSE k - 1

RowsBegin ==
  \A x \in Chan : IF x >= turn THEN chn[x].heard.row = 0 /\ chn[x].counter = 1
                  ELSE chn[x].heard.row # 0

InStep ==
  /\ stage \in {"init", "lead-in"} => LeadsIn
  /\ stage = "plays" => \/ \E k \in {0, 2, 3, 4, 5} : CountsIn(k)
                        \/ RowsBegin
                        \/ \A x \in Chan : chn[x].heard.row # 0

\* The end of a turn that is not the last one, and of the last.
LEMMA TurnEnds ==
  ASSUME IInv, NEW x \in Chan, Turn(x), stage = "plays"
  PROVE  /\ stage' = "plays" /\ turn = x /\ song' = song
         /\ \/ turn' = 0 /\ \A y \in Chan : y <= x
            \/ turn' = x + 1 /\ x + 1 \in Chan
         /\ \A y \in Chan : y \in Nat
<1>1. /\ stage' = (IF x = Channels - 1 THEN "plays" ELSE stage) /\ turn = x /\ song' = song
      /\ turn' = IF x = Channels - 1 THEN 0 ELSE x + 1
  BY TurnTaken
<1> QED
  BY <1>1, ChannelsAssumption DEF Chan

\* A tick 0 keeps the channels in step: it begins a channel's first row when
\* the others begin theirs.
LEMMA Tick0InStep ==
  ASSUME SongsPlayable, SingleSpeed, IInv, InStep, NEW x \in Chan, Tick0(x)
  PROVE  InStep'
<1>1. Turn(x) /\ Tick0Cmd(x, chn[x]) /\ chn[x].counter = 1
  BY DEF Tick0
<1>2. PICK d : /\ chn' = [chn EXCEPT ![x] = d]
               /\ d.counter = 0 /\ d.heard = chn[x].next
               /\ stage = "plays" => chn[x].next.row # 0
               /\ stage = "lead-in" => chn[x].next.row = 0
  BY Tick0Is
<1>3. DOMAIN chn = Chan
  BY DEF IInv, ChannelsOK
<1>4. chn'[x] = d /\ \A y \in Chan \ {x} : chn'[y] = chn[y]
  BY <1>2, <1>3
<1>5. CASE stage = "plays"
  <2>1. /\ stage' = "plays" /\ turn = x
        /\ \/ turn' = 0 /\ \A y \in Chan : y <= x
           \/ turn' = x + 1 /\ x + 1 \in Chan
        /\ \A y \in Chan : y \in Nat
    BY <1>1, <1>5, TurnEnds
  <2>2. chn'[x].heard.row # 0
    BY <1>2, <1>4, <1>5
  <2>3. RowsBegin \/ \A y \in Chan : chn[y].heard.row # 0
    <3>1. ASSUME NEW k \in {0, 2, 3, 4, 5}, CountsIn(k) PROVE FALSE
      BY <1>1, <2>1, <3>1 DEF CountsIn
    <3> QED
      BY <1>5, <3>1 DEF InStep
  <2>4. CASE RowsBegin
    <3>1. CASE turn' = 0 /\ \A y \in Chan : y <= x
      <4>1. \A y \in Chan : chn'[y].heard.row # 0
        BY <1>4, <2>1, <2>2, <2>4, <3>1 DEF RowsBegin
      <4> QED
        BY <2>1, <4>1 DEF InStep
    <3>2. CASE turn' = x + 1
      <4>1. RowsBegin'
        BY <1>4, <2>1, <2>2, <2>4, <3>2 DEF RowsBegin
      <4> QED
        BY <2>1, <4>1 DEF InStep
    <3> QED
      BY <2>1, <3>1, <3>2
  <2>5. CASE \A y \in Chan : chn[y].heard.row # 0
    BY <1>4, <2>1, <2>2, <2>5 DEF InStep
  <2> QED
    BY <2>3, <2>4, <2>5
<1>6. CASE stage = "lead-in"
  <2>1. /\ song' = song /\ stage' \in {"lead-in", "plays"} /\ turn = x
        /\ turn' = IF x = Channels - 1 THEN 0 ELSE x + 1
        /\ stage' = IF x = Channels - 1 THEN "plays" ELSE stage
    BY <1>1, TurnTaken
  <2>2. tempos' = tempos
    <3>1. chn[x].newfx = DONOTHING
      <4>1. ChanOK(song, x, chn[x])
        BY <1>1, TurnFinds
      <4> QED
        BY <1>2, <1>6, <4>1 DEF ChanOK, CommandOf
    <3> QED
      BY <1>1, <3>1 DEF Tick0Cmd, DONOTHING, FUNKTEMPO, SETTEMPO
  <2>3. /\ LeadsIn
        /\ \A y \in Chan : chn'[y].heard.row = 0 /\ tempos'[y] = song'.deftempo
                           /\ (y <= x => chn'[y].counter = 0)
    <3>1. LeadsIn
      BY <1>6 DEF InStep
    <3>2. chn'[x].heard.row = 0 /\ chn'[x].counter = 0
      BY <1>2, <1>4, <1>6
    <3>3. \A y \in Chan : y <= x => y = x \/ y < turn
      BY <2>1, ChannelsAssumption DEF Chan
    <3> QED
      BY <1>4, <1>6, <2>1, <2>2, <3>1, <3>2, <3>3 DEF LeadsIn
  <2>4. CASE x = Channels - 1
    <3>1. stage' = "plays" /\ turn' = 0 /\ \A y \in Chan : y <= x /\ y >= 0
      BY <2>1, <2>4, ChannelsAssumption DEF Chan
    <3>2. CountsIn(0)'
      BY <2>3, <3>1 DEF CountsIn
    <3> QED
      BY <3>1, <3>2 DEF InStep
  <2>5. CASE x # Channels - 1
    <3>1. stage' = "lead-in" /\ turn' = x + 1 /\ \A y \in Chan : y < x + 1 => y <= x
      BY <1>6, <2>1, <2>5, ChannelsAssumption DEF Chan
    <3>2. LeadsIn'
      BY <2>3, <3>1 DEF LeadsIn
    <3> QED
      BY <3>1, <3>2 DEF InStep
  <2> QED
    BY <2>4, <2>5
<1> QED
  BY <1>1, <1>5, <1>6, TurnTaken

\* So does a reload or a count.
LEMMA CountInStep ==
  ASSUME SongsPlayable, SingleSpeed, IInv, InStep, NEW x \in Chan, Reload(x) \/ Count(x)
  PROVE  InStep'
<1>1. Turn(x)
  BY DEF Reload, Count
<1>2. PICK d : /\ chn' = [chn EXCEPT ![x] = d]
               /\ d.counter = IF Reload(x) THEN Reloaded(x) ELSE chn[x].counter - 1
               /\ d.heard = chn[x].heard
               /\ stage = "plays"
               /\ IF Reload(x) THEN chn[x].counter = 0 ELSE chn[x].counter \in 2 .. 128
  <2>1. CASE Reload(x)
    BY <2>1, ReloadIs
  <2>2. CASE ~ Reload(x)
    BY <2>2, CountIs
  <2> QED
    BY <2>1, <2>2
<1>3. DOMAIN chn = Chan
  BY DEF IInv, ChannelsOK
<1>4. chn'[x] = d /\ \A y \in Chan \ {x} : chn'[y] = chn[y]
  BY <1>2, <1>3
<1>5. /\ stage' = "plays" /\ turn = x /\ song' = song
      /\ \/ turn' = 0 /\ \A y \in Chan : y <= x
         \/ turn' = x + 1 /\ x + 1 \in Chan
      /\ \A y \in Chan : y \in Nat
  BY <1>1, <1>2, TurnEnds
<1>6. CASE \A y \in Chan : chn[y].heard.row # 0
  BY <1>2, <1>4, <1>5, <1>6 DEF InStep
<1>7. ~ RowsBegin
  BY <1>2, <1>5 DEF RowsBegin
<1>8. ASSUME NEW k \in {0, 2, 3, 4, 5}, CountsIn(k)
      PROVE  InStep'
  <2> DEFINE j == IF k = 0 THEN 5 ELSE k - 1
  <2>1. chn[x].counter = k /\ tempos[x] = 5 /\ \A y \in Chan : tempos[y] = song.deftempo
    BY <1>5, <1>8 DEF CountsIn, IInv, SingleSpeed
  <2>2. tempos' = tempos
    <3>1. tempos \in [Chan -> 0 .. 127]
      BY <1>1, TurnFinds DEF TempoOK
    <3>2. CASE Reload(x)
      BY <2>1, <3>1, <3>2 DEF Reload
    <3>3. CASE Count(x)
      BY <3>3 DEF Count
    <3> QED
      BY <3>2, <3>3
  <2>3. d.counter = j
    <3>1. CASE Reload(x)
      BY <1>2, <2>1, <3>1 DEF Reloaded
    <3>2. CASE ~ Reload(x)
      BY <1>2, <2>1, <3>2
    <3> QED
      BY <3>1, <3>2
  <2>4. /\ \A y \in Chan : chn'[y].heard.row = 0 /\ tempos'[y] = song'.deftempo
        /\ \A y \in Chan : chn'[y].counter = IF y <= x THEN j ELSE k
    <3>1. \A y \in Chan \ {x} : chn[y].counter = IF y <= x THEN j ELSE k
      BY <1>5, <1>8 DEF CountsIn
    <3>2. chn'[x].counter = j /\ x <= x
      BY <1>4, <1>5, <2>3
    <3>3. chn'[x].heard.row = 0
      BY <1>2, <1>4, <1>8 DEF CountsIn
    <3> HIDE DEF j
    <3>4. \A y \in Chan : chn'[y].counter = IF y <= x THEN j ELSE k
      BY <1>4, <3>1, <3>2
    <3> QED
      BY <1>4, <1>5, <1>8, <2>1, <2>2, <3>3, <3>4 DEF CountsIn
  <2>5. CASE turn' = x + 1
    <3>1. CountsIn(k)'
      BY <1>5, <2>4, <2>5 DEF CountsIn
    <3> QED
      BY <1>5, <3>1 DEF InStep
  <2>6. CASE turn' = 0 /\ \A y \in Chan : y <= x
    <3>1. \A y \in Chan : chn'[y].counter = j /\ y >= turn'
      BY <1>5, <2>4, <2>6
    <3>2. CASE k = 2
      <4>1. RowsBegin'
        BY <2>4, <3>1, <3>2 DEF RowsBegin
      <4> QED
        BY <1>5, <4>1 DEF InStep
    <3>3. CASE k # 2
      <4>1. j \in {0, 2, 3, 4, 5}
        BY <3>3
      <4>2. CountsIn(j)'
        BY <2>4, <3>1 DEF CountsIn
      <4> HIDE DEF j
      <4> QED
        BY <1>5, <4>1, <4>2 DEF InStep
    <3> QED
      BY <3>2, <3>3
  <2> QED
    BY <1>5, <2>5, <2>6
<1> QED
  BY <1>2, <1>6, <1>7, <1>8 DEF InStep

\* The channels lead in to their first rows in step, on every behaviour.
LEMMA StepInStep ==
  ASSUME SongsPlayable, SingleSpeed, IInv, InStep, [Next]_vars
  PROVE  InStep'
<1>1. CASE StartCall
  <2>1. /\ stage = "init" /\ stage' = "lead-in" /\ song' = song /\ turn' = 0
        /\ \A x \in Chan : tempos'[x] = song.deftempo /\ chn'[x].heard = chn[x].heard
    <3>1. \A x \in Chan : DOMAIN chn[x] = ChanFields
      BY DEF IInv, ChannelsOK, ChanOK
    <3>2. turn = 0
      BY <1>1 DEF StartCall, IInv
    <3> QED
      BY <1>1, <3>1, <3>2 DEF StartCall, ChanFields
  <2>2. LeadsIn'
    BY <2>1, ChannelsAssumption DEF InStep, LeadsIn, Chan
  <2> QED
    BY <2>1, <2>2 DEF InStep
<1>2. ASSUME NEW x \in Chan, Tick0(x) PROVE InStep'
  BY <1>2, Tick0InStep
<1>3. ASSUME NEW x \in Chan, Reload(x) \/ Count(x) PROVE InStep'
  BY <1>3, CountInStep
<1>4. CASE UNCHANGED vars
  BY <1>4 DEF vars, InStep, LeadsIn, CountsIn, RowsBegin
<1> QED
  BY <1>1, <1>2, <1>3, <1>4 DEF Next

\* The replay's words are the model's.
LEMMA SameWords ==
  /\ Replay!Chan = Chan /\ Replay!BYTES = BYTES
  /\ Replay!FUNKTEMPO = FUNKTEMPO /\ Replay!SETTEMPO = SETTEMPO
  /\ Replay!WalkStart = WalkStart
  /\ \A t : Replay!Countdown(t) = Countdown(t)
  /\ \A t : Replay!Lengthened(t) = Lengthened(t)
  /\ \A s, p : Replay!PatternRows(s, p) = PatternRows(s, p)
  /\ \A s, p, r : Replay!RowAt(s, p, r) = RowAt(s, p, r)
  BY DEF Replay!Chan, Chan, Replay!BYTES, BYTES, Replay!FUNKTEMPO, FUNKTEMPO,
         Replay!SETTEMPO, SETTEMPO, Replay!WalkStart, WalkStart, Replay!Countdown, Countdown,
         Replay!Lengthened, Lengthened, Replay!DurCap, DurCap, Replay!PatternRows, PatternRows,
         Replay!RowAt, RowAt

LEMMA SameWalk ==
  ASSUME NEW o, NEW w
  PROVE  /\ Replay!Walk(o, w) = Walk(o, w)
         /\ Replay!WalkStops(o, w) = WalkStops(o, w)
<1>1. Replay!EditorOrder(o) = EditorOrder(o)
  BY DEF Replay!EditorOrder, EditorOrder, Replay!LOOPSONG, LOOPSONG
<1>2. ASSUME NEW ord PROVE Replay!AtLoop(ord, w) = AtLoop(ord, w)
  BY DEF Replay!AtLoop, AtLoop, Replay!LOOPSONG, LOOPSONG
<1>3. ASSUME NEW ord PROVE Replay!EntryPos(ord, w) = EntryPos(ord, w)
  BY <1>2 DEF Replay!EntryPos, EntryPos
<1>4. ASSUME NEW b PROVE Replay!IsTranspose(b) = IsTranspose(b) /\ Replay!IsRepeat(b) = IsRepeat(b)
  BY DEF Replay!IsTranspose, IsTranspose, Replay!IsRepeat, IsRepeat, Replay!TRANSDOWN,
         TRANSDOWN, Replay!LOOPSONG, LOOPSONG, Replay!REPEAT, REPEAT
<1>5. ASSUME NEW ord PROVE Replay!WalkPos(ord, w) = WalkPos(ord, w)
  BY <1>3, <1>4 DEF Replay!WalkPos, WalkPos
<1>6. Replay!CountLoop(w.loops) = CountLoop(w.loops)
  BY DEF Replay!CountLoop, CountLoop
<1>7. Replay!Walk(o, w) = Walk(o, w)
  BY <1>1, <1>2, <1>4, <1>5, <1>6 DEF Replay!Walk, Replay!WalkAt, Replay!WalkLeft,
     Replay!WalkNext, Replay!WalkOwes, Walk, WalkAt, WalkLeft, WalkNext, WalkOwes,
     Replay!REPEAT, REPEAT
<1> QED
  BY <1>7 DEF Replay!WalkStops, WalkStops

\* The replay's variables.
ReplayTurn  == IF stage = "plays" THEN turn ELSE 0
ReplayTick  == [x \in Chan |-> WalkTick(x)]
ReplayTempo == [x \in Chan |-> IF stage = "init" THEN song.deftempo ELSE tempos[x]]
ReplayFunk  == IF paired THEN [i \in 0 .. 1 |-> (funk[i] - 1) % BYTES] ELSE FirstFunk
ReplayWalk  == [x \in Chan |-> Walked(x)]
ReplayRow   == [x \in Chan |-> chn[x].heard.row]
ReplayDur   == [x \in Chan |-> chn[x].dur]

\* A channel's turn while rows play is one of the replay's, which has not finished.
LEMMA ReplayTurns ==
  ASSUME IInv, NEW x \in Chan, Turn(x), stage = "plays"
  PROVE  Replay!Turn(x)
<1>1. song' = song /\ turn = x /\ turn' = (x + 1) % Channels /\ stage' = "plays"
  BY DEF Turn
<1>2. PICK y \in Chan : ChanOK(song, y, chn[y])
  BY DEF IInv, ChannelsOK
<1>3. chn[y].heard.seq.loops \in 0 .. LoopCap
  BY <1>2 DEF ChanOK, PlaceOK, SeqOK
<1>4. Walked(y).loops = chn[y].heard.seq.loops
  BY DEF Walked, AsWalk
<1>5. ~ Replay!Finished
  BY <1>3, <1>4, SameWords, LoopCapAssumption DEF Replay!Finished
<1> QED
  BY <1>1, <1>5 DEF Replay!Turn

\* What does not begin a row keeps the place in the song.
LEMMA PlaceKept ==
  ASSUME NEW x \in Chan, DOMAIN chn = Chan, NEW d, chn' = [chn EXCEPT ![x] = d],
         d.heard = chn[x].heard, song' = song
  PROVE  ReplayWalk' = ReplayWalk /\ ReplayRow' = ReplayRow
<1>1. \A y \in Chan : chn'[y].heard = chn[y].heard
  OBVIOUS
<1> QED
  BY <1>1 DEF ReplayWalk, ReplayRow, Walked, Ord

\* The ticks and lengths of a turn are its channel's.
LEMMA TickAndDur ==
  ASSUME NEW x \in Chan, DOMAIN chn = Chan, NEW d, chn' = [chn EXCEPT ![x] = d],
         stage = "plays", stage' = "plays", ~ (d.counter = 0 /\ d.heard.row = 0)
  PROVE  /\ ReplayTick' = [ReplayTick EXCEPT ![x] = d.counter]
         /\ ReplayDur' = [ReplayDur EXCEPT ![x] = d.dur]
<1>1. chn'[x] = d /\ \A y \in Chan \ {x} : chn'[y] = chn[y]
  OBVIOUS
<1>2. \A y \in Chan : WalkTick(y)' = IF y = x THEN d.counter ELSE WalkTick(y)
  BY <1>1 DEF WalkTick
<1> QED
  BY <1>1, <1>2 DEF ReplayTick, ReplayDur

\* A count, the player's or the reload before the first row, is a count.
LEMMA ReplayCounts ==
  ASSUME NEW x \in Chan, Replay!Turn(x),
         ReplayTick[x] > 1, ReplayTick' = [ReplayTick EXCEPT ![x] = ReplayTick[x] - 1],
         ReplayDur' = [ReplayDur EXCEPT ![x] = Lengthened(chn[x].dur)],
         ReplayTempo' = ReplayTempo, ReplayFunk' = ReplayFunk, ReplayWalk' = ReplayWalk,
         ReplayRow' = ReplayRow
  PROVE  Replay!Count(x)
<1>1. ReplayDur' = [ReplayDur EXCEPT ![x] = Lengthened(ReplayDur[x])]
  BY DEF ReplayDur
<1> QED
  BY <1>1, SameWords DEF Replay!Count, Replay!CountFrame, ReplayTick, ReplayTempo, ReplayFunk, ReplayWalk,
     ReplayRow, ReplayDur

\* A count of a channel is a count of the replay.
LEMMA CountReplayed ==
  ASSUME SongsPlayable, IInv, NEW x \in Chan, Count(x)
  PROVE  Replay!Count(x)
<1>1. Turn(x) /\ UNCHANGED <<tempos, funk, paired>>
  BY DEF Count
<1>2. PICK d : /\ chn' = [chn EXCEPT ![x] = d]
               /\ d.counter = chn[x].counter - 1
               /\ d.heard = chn[x].heard /\ d.dur = Lengthened(chn[x].dur)
               /\ stage = "plays" /\ chn[x].counter \in 2 .. 128
  BY CountIs
<1>3. DOMAIN chn = Chan
  BY DEF IInv, ChannelsOK
<1>4. stage' = "plays" /\ song' = song
  BY <1>1, <1>2 DEF Turn
<1>5. Replay!Turn(x)
  BY <1>1, <1>2, ReplayTurns
<1>6. ReplayWalk' = ReplayWalk /\ ReplayRow' = ReplayRow
  BY <1>2, <1>3, <1>4, PlaceKept
<1>7. /\ ReplayTick' = [ReplayTick EXCEPT ![x] = d.counter]
      /\ ReplayDur' = [ReplayDur EXCEPT ![x] = d.dur]
  <2>1. ~ (d.counter = 0)
    BY <1>2
  <2> QED
    BY <1>2, <1>3, <1>4, <2>1, TickAndDur
<1>8. ReplayTick[x] = chn[x].counter /\ chn[x].counter > 1
  BY <1>2 DEF ReplayTick, WalkTick
<1>9. ReplayTempo' = ReplayTempo /\ ReplayFunk' = ReplayFunk
  BY <1>1, <1>2, <1>4 DEF ReplayTempo, ReplayFunk
<1>10. /\ ReplayTick' = [ReplayTick EXCEPT ![x] = ReplayTick[x] - 1]
       /\ ReplayDur' = [ReplayDur EXCEPT ![x] = Lengthened(chn[x].dur)]
  BY <1>2, <1>7, <1>8
<1> QED
  BY <1>5, <1>6, <1>8, <1>9, <1>10, ReplayCounts

\* Before its first row a channel's reload is the replay's sixth tick; after
\* it, the replay's reload.
LEMMA ReloadReplayed ==
  ASSUME SongsPlayable, SingleSpeed, IInv, InStep, Paced, NEW x \in Chan, Reload(x)
  PROVE  Replay!Count(x) \/ Replay!Reload(x)
<1>1. /\ Turn(x) /\ UNCHANGED <<funk, paired>>
      /\ tempos' = [tempos EXCEPT ![x] = IF @ >= 2 THEN @ ELSE 1 - @]
  BY DEF Reload
<1>2. PICK d : /\ chn' = [chn EXCEPT ![x] = d]
               /\ d.counter = Reloaded(x) /\ Reaches(song, Reloaded(x))
               /\ d.heard = chn[x].heard /\ d.dur = Lengthened(chn[x].dur)
               /\ stage = "plays" /\ chn[x].counter = 0
  BY ReloadIs
<1>3. DOMAIN chn = Chan /\ tempos \in [Chan -> 0 .. 127]
  BY <1>2 DEF IInv, ChannelsOK, TempoOK
<1>4. stage' = "plays" /\ song' = song /\ turn = x
  BY <1>1, <1>2 DEF Turn
<1>5. Replay!Turn(x)
  BY <1>1, <1>2, ReplayTurns
<1>6. ReplayWalk' = ReplayWalk /\ ReplayRow' = ReplayRow
  BY <1>2, <1>3, <1>4, PlaceKept
<1>7. d.counter \in 1 .. 128
  BY <1>2 DEF Reaches
<1>8. /\ ReplayTick' = [ReplayTick EXCEPT ![x] = d.counter]
      /\ ReplayDur' = [ReplayDur EXCEPT ![x] = Lengthened(chn[x].dur)]
  <2>1. ~ (d.counter = 0)
    BY <1>7
  <2>2. /\ ReplayTick' = [ReplayTick EXCEPT ![x] = d.counter]
        /\ ReplayDur' = [ReplayDur EXCEPT ![x] = d.dur]
    BY <1>2, <1>3, <1>4, <2>1, TickAndDur
  <2> QED
    BY <1>2, <2>2
<1>9. ReplayFunk' = ReplayFunk
  BY <1>1 DEF ReplayFunk
<1>10. (tempos[x] >= 2 \/ paired) /\ Reloaded(x) >= 2
  BY <1>2, <1>4 DEF Paced
<1>11. CASE chn[x].heard.row = 0
  <2>1. tempos[x] = 5
    <3>1. ~ RowsBegin /\ ~ (\A y \in Chan : chn[y].heard.row # 0)
      <4>1. turn = x /\ x >= turn
        BY <1>4, ChannelsAssumption DEF Chan
      <4> QED
        BY <1>2, <1>11, <4>1 DEF RowsBegin
    <3>2. \E k \in {0, 2, 3, 4, 5} : CountsIn(k)
      BY <1>2, <3>1 DEF InStep
    <3> QED
      BY <3>2 DEF CountsIn, IInv, SingleSpeed
  <2>2. tempos' = tempos /\ Reloaded(x) = 5
    BY <1>1, <1>3, <2>1 DEF Reloaded
  <2>3. ReplayTempo' = ReplayTempo
    BY <1>2, <1>4, <2>2 DEF ReplayTempo
  <2>4. ReplayTick[x] = 6
    BY <1>2, <1>11 DEF ReplayTick, WalkTick
  <2>5. ReplayTick[x] > 1 /\ ReplayTick[x] - 1 = d.counter
    BY <1>2, <2>2, <2>4
  <2> QED
    BY <1>5, <1>6, <1>8, <1>9, <2>3, <2>5, ReplayCounts
<1>12. CASE chn[x].heard.row # 0
  <2>1. ReplayTick[x] = 0
    BY <1>2, <1>12 DEF ReplayTick, WalkTick
  <2>2. ReplayTempo[x] = tempos[x]
    BY <1>2 DEF ReplayTempo
  <2>3. ReplayTempo' = [ReplayTempo EXCEPT ![x] = IF @ >= 2 THEN @ ELSE 1 - @]
    <3>1. \A y \in Chan : tempos'[y] = IF y = x THEN (IF tempos[x] >= 2 THEN tempos[x] ELSE 1 - tempos[x])
                                                ELSE tempos[y]
      BY <1>1, <1>3
    <3> QED
      BY <1>2, <1>4, <3>1 DEF ReplayTempo
  <2>4. Replay!Reloaded(x) = Reloaded(x)
    <3>1. CASE tempos[x] >= 2
      BY <2>2, <3>1 DEF Reloaded, Replay!Reloaded, ReplayTempo
    <3>2. CASE ~ (tempos[x] >= 2)
      <4>1. tempos[x] \in 0 .. 1 /\ paired
        BY <1>3, <1>10, <3>2
      <4>2. ReplayFunk[tempos[x]] = (funk[tempos[x]] - 1) % BYTES
        BY <4>1 DEF ReplayFunk
      <4> QED
        BY <2>2, <3>2, <4>2 DEF Reloaded, Replay!Reloaded, ReplayTempo, ReplayFunk
    <3> QED
      BY <3>1, <3>2
  <2>5. ReplayDur' = [ReplayDur EXCEPT ![x] = Lengthened(ReplayDur[x])]
    BY <1>8 DEF ReplayDur
  <2>6. Replay!Reload(x)
    BY <1>2, <1>5, <1>6, <1>8, <1>9, <1>10, <2>1, <2>3, <2>4, <2>5, SameWords
    DEF Replay!Reload, Replay!CountFrame, ReplayTick, ReplayTempo, ReplayFunk, ReplayWalk,
        ReplayRow, ReplayDur
  <2> QED
    BY <2>6
<1> QED
  BY <1>11, <1>12

\* The row a tick 0 begins is the replay's next row.
LEMMA RowReplayed ==
  ASSUME SongsPlayable, IInv, NEW x \in Chan, ChanOK(song, x, chn[x])
  PROVE  LET n == chn[x].heard
             m == RowAfter(song, x, n)
         IN  /\ Replay!Ended(x) <=> EndsAt(song, n)
             /\ ~ (Replay!Ended(x) /\ WalkStops(song.orders[x], Walked(x)))
             /\ AsWalk(Ord(x), m.seq) =
                  IF Replay!Ended(x) THEN Walk(song.orders[x], Walked(x)) ELSE Walked(x)
             /\ m.row = (IF Replay!Ended(x) THEN 0 ELSE n.row) + 1
             /\ AsWalk(Ord(x), m.seq).pattnum = m.seq.pattnum
<1> DEFINE n == chn[x].heard
           m == RowAfter(song, x, n)
<1>1. Playable(song) /\ PlaceOK(song, x, n)
  BY DEF IInv, SongsPlayable, ChanOK
<1>2. WellFormed(song.orders[x]) /\ SeqOK(song.orders[x], n.seq)
      /\ PatternRows(song, n.seq.pattnum) \in 1 .. 128
      /\ n.row \in 0 .. PatternRows(song, n.seq.pattnum)
  BY <1>1 DEF Playable, PlaceOK
<1>3. Walked(x) = AsWalk(PackedOrder(song.orders[x]), n.seq) /\ Walked(x).pattnum = n.seq.pattnum
  BY DEF Walked, Ord, AsWalk
<1>4. Replay!Ended(x) <=> EndsAt(song, n)
  <2>1. Replay!Ended(x) <=> n.row >= PatternRows(song, n.seq.pattnum)
    BY <1>3, SameWords DEF Replay!Ended
  <2> HIDE DEF n
  <2> QED
    BY <1>2, <2>1 DEF EndsAt
<1>5. m.seq = SeqAfter(song, x, n) /\ m.row = PtrAfter(song, n) + 1
  BY DEF RowAfter
<1> HIDE DEF n, m
<1>6. /\ AsWalk(PackedOrder(song.orders[x]), Sequence(PackedOrder(song.orders[x]), n.seq)) =
           Walk(song.orders[x], Walked(x))
      /\ ~ WalkStops(song.orders[x], Walked(x))
  BY <1>2, <1>3, SeqWalks
<1>7. AsWalk(Ord(x), m.seq) = IF EndsAt(song, n) THEN Walk(song.orders[x], Walked(x)) ELSE Walked(x)
  BY <1>3, <1>5, <1>6 DEF SeqAfter, Ord
<1>8. m.row = (IF EndsAt(song, n) THEN 0 ELSE n.row) + 1
  BY <1>5 DEF PtrAfter
<1>9. AsWalk(Ord(x), m.seq).pattnum = m.seq.pattnum
  BY DEF AsWalk
<1> QED
  BY <1>4, <1>6, <1>7, <1>8, <1>9 DEF n, m

\* Zero less one is the largest byte.
LEMMA ByteTurns ==
  ASSUME NEW k \in Int
  PROVE  (k - 1) % 256 = (k + 255) % 256
  OBVIOUS

LEMMA ByteWraps ==
  ASSUME NEW k \in Int, k = 0
  PROVE  (k - 1) % BYTES = 255
<1>1. (k - 1) % 256 = (k + 255) % 256
  BY ByteTurns, Zenon
<1>2. (k + 255) % 256 = 255
  OBVIOUS
<1> QED
  BY <1>1, <1>2, Zenon DEF BYTES

\* The fetched row's command is the replay's of the row itself.
LEMMA CommandReplayed ==
  ASSUME Playable(song), NEW x \in Chan, NEW c, ChanOK(song, x, c), c.next.row # 0,
         Tick0Cmd(x, c), TempoOK(song, tempos, funk, paired), stage = "plays", stage' = "plays"
  PROVE  LET r     == RowAt(song, c.next.seq.pattnum, c.next.row - 1)
             value == Countdown(r.param % 128)
         IN  /\ r.fx = SETTEMPO => r.param \in Byte
             /\ \A k \in Chan : ReplayTempo'[k] =
                  IF r.fx = FUNKTEMPO THEN 0
                  ELSE IF r.fx = SETTEMPO /\ (r.param < 128 \/ k = x) THEN value
                  ELSE ReplayTempo[k]
             /\ \A i \in 0 .. 1 : ReplayFunk'[i] =
                  IF r.fx = FUNKTEMPO /\ r.param \in DOMAIN song.speeds
                    THEN (song.speeds[r.param][i + 1] - 1) % BYTES ELSE ReplayFunk[i]
<1> DEFINE r     == RowAt(song, c.next.seq.pattnum, c.next.row - 1)
           value == Countdown(r.param % 128)
<1>1. tempos \in [Chan -> 0 .. 127] /\ tempos' \in [Chan -> 0 .. 127]
      /\ funk \in [0 .. 1 -> Byte] /\ funk' \in [0 .. 1 -> Byte]
  BY CommandIs DEF TempoOK
<1>2. c.newfx = r.fx
  BY DEF ChanOK, CommandOf
<1>3. c.newfx # DONOTHING => RowOK(song, r) /\ c.newparam = StoredParam(r)
  BY RowCommanded
<1> HIDE DEF r
<1>4. ReplayTempo = [k \in Chan |-> tempos[k]] /\ ReplayTempo' = [k \in Chan |-> tempos'[k]]
  BY DEF ReplayTempo
<1>5. ASSUME NEW k \in Chan
      PROVE  ReplayTempo'[k] =
               IF r.fx = FUNKTEMPO THEN 0
               ELSE IF r.fx = SETTEMPO /\ (r.param < 128 \/ k = x) THEN value
               ELSE ReplayTempo[k]
  <2>1. CASE r.fx = FUNKTEMPO
    <3>1. tempos'[k] = 0
      BY <1>2, <2>1, CommandIs
    <3> QED
      BY <1>4, <2>1, <3>1
  <2>2. CASE r.fx = SETTEMPO
    <3>1. RowOK(song, r) /\ c.newparam = StoredParam(r) /\ r.param \in Byte
      BY <1>2, <1>3, <2>2 DEF SETTEMPO, DONOTHING, RowOK
    <3>2. c.newparam % 128 = value /\ (c.newparam < 128 <=> r.param < 128)
      <4>1. StoredParam(r) \in 0 .. 255 /\ r.param \in 0 .. 255
            /\ (StoredParam(r) >= 128 <=> r.param >= 128)
        BY <2>2, <3>1, StoredTempo DEF Byte, BYTES
      <4> QED
        BY <2>2, <3>1, <4>1, StoredTempo
    <3>3. tempos'[k] = IF k = x \/ c.newparam < 128 THEN c.newparam % 128 ELSE tempos[k]
      BY <1>2, <2>2, CommandIs
    <3> HIDE DEF value
    <3> QED
      BY <1>4, <2>2, <3>2, <3>3 DEF FUNKTEMPO, SETTEMPO
  <2>3. CASE r.fx # FUNKTEMPO /\ r.fx # SETTEMPO
    <3>1. tempos' = tempos
      BY <1>2, <2>3, CommandIs
    <3> QED
      BY <1>4, <2>3, <3>1
  <2> QED
    BY <2>1, <2>2, <2>3
<1>6. ASSUME NEW i \in 0 .. 1
      PROVE  ReplayFunk'[i] =
               IF r.fx = FUNKTEMPO /\ r.param \in DOMAIN song.speeds
                 THEN (song.speeds[r.param][i + 1] - 1) % BYTES ELSE ReplayFunk[i]
  <2>1. CASE r.fx = FUNKTEMPO
    <3>1. /\ \A j \in 0 .. 1 : funk'[j] = Speed(song, c.newparam)[j + 1]
          /\ PairReaches(song, funk') /\ paired' = TRUE
      <4>1. c.newfx = FUNKTEMPO
        BY <1>2, <2>1
      <4>2. funk' = [j \in 0 .. 1 |-> Speed(song, c.newparam)[j + 1]]
        BY <4>1 DEF Tick0Cmd
      <4>3. PairReaches(song, funk')
        BY <4>1, CommandIs
      <4>4. paired' = TRUE
        BY <4>1, CommandIs
      <4> QED
        BY <4>2, <4>3, <4>4
    <3>2. c.newparam = r.param
      BY <1>2, <1>3, <2>1 DEF StoredParam, FUNKTEMPO, SETTEMPO, DONOTHING
    <3>3. r.param \in DOMAIN song.speeds
      <4>1. SUFFICES ASSUME r.param \notin DOMAIN song.speeds PROVE FALSE
        OBVIOUS
      <4>2. funk'[0] = 0
        BY <3>1, <3>2, <4>1 DEF Speed
      <4>3. Reaches(song, (funk'[0] - 1) % BYTES)
        BY <3>1 DEF PairReaches
      <4>4. (funk'[0] - 1) % BYTES = 255
        BY <4>2, ByteWraps
      <4>5. 255 \notin 1 .. 128
        OBVIOUS
      <4> QED
        BY <4>3, <4>4, <4>5 DEF Reaches
    <3>4. \A j \in 0 .. 1 : funk'[j] = song.speeds[r.param][j + 1]
      BY <3>1, <3>2, <3>3 DEF Speed
    <3>5. ReplayFunk' = [j \in 0 .. 1 |-> (funk'[j] - 1) % BYTES]
      BY <3>1 DEF ReplayFunk
    <3> QED
      BY <2>1, <3>3, <3>4, <3>5
  <2>2. CASE r.fx # FUNKTEMPO
    <3>1. funk' = funk /\ paired' = paired
      BY <1>2, <2>2, CommandIs
    <3> QED
      BY <2>2, <3>1 DEF ReplayFunk
  <2> QED
    BY <2>1, <2>2
<1>7. r.fx = SETTEMPO => r.param \in Byte
  BY <1>2, <1>3 DEF RowOK, SETTEMPO, DONOTHING
<1> QED
  BY <1>5, <1>6, <1>7 DEF r

\* A tick 0 that begins a row is the replay's.
LEMMA Tick0Replayed ==
  ASSUME SongsPlayable, IInv, NEW x \in Chan, Tick0(x), stage = "plays"
  PROVE  Replay!RowTick(x)
<1>1. Turn(x) /\ Tick0Cmd(x, chn[x]) /\ chn[x].counter = 1
  BY DEF Tick0
<1>2. PICK d : /\ chn' = [chn EXCEPT ![x] = d]
               /\ d.counter = 0 /\ d.heard = chn[x].next
               /\ d.dur = (IF chn[x].next.row > 0 THEN 1 ELSE 0)
               /\ Fetched(song, x, chn[x]) /\ chn[x].next.row # 0
  BY Tick0Is
<1>3. /\ Playable(song) /\ ChanOK(song, x, chn[x])
      /\ TempoOK(song, tempos, funk, paired) /\ DOMAIN chn = Chan
  BY <1>1, TurnFinds DEF IInv, ChannelsOK
<1>4. stage' = "plays" /\ song' = song
  BY <1>1 DEF Turn
<1>5. Replay!Turn(x)
  BY <1>1, ReplayTurns
<1> DEFINE n == chn[x].heard
           m == chn[x].next
<1>6. m = RowAfter(song, x, n) /\ m.row # 0
  BY <1>2 DEF Fetched
<1>7. /\ ~ (Replay!Ended(x) /\ WalkStops(song.orders[x], Walked(x)))
      /\ AsWalk(Ord(x), m.seq) =
           IF Replay!Ended(x) THEN Walk(song.orders[x], Walked(x)) ELSE Walked(x)
      /\ m.row = (IF Replay!Ended(x) THEN 0 ELSE n.row) + 1
      /\ AsWalk(Ord(x), m.seq).pattnum = m.seq.pattnum
  BY <1>3, <1>6, RowReplayed
<1> DEFINE at == [y \in Chan |-> Walked(y)]
           w  == IF Replay!Ended(x) THEN Replay!Walk(song.orders[x], at[x]) ELSE at[x]
           r  == IF Replay!Ended(x) THEN 0 ELSE [y \in Chan |-> chn[y].heard.row][x]
<1>0. /\ w = IF Replay!Ended(x) THEN Walk(song.orders[x], Walked(x)) ELSE Walked(x)
      /\ r = IF Replay!Ended(x) THEN 0 ELSE n.row
  BY SameWalk
<1>8. d.dur = 1
  <2>1. PlaceOK(song, x, m)
    BY <1>3 DEF ChanOK
  <2> HIDE DEF m
  <2>2. m.row \in 0 .. PatternRows(song, m.seq.pattnum)
        /\ PatternRows(song, m.seq.pattnum) \in 1 .. 128
    BY <1>3, <2>1 DEF PlaceOK, Playable
  <2>3. m.row > 0
    BY <1>6, <2>2
  <2> QED
    BY <1>2, <2>3 DEF m
<1>9. /\ ReplayTick' = [ReplayTick EXCEPT ![x] = 0]
      /\ ReplayDur' = [ReplayDur EXCEPT ![x] = 1]
  <2>1. ~ (d.counter = 0 /\ d.heard.row = 0)
    BY <1>2
  <2>2. /\ ReplayTick' = [ReplayTick EXCEPT ![x] = d.counter]
        /\ ReplayDur' = [ReplayDur EXCEPT ![x] = d.dur]
    BY <1>2, <1>3, <1>4, <2>1, TickAndDur
  <2> QED
    BY <1>2, <1>8, <2>2
<1>10. chn'[x].heard = m /\ \A y \in Chan \ {x} : chn'[y].heard = chn[y].heard
  BY <1>2, <1>3
<1> HIDE DEF n, m, w, r
<1>11. ReplayRow' = [ReplayRow EXCEPT ![x] = r + 1]
  BY <1>7, <1>10, <1>0 DEF ReplayRow
<1>12. ReplayWalk' = [ReplayWalk EXCEPT ![x] = w]
  <2>1. \A y \in Chan : Walked(y)' = AsWalk(Ord(y), chn'[y].heard.seq)
    BY <1>4 DEF Walked, Ord
  <2>2. Walked(x)' = w
    BY <1>7, <1>10, <1>0, <2>1
  <2>3. \A y \in Chan \ {x} : Walked(y)' = Walked(y)
    BY <1>10, <2>1 DEF Walked
  <2> QED
    BY <2>2, <2>3 DEF ReplayWalk
<1> DEFINE row   == RowAt(song, m.seq.pattnum, m.row - 1)
           value == Countdown(row.param % 128)
<1>13. /\ row.fx = SETTEMPO => row.param \in Byte
       /\ \A k \in Chan : ReplayTempo'[k] =
            IF row.fx = FUNKTEMPO THEN 0
            ELSE IF row.fx = SETTEMPO /\ (row.param < 128 \/ k = x) THEN value
            ELSE ReplayTempo[k]
       /\ \A i \in 0 .. 1 : ReplayFunk'[i] =
            IF row.fx = FUNKTEMPO /\ row.param \in DOMAIN song.speeds
              THEN (song.speeds[row.param][i + 1] - 1) % BYTES ELSE ReplayFunk[i]
  <2>1. ChanOK(song, x, chn[x]) /\ chn[x].next.row # 0 /\ Tick0Cmd(x, chn[x])
    BY <1>1, <1>2, <1>3
  <2>2. Playable(song) /\ TempoOK(song, tempos, funk, paired) /\ stage' = "plays"
    BY <1>3, <1>4
  <2> QED
    BY ZenonT(30), <2>1, <2>2, CommandReplayed DEF row, value, m
<1>14. ReplayTick[x] = 1
  BY <1>1 DEF ReplayTick, WalkTick
<1>15. ~ (Replay!Ended(x) /\ Replay!WalkStops(song.orders[x], [y \in Chan |-> Walked(y)][x]))
  BY <1>7, SameWalk
<1> HIDE DEF row
<1>16. Replay!RowAt(song, w.pattnum, r) = row
  <2>1. w.pattnum = m.seq.pattnum
    BY <1>7, <1>0
  <2>2. r = m.row - 1
    <3>1. r \in Int
      BY <1>3, <1>0 DEF ChanOK, PlaceOK, Playable, n
    <3> QED
      BY <1>7, <1>0, <3>1
  <2> QED
    BY <2>1, <2>2, SameWords DEF row
<1>17. ReplayTempo' = CASE row.fx = FUNKTEMPO -> [k \in Chan |-> 0]
            [] row.fx = SETTEMPO /\ row.param >= 128 -> [ReplayTempo EXCEPT ![x] = value]
            [] row.fx = SETTEMPO /\ row.param < 128 -> [k \in Chan |-> value]
            [] OTHER -> ReplayTempo
  <2>1. ReplayTempo = [k \in Chan |-> ReplayTempo[k]]
        /\ ReplayTempo' = [k \in Chan |-> ReplayTempo'[k]]
    BY DEF ReplayTempo
  <2> HIDE DEF value
  <2>2. CASE row.fx = FUNKTEMPO
    BY <1>13, <2>1, <2>2 DEF FUNKTEMPO, SETTEMPO
  <2>3. CASE row.fx = SETTEMPO /\ row.param < 128
    BY <1>13, <2>1, <2>3 DEF FUNKTEMPO, SETTEMPO, Byte, BYTES
  <2>4. CASE row.fx = SETTEMPO /\ ~ (row.param < 128)
    BY <1>13, <2>1, <2>4 DEF FUNKTEMPO, SETTEMPO, Byte, BYTES
  <2>5. CASE row.fx # FUNKTEMPO /\ row.fx # SETTEMPO
    BY <1>13, <2>1, <2>5
  <2> QED
    BY <2>2, <2>3, <2>4, <2>5
<1>18. ReplayFunk' = IF row.fx = FUNKTEMPO /\ row.param \in DOMAIN song.speeds
                       THEN [i \in 0 .. 1 |-> (song.speeds[row.param][i + 1] - 1) % BYTES]
                       ELSE ReplayFunk
  <2>1. ReplayFunk = [i \in 0 .. 1 |-> ReplayFunk[i]]
        /\ ReplayFunk' = [i \in 0 .. 1 |-> ReplayFunk'[i]]
    BY DEF ReplayFunk, FirstFunk
  <2> QED
    BY <1>13, <2>1
<1>19. /\ [y \in Chan |-> WalkTick(y)]' = [[y \in Chan |-> WalkTick(y)] EXCEPT ![x] = 0]
       /\ [y \in Chan |-> chn[y].dur]' = [[y \in Chan |-> chn[y].dur] EXCEPT ![x] = 1]
       /\ [y \in Chan |-> WalkTick(y)][x] = 1
  BY <1>9, <1>14 DEF ReplayTick, ReplayDur
<1>20. /\ [y \in Chan |-> Walked(y)]' = [[y \in Chan |-> Walked(y)] EXCEPT ![x] = w]
       /\ [y \in Chan |-> chn[y].heard.row]' = [[y \in Chan |-> chn[y].heard.row] EXCEPT ![x] = r + 1]
  BY <1>11, <1>12 DEF ReplayWalk, ReplayRow
<1> QED
  BY ZenonT(30), <1>5, <1>15, <1>16, <1>17, <1>18, <1>19, <1>20, SameWords
  DEF Replay!RowTick, Replay!RowCommand, ReplayTempo, ReplayFunk, w, r

\* Until the first row's lead-in is over the replay stands still.
LEMMA LeadInStutters ==
  ASSUME SongsPlayable, IInv, InStep, StartCall \/ \E x \in Chan : Tick0(x), stage # "plays"
  PROVE  UNCHANGED <<song, ReplayTurn, ReplayTick, ReplayTempo, ReplayFunk, ReplayWalk,
                     ReplayRow, ReplayDur>>
<1>1. CASE StartCall
  <2>1. /\ stage = "init" /\ stage' = "lead-in" /\ song' = song
        /\ \A x \in Chan : /\ tempos'[x] = song.deftempo
                           /\ chn'[x].heard = chn[x].heard /\ chn'[x].dur = chn[x].dur
        /\ UNCHANGED <<funk, paired>>
    <3>1. \A x \in Chan : DOMAIN chn[x] = ChanFields
      BY DEF IInv, ChannelsOK, ChanOK
    <3> QED
      BY <1>1, <3>1 DEF StartCall, ChanFields
  <2>2. ReplayTick' = ReplayTick /\ ReplayTurn' = ReplayTurn
    BY <2>1 DEF ReplayTick, WalkTick, ReplayTurn
  <2>3. ReplayTempo' = ReplayTempo /\ ReplayFunk' = ReplayFunk
    BY <2>1 DEF ReplayTempo, ReplayFunk
  <2>4. ReplayWalk' = ReplayWalk /\ ReplayRow' = ReplayRow /\ ReplayDur' = ReplayDur
    BY <2>1 DEF ReplayWalk, Walked, Ord, ReplayRow, ReplayDur
  <2> QED
    BY <2>1, <2>2, <2>3, <2>4
<1>2. ASSUME NEW x \in Chan, Tick0(x), stage = "lead-in"
      PROVE  UNCHANGED <<song, ReplayTurn, ReplayTick, ReplayTempo, ReplayFunk, ReplayWalk,
                         ReplayRow, ReplayDur>>
  <2>1. Turn(x) /\ Tick0Cmd(x, chn[x])
    BY <1>2 DEF Tick0
  <2>2. PICK d : /\ chn' = [chn EXCEPT ![x] = d]
                 /\ d.counter = 0 /\ d.heard = chn[x].next
                 /\ d.dur = IF chn[x].next.row > 0 THEN 1 ELSE 0
                 /\ chn[x].next.row = 0
    BY <1>2, Tick0Is
  <2>3. /\ ChanOK(song, x, chn[x]) /\ Started(song, x, chn[x]) /\ DOMAIN chn = Chan
    BY <1>2, <2>1, TurnFinds DEF IInv, ChannelsOK
  <2>4. /\ song' = song /\ turn = x /\ stage' \in {"lead-in", "plays"}
        /\ turn' = (IF x = Channels - 1 THEN 0 ELSE x + 1)
        /\ stage' = IF x = Channels - 1 THEN "plays" ELSE stage
    BY <2>1, TurnTaken
  <2>5. UNCHANGED <<tempos, funk, paired>>
    <3>1. chn[x].newfx = DONOTHING
      BY <2>2, <2>3 DEF ChanOK, CommandOf
    <3>2. paired \in BOOLEAN
      BY <1>2 DEF IInv, TempoOK
    <3> QED
      BY <2>1, <3>1, <3>2 DEF Tick0Cmd, DONOTHING, FUNKTEMPO, SETTEMPO
  <2>6. \A y \in Chan : /\ chn'[y].heard = chn[y].heard /\ chn'[y].dur = chn[y].dur
                        /\ chn'[y].heard.row = 0
    <3>1. chn[x].heard = chn[x].next /\ chn[x].heard.row = 0 /\ chn[x].dur = 0
      BY <2>2, <2>3 DEF Started, ChanOK
    <3>2. d.heard = chn[x].heard /\ d.dur = chn[x].dur
      BY <2>2, <3>1
    <3>3. \A y \in Chan : chn[y].heard.row = 0
      BY <1>2 DEF InStep, LeadsIn
    <3> QED
      BY <2>2, <2>3, <3>2, <3>3
  <2>7. stage' = "plays" => turn' = 0 /\ \A y \in Chan : chn'[y].counter = 0
    <3>1. stage' = "plays" => x = Channels - 1
      BY <1>2, <2>4
    <3>2. \A y \in Chan : x = Channels - 1 => y = x \/ y < turn
      BY <2>4, ChannelsAssumption DEF Chan
    <3>3. \A y \in Chan : y < turn => chn[y].counter = 0
      BY <1>2 DEF InStep, LeadsIn
    <3> QED
      BY <2>2, <2>3, <2>4, <3>1, <3>2, <3>3
  <2>8. ReplayTurn' = ReplayTurn
    BY <1>2, <2>4, <2>7 DEF ReplayTurn
  <2>9. ReplayTick' = ReplayTick
    <3>1. \A y \in Chan : WalkTick(y)' = 6
      BY <2>6, <2>7 DEF WalkTick
    <3> QED
      BY <1>2, <3>1 DEF ReplayTick, WalkTick
  <2>10. ReplayTempo' = ReplayTempo /\ ReplayFunk' = ReplayFunk
    BY <1>2, <2>4, <2>5 DEF ReplayTempo, ReplayFunk
  <2>11. ReplayWalk' = ReplayWalk /\ ReplayRow' = ReplayRow /\ ReplayDur' = ReplayDur
    BY <2>4, <2>6 DEF ReplayWalk, Walked, Ord, ReplayRow, ReplayDur
  <2> QED
    BY <2>4, <2>8, <2>9, <2>10, <2>11
<1>3. stage \in {"init", "lead-in", "plays"}
  BY DEF IInv
<1> QED
  BY <1>1, <1>2, <1>3 DEF Tick0, Turn

\* The replay starts where the playroutine does: six ticks before its first row.
LEMMA InitReplayed ==
  ASSUME SongsPlayable, Init
  PROVE  Replay!Init
<1>1. Playable(song) /\ song \in Songs /\ stage = "init" /\ paired = FALSE
  BY DEF Init, SongsPlayable
<1>2. \A x \in Chan : chn[x].heard = NoRow(x, song) /\ chn[x].dur = 0
  BY DEF Init
<1>3. ASSUME NEW x \in Chan
      PROVE  Walked(x) = Replay!Walk(song.orders[x], Replay!WalkStart)
  <2>1. WellFormed(song.orders[x]) /\ SeqOK(song.orders[x], SeqStart)
    BY <1>1, StartOK DEF Playable
  <2>2. Walked(x) = AsWalk(PackedOrder(song.orders[x]),
                           Sequence(PackedOrder(song.orders[x]), SeqStart))
    BY <1>1, <1>2, FirstPlace DEF Walked, Ord
  <2>3. Walked(x) = Walk(song.orders[x], WalkStart)
    BY <2>1, <2>2, SeqWalks, StartWalks
  <2> QED
    BY <2>3, SameWalk, SameWords
<1>4. ReplayWalk = [x \in Chan |-> Replay!Walk(song.orders[x], Replay!WalkStart)]
  BY <1>3 DEF ReplayWalk
<1>5. ReplayRow = [x \in Chan |-> 0] /\ ReplayDur = [x \in Chan |-> 0]
  <2>1. ASSUME NEW x \in Chan PROVE chn[x].heard.row = 0
    BY <1>1, <1>2, FirstPlace
  <2> QED
    BY <1>2, <2>1 DEF ReplayRow, ReplayDur
<1>6. /\ ReplayTick = [x \in Chan |-> 6] /\ ReplayTempo = [x \in Chan |-> song.deftempo]
      /\ ReplayTurn = 0
  BY <1>1 DEF ReplayTick, WalkTick, ReplayTempo, ReplayTurn
<1>7. ReplayFunk = Replay!FirstPair
  BY <1>1 DEF ReplayFunk, FirstFunk, Replay!FirstPair
<1> QED
  BY <1>1, <1>4, <1>5, <1>6, <1>7, SameWords
  DEF Replay!Init, Replay!FirstTick, ReplayWalk, ReplayRow, ReplayDur, ReplayTick,
      ReplayTempo, ReplayTurn, ReplayFunk

\* Each step is one of the replay's, or the replay stands still.
LEMMA StepReplayed ==
  ASSUME SongsPlayable, SingleSpeed, IInv, InStep, Paced, [Next]_vars
  PROVE  [Replay!Next]_(Replay!vars)
<1>1. CASE stage = "plays" /\ \E x \in Chan : Tick0(x) \/ Reload(x) \/ Count(x)
  <2>1. PICK x \in Chan : Tick0(x) \/ Reload(x) \/ Count(x)
    BY <1>1
  <2>2. Replay!RowTick(x) \/ Replay!Reload(x) \/ Replay!Count(x)
    BY <1>1, <2>1, Tick0Replayed, ReloadReplayed, CountReplayed
  <2> QED
    BY <2>2, SameWords DEF Replay!Next
<1>2. ASSUME NEW x \in Chan, Reload(x) \/ Count(x), stage # "plays"
      PROVE  FALSE
  BY <1>2, ReloadIs, CountIs
<1>3. CASE stage # "plays" /\ (StartCall \/ \E x \in Chan : Tick0(x))
  <2>1. UNCHANGED <<song, ReplayTurn, ReplayTick, ReplayTempo, ReplayFunk, ReplayWalk,
                    ReplayRow, ReplayDur>>
    BY <1>3, LeadInStutters
  <2>2. UNCHANGED Replay!vars
    BY <2>1 DEF Replay!vars, ReplayTurn, ReplayTick, ReplayTempo, ReplayFunk, ReplayWalk,
                ReplayRow, ReplayDur
  <2> QED
    BY <2>2
<1>4. CASE UNCHANGED vars
  BY <1>4 DEF vars, Replay!vars, WalkTick, Walked, Ord
<1>5. StartCall => stage # "plays"
  BY DEF StartCall
<1> QED
  BY <1>1, <1>2, <1>3, <1>4, <1>5 DEF Next

\* While no row is timed by the pair the playroutine starts with, and none is
\* shorter than the replay takes, the playroutine plays what the converter
\* replays: the same rows under the same places, lengths, tempos and funk pair,
\* call for frame, from six frames before the first row.
THEOREM ReplayImplemented ==
  ASSUME SongsPlayable, SingleSpeed
  PROVE  Spec /\ []Paced => ImplementsReplay
<1>1. Init => Replay!Init /\ InStep
  <2>1. Init => Replay!Init
    BY InitReplayed
  <2>2. Init => InStep
    BY DEF Init, InStep, LeadsIn, NoRow
  <2> QED
    BY <2>1, <2>2
<1>2. IInv /\ InStep /\ [Next]_vars => InStep'
  BY StepInStep
<1>3. IInv /\ InStep /\ Paced /\ [Next]_vars => [Replay!Next]_(Replay!vars)
  BY StepReplayed
<1> QED
  BY <1>1, <1>2, <1>3, IInvHolds, PTL DEF Spec, ImplementsReplay, Replay!Spec

\* Songs that name no tempo of the funk pair, and whose longest gate timer
\* leaves no row less than the replay takes.
PairUnnamed(s) ==
  /\ \A p \in DOMAIN s.patterns : \A r \in 0 .. PatternRows(s, p) - 1 :
       RowAt(s, p, r).fx = SETTEMPO => RowAt(s, p, r).param % 128 >= 2
  /\ \E i \in DOMAIN s.gates : s.gates[i] >= 2

\* Such a song is paced: only a funktempo makes a channel read the pair.
LEMMA PairUnread ==
  ASSUME SongsPlayable, SingleSpeed, \A s \in Songs : PairUnnamed(s)
  PROVE  Spec => []Paced
<1> DEFINE Owned == stage # "init" => \A y \in Chan : tempos[y] >= 2 \/ paired = TRUE
<1>1. Init => Owned
  BY DEF Init
<1>2. IInv /\ Owned /\ [Next]_vars => Owned'
  <2> SUFFICES ASSUME IInv, Owned, [Next]_vars PROVE Owned'
    OBVIOUS
  <2>1. CASE StartCall
    <3>1. song \in Songs /\ tempos' = [y \in Chan |-> song.deftempo]
      BY <2>1 DEF StartCall, IInv
    <3>2. \A y \in Chan : tempos'[y] = 5
      BY <3>1 DEF SingleSpeed
    <3> QED
      BY <3>2
  <2>2. ASSUME NEW x \in Chan, Tick0(x) PROVE Owned'
    <3> DEFINE c == chn[x]
    <3>1. Turn(x) /\ Tick0Cmd(x, c)
      BY <2>2 DEF Tick0
    <3>2. /\ Playable(song) /\ ChanOK(song, x, c) /\ TempoOK(song, tempos, funk, paired)
          /\ stage # "init"
      BY <3>1, TurnFinds DEF Turn
    <3> HIDE DEF c
    <3>3. CASE c.newfx = FUNKTEMPO
      <4>1. paired' = TRUE
        BY <3>1, <3>2, <3>3, CommandIs
      <4> QED
        BY <4>1
    <3>4. CASE c.newfx = SETTEMPO
      <4>1. c.newfx # FUNKTEMPO
        BY <3>4 DEF FUNKTEMPO, SETTEMPO
      <4>2. paired' = paired
        BY <3>1, <3>2, <4>1, CommandIs
      <4>3. c.newparam % 128 >= 2
        <5> DEFINE p == c.next.seq.pattnum
                   r == RowAt(song, p, c.next.row - 1)
        <5>1. r.fx = SETTEMPO /\ c.newparam = StoredParam(r) /\ RowOK(song, r) /\ c.next.row # 0
          BY <3>2, <3>4, RowCommanded DEF SETTEMPO, DONOTHING
        <5>2. p \in DOMAIN song.patterns /\ c.next.row - 1 \in 0 .. PatternRows(song, p) - 1
          <6>1. p \in DOMAIN song.patterns /\ c.next.row \in 0 .. PatternRows(song, p)
                /\ PatternRows(song, p) \in 1 .. 128
            BY <3>2 DEF ChanOK, PlaceOK, Playable
          <6> QED
            BY <5>1, <6>1
        <5>3. r.param % 128 >= 2
          BY <5>1, <5>2 DEF PairUnnamed, IInv
        <5> HIDE DEF r
        <5>4. r.param % 128 \in 0 .. 127 /\ r.param \in Byte
          BY <5>1 DEF RowOK, Byte, BYTES
        <5>5. c.newparam % 128 = Countdown(r.param % 128)
          BY <5>1, <5>4, StoredTempo
        <5> QED
          BY <5>3, <5>4, <5>5 DEF Countdown
      <4>4. \A k \in Chan : tempos'[k] = c.newparam % 128 \/ tempos'[k] = tempos[k]
        <5>1. ASSUME NEW k \in Chan
              PROVE  tempos'[k] = IF k = x \/ c.newparam < 128
                                    THEN c.newparam % 128 ELSE tempos[k]
          BY <3>1, <3>2, <3>4, CommandIs
        <5> QED
          BY <5>1
      <4> QED
        BY <3>2, <4>2, <4>3, <4>4
    <3>5. CASE c.newfx # FUNKTEMPO /\ c.newfx # SETTEMPO
      <4>1. tempos' = tempos /\ paired' = paired
        BY <3>1, <3>2, <3>5, CommandIs
      <4> QED
        BY <3>2, <4>1
    <3> QED
      BY <3>3, <3>4, <3>5
  <2>3. ASSUME NEW x \in Chan, Reload(x) PROVE Owned'
    <3>1. /\ tempos' = [tempos EXCEPT ![x] = IF @ >= 2 THEN @ ELSE 1 - @]
          /\ paired' = paired /\ stage # "init"
      BY <2>3 DEF Reload, Turn
    <3>2. tempos \in [Chan -> 0 .. 127]
      BY <3>1 DEF IInv, TempoOK
    <3>3. \A y \in Chan : tempos[y] >= 2 => tempos'[y] = tempos[y]
      BY <3>1, <3>2
    <3> QED
      BY <3>1, <3>3
  <2>4. ASSUME NEW x \in Chan, Count(x) PROVE Owned'
    BY <2>4 DEF Count, Turn
  <2>5. CASE UNCHANGED vars
    BY <2>5 DEF vars
  <2> QED
    BY <2>1, <2>2, <2>3, <2>4, <2>5 DEF Next
<1>3. IInv /\ Owned => Paced
  <2> SUFFICES ASSUME IInv, Owned, NEW x \in Chan, stage = "plays"
               PROVE  (tempos[x] >= 2 \/ paired) /\ Reloaded(x) >= 2
    BY DEF Paced
  <2>1. TempoOK(song, tempos, funk, paired) /\ song \in Songs /\ Playable(song)
    BY DEF IInv, SongsPlayable
  <2>2. tempos[x] >= 2 \/ paired = TRUE
    OBVIOUS
  <2>3. Reaches(song, Reloaded(x))
    <3>1. CASE tempos[x] >= 2
      BY <2>1, <3>1 DEF TempoOK, TempoReaches, Reloaded
    <3>2. CASE ~ (tempos[x] >= 2)
      <4>1. tempos[x] \in 0 .. 1 /\ PairReaches(song, funk)
        BY <2>1, <2>2, <3>2 DEF TempoOK
      <4> QED
        BY <3>2, <4>1 DEF PairReaches, Reloaded
    <3> QED
      BY <3>1, <3>2
  <2>4. Reloaded(x) >= 2
    <3>1. PICK i \in DOMAIN song.gates : song.gates[i] >= 2
      BY <2>1 DEF PairUnnamed
    <3>2. song.gates[i] \in 1 .. 63 /\ song.gates[i] <= Reloaded(x) /\ Reloaded(x) \in 1 .. 128
      BY <2>1, <2>3 DEF Playable, Reaches
    <3> QED
      BY <3>1, <3>2
  <2> QED
    BY <2>2, <2>4
<1> QED
  BY <1>1, <1>2, <1>3, IInvHolds, PTL DEF Spec

\* So every song of one call per frame that never recalls the funk pair without
\* a funktempo is played as the converter replays it.
THEOREM SongsReplayed ==
  ASSUME SongsPlayable, SingleSpeed, \A s \in Songs : PairUnnamed(s)
  PROVE  Spec => ImplementsReplay
  BY PairUnread, ReplayImplemented, PTL

=============================================================================
