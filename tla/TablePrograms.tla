---------------------------- MODULE TablePrograms ----------------------------
(***************************************************************************)
(* The converter's table programs: each walk of a GoatTracker table from a *)
(* start to its stop or its loop becomes one contiguous NinjaTracker       *)
(* program, jumps laid straight and the loop an absolute position. One     *)
(* table is converted, the programs asked for one after the other.         *)
(*                                                                         *)
(* A table row is <<left, right>>, bytes; positions count from 1, 0 is     *)
(* none. A feature NinjaTracker lacks raises in strict mode, else it is    *)
(* noted in dropped.                                                       *)
(***************************************************************************)
EXTENDS Integers, SequencesExt

CONSTANTS
  Sources,    \* what is converted: [kind, table, speeds, asked]
  TableMax    \* a converted table's rows: 255 in the code

ASSUME TableMaxAssumption == TableMax \in 1 .. 255

VARIABLES
  source,     \* the table converted, and the <<start, vibrato>> asked for
  strict,     \* errors="strict"
  target,     \* the converted table
  programs,   \* the programs stored: <<start, vibrato>> to base
  job,        \* the program being made: <<start, vibrato>>, or <<>>
  pos, rows, mapped,   \* its walk: position, rows made, row made per position
  band,       \* the filter's passband and voice mask
  dropped,    \* what was left out
  failed      \* ConversionError was raised

walk == <<job, pos, rows, mapped, band>>
vars == <<source, strict, target, programs, walk, dropped, failed>>

TABLEJUMP == 255
NoVibrato == <<0, 0>>
DefaultBand == [pass |-> 1, mask |-> 7]   \* the converter's, before any setting
NoBand == [pass |-> -1, mask |-> -1]       \* none set by the program yet

Lesser(a, b) == IF a < b THEN a ELSE b

\* f with y at x, of its domain or not.
With(f, x, y) == [z \in {x} \cup DOMAIN f |-> IF z = x THEN y ELSE f[z]]

-----------------------------------------------------------------------------
(* Rows. Each conversion gives the row made and what it could not express. *)

WaveArp(right) ==
  CASE right = 128 -> [byte |-> 0, lost |-> {}]
    [] right \in 129 .. 139 -> [byte |-> 140, lost |-> {"note below C-1"}]
    [] right > 223 -> [byte |-> 223, lost |-> {"note above B-7"}]
    [] OTHER -> [byte |-> right, lost |-> {}]

\* (mutant) A silent waveform's left byte is taken as it is.
WaveLeftPlain(left) ==
  IF left <= 15 THEN 144 + left ELSE Lesser(left, 143)

\* Delays move up, silent waveforms lose their high nibble, others stop at $8F.
WaveLeft(left) ==
  CASE left <= 15 -> 144 + left
    [] left \in 224 .. 239 -> left - 224
    [] OTHER -> Lesser(left, 143)

\* A wavetable command is left out: the step plays on with no waveform.
WaveStep(left, right) ==
  LET command == left \in 240 .. 254
      l == IF command THEN 0 ELSE left
      arp == WaveArp(IF command THEN 128 ELSE right)
  IN [row |-> <<WaveLeft(l), arp.byte>>,
      lost |-> arp.lost
        \cup (IF command THEN {"wavetable command"} ELSE {})
        \cup (IF l > 143 /\ l \notin 224 .. 239 THEN {"waveform above $8F"} ELSE {})]

\* A pulse setting keeps the high and the middle nibble, in one byte.
PulseStep(left, right) ==
  IF left >= 128 THEN <<128, (right - (right % 16)) + (left % 16)>> ELSE <<left, right>>

BandOf(left, right) == [pass |-> (left \div 16) % 8, mask |-> right % 16]

\* The passband nybble carries the resonance bit.
FilterSet(b) == 16 * (b.pass + 8) + b.mask

SpeedValue(index) ==
  IF index = 0 \/ index > Len(source.speeds) THEN [speed |-> 0, lost |-> {}]
  ELSE IF source.speeds[index][1] >= 128
       THEN [speed |-> 0, lost |-> {"note-independent speed"}]
       ELSE [speed |-> 256 * source.speeds[index][1] + source.speeds[index][2], lost |-> {}]

\* An instrument's vibrato as steps: its delay, then the vibrato.
VibratoSteps(vibrato) ==
  LET value == SpeedValue(vibrato[2])
      speed == value.speed
  IN [lost |-> value.lost,
      rows |-> IF speed = 0 THEN <<>>
               ELSE (IF vibrato[1] = 0 THEN <<>> ELSE <<<<144 + Lesser(vibrato[1], 47), 0>>>>)
                    \o <<<<192 + Lesser(speed \div 256, 31), speed % 256>>>>]

-----------------------------------------------------------------------------
(* The walk of a table.                                                    *)

Unsupported(lost) ==
  IF strict /\ lost # {} THEN failed' = TRUE /\ UNCHANGED dropped
  ELSE dropped' = dropped \cup lost /\ UNCHANGED failed

Ask(start, vibrato) ==
  /\ ~ failed /\ job = <<>>
  /\ <<start, vibrato>> \in source.asked \ DOMAIN programs
  /\ job' = <<start, vibrato>>
  /\ pos' = start /\ rows' = <<>> /\ mapped' = <<>> /\ band' = DefaultBand
  /\ UNCHANGED <<source, strict, target, programs, dropped, failed>>

\* (mutant) A position on a jump is not remembered.
MarkedRowsOnly(p, at) ==
  IF source.table[p][1] = TABLEJUMP THEN mapped ELSE With(mapped, p, at)

\* The position stands for the next row made.
Marked(p, at) == With(mapped, p, at)

Walking ==
  /\ ~ failed /\ job # <<>>
  /\ pos \in DOMAIN source.table /\ pos \notin DOMAIN mapped

Jump ==
  /\ Walking /\ source.table[pos][1] = TABLEJUMP
  /\ mapped' = Marked(pos, Len(rows))
  /\ pos' = source.table[pos][2]
  /\ UNCHANGED <<source, strict, target, programs, job, rows, band, dropped, failed>>

WaveRow ==
  /\ source.kind = "wave"
  /\ LET step == WaveStep(source.table[pos][1], source.table[pos][2])
     IN rows' = Append(rows, step.row) /\ Unsupported(step.lost)
  /\ mapped' = Marked(pos, Len(rows)) /\ pos' = pos + 1
  /\ UNCHANGED band

PulseRow ==
  /\ source.kind = "pulse"
  /\ rows' = Append(rows, PulseStep(source.table[pos][1], source.table[pos][2]))
  /\ mapped' = Marked(pos, Len(rows)) /\ pos' = pos + 1
  /\ UNCHANGED <<band, dropped, failed>>

\* A cutoff row right after a setting is made one row with it.
FilterMerges == pos + 1 \in DOMAIN source.table /\ source.table[pos + 1][1] = 0

FilterRow ==
  /\ source.kind = "filter"
  /\ LET left == source.table[pos][1]
         right == source.table[pos][2]
     IN CASE left >= 128 ->
               /\ band' = BandOf(left, right)
               /\ rows' = Append(rows, <<FilterSet(band'),
                                         IF FilterMerges THEN source.table[pos + 1][2] ELSE 0>>)
               /\ mapped' = IF FilterMerges
                            THEN With(Marked(pos, Len(rows)), pos + 1, Len(rows))
                            ELSE Marked(pos, Len(rows))
               /\ pos' = IF FilterMerges THEN pos + 2 ELSE pos + 1
          [] left = 0 -> /\ rows' = Append(rows, <<FilterSet(band), right>>)
                         /\ mapped' = Marked(pos, Len(rows)) /\ pos' = pos + 1
                         /\ UNCHANGED band
          [] OTHER -> /\ rows' = Append(rows, <<left, right>>)
                      /\ mapped' = Marked(pos, Len(rows)) /\ pos' = pos + 1
                      /\ UNCHANGED band
  /\ UNCHANGED <<dropped, failed>>

Row ==
  /\ Walking /\ source.table[pos][1] # TABLEJUMP
  /\ WaveRow \/ PulseRow \/ FilterRow
  /\ UNCHANGED <<source, strict, target, programs, job>>

\* (mutant) The loop is stored as it stands in the program alone.
LoopRelative(base, at) == at + 1

\* Where the program's last row jumps: to the row its loop came round to.
LoopTo(base, at) == base + at

Overflows(made) == Len(target) + Len(made) > TableMax

\* (mutant) The vibrato is put before the program.
VibratoFront(loops, vib) == IF loops THEN rows ELSE vib \o rows

\* An instrument's vibrato follows the program's rows, if those end.
ProgramRows(loops, vib) == IF loops THEN rows ELSE rows \o vib

\* The walk has come to its stop, its end or a position it has been at: the
\* program is stored, an instrument's vibrato before its last row.
Store ==
  /\ ~ failed /\ job # <<>> /\ ~ Walking
  /\ LET loops == pos \in DOMAIN mapped
         vib   == IF job[2] = NoVibrato THEN [lost |-> {}, rows |-> <<>>] ELSE VibratoSteps(job[2])
         lost  == vib.lost \cup (IF loops /\ vib.rows # <<>> THEN {"vibrato on a loop"} ELSE {})
         base  == Len(target) + 1
         close == <<TABLEJUMP, IF loops THEN LoopTo(base, mapped[pos]) ELSE 0>>
         made  == Append(ProgramRows(loops, vib.rows), close)
     IN IF Overflows(made) \/ (strict /\ lost # {})
        THEN failed' = TRUE /\ UNCHANGED <<target, programs, job, dropped>>
        ELSE /\ target' = target \o made
             /\ programs' = With(programs, job, base)
             /\ job' = <<>>
             /\ dropped' = dropped \cup lost
             /\ UNCHANGED failed
  /\ UNCHANGED <<source, strict, pos, rows, mapped, band>>

Init ==
  /\ source \in Sources /\ strict \in BOOLEAN
  /\ target = <<>> /\ programs = <<>>
  /\ job = <<>> /\ pos = 0 /\ rows = <<>> /\ mapped = <<>> /\ band = DefaultBand
  /\ dropped = {} /\ failed = FALSE

Next ==
  \/ \E a \in source.asked : Ask(a[1], a[2])
  \/ Jump \/ Row \/ Store

Spec == Init /\ [][Next]_vars

\* The walk is a loop with no other exit.
FairSpec == Spec /\ WF_vars(Next)

-----------------------------------------------------------------------------
(* What both players make of their tables: the step at a position, then    *)
(* the row after it, where a jump is followed at once (the playroutine's   *)
(* waveexec, nextpulse and filter step; NinjaTracker's tables alike).      *)

Follow(t, p) ==
  LET after == p + 1 IN
  IF after \notin DOMAIN t THEN 0
  ELSE IF t[after][1] = TABLEJUMP THEN t[after][2] ELSE after

\* A walk that meets no jump but as the row after one played, and stays inside.
Playable(t, start) ==
  LET f[k \in 0 .. Len(t)] == IF k = 0 THEN start
                              ELSE IF f[k - 1] = 0 THEN 0 ELSE Follow(t, f[k - 1])
  IN /\ \A k \in 0 .. Len(t) : f[k] = 0 \/ (f[k] \in DOMAIN t /\ t[f[k]][1] # TABLEJUMP)
     /\ start # 0 /\ t[Len(t)][1] = TABLEJUMP

\* GoatTracker's steps: a waveform or delay with a note, a pulse setting of two
\* nibbles or a modulation. The note kept and a pulse's low nibble are heard as
\* convert.py says it approximates them, the resonance not at all.
WaveHeard(l, r) ==
  [wave |-> CASE l \in 0 .. 15 -> <<"delay", l>>
              [] l \in 224 .. 239 -> <<"wave", l % 16>>
              [] OTHER -> <<"wave", l>>,
   note |-> IF r = 128 THEN 0 ELSE r]

PulseHeard(l, r) == IF l >= 128 THEN <<"set", l % 16, r \div 16>> ELSE <<"mod", l, r>>

\* NinjaTracker's.
NinjaWaveHeard(l, r) ==
  [wave |-> IF l \in 144 .. 191 THEN <<"delay", l - 144>> ELSE <<"wave", l>>, note |-> r]

NinjaPulseHeard(l, r) == IF l = 128 THEN <<"set", r % 16, r \div 16>> ELSE <<"mod", l, r>>

NinjaFilterHeard(l, r) ==
  IF l >= 128 THEN <<"set", [pass |-> (l \div 16) % 8, mask |-> l % 16], r>> ELSE <<"mod", l, r>>

\* A filter step from p after the program set band b: what it sets, and the last
\* row it takes. A setting takes a cutoff row right behind it; with none behind
\* it the cutoff goes on from where it is, and a cutoff row leaves the band, one
\* of before the program where this has set none.
FilterHeard(t, p, b) ==
  LET l == t[p][1]
      set == BandOf(l, t[p][2])
      takes == p + 1 \in DOMAIN t /\ t[p + 1][1] = 0
  IN CASE l >= 128 /\ takes   -> [last |-> p + 1, band |-> set, heard |-> <<"set", set, t[p + 1][2]>>]
       [] l >= 128 /\ ~ takes -> [last |-> p, band |-> set, heard |-> <<"band", set>>]
       [] l = 0 -> [last |-> p, band |-> b,
                    heard |-> IF b = NoBand THEN <<"cutoff", t[p][2]>> ELSE <<"set", b, t[p][2]>>]
       [] OTHER -> [last |-> p, band |-> b, heard |-> <<"mod", l, t[p][2]>>]

\* The first n steps heard from a start, in either table.
Heard(t, start, n) ==
  LET f[k \in 0 .. n] ==
        IF k = 0 THEN [p |-> start, band |-> NoBand, out |-> <<>>]
        ELSE LET s == f[k - 1] IN
             IF s.p = 0 THEN s
             ELSE LET l == t[s.p][1]
                      r == t[s.p][2]
                      filter == FilterHeard(t, s.p, s.band)
                  IN CASE source.kind = "wave" ->
                            [s EXCEPT !.p = Follow(t, s.p), !.out = Append(@, WaveHeard(l, r))]
                       [] source.kind = "pulse" ->
                            [s EXCEPT !.p = Follow(t, s.p), !.out = Append(@, PulseHeard(l, r))]
                       [] OTHER ->
                            [p |-> Follow(t, filter.last), band |-> filter.band,
                             out |-> Append(s.out, filter.heard)]
  IN f[n].out

NinjaHeard(t, base, n) ==
  LET f[k \in 0 .. n] ==
        IF k = 0 THEN [p |-> base, out |-> <<>>]
        ELSE LET s == f[k - 1] IN
             IF s.p = 0 THEN s
             ELSE [p |-> Follow(t, s.p),
                   out |-> Append(s.out,
                     CASE source.kind = "wave"  -> NinjaWaveHeard(t[s.p][1], t[s.p][2])
                       [] source.kind = "pulse" -> NinjaPulseHeard(t[s.p][1], t[s.p][2])
                       [] OTHER -> NinjaFilterHeard(t[s.p][1], t[s.p][2]))]
  IN f[n].out

-----------------------------------------------------------------------------
(* Properties.                                                             *)

TypeOK ==
  /\ Len(target) <= TableMax
  /\ DOMAIN programs \subseteq source.asked
  /\ \A a \in DOMAIN programs : programs[a] \in DOMAIN target
  /\ mapped \in [DOMAIN mapped -> 0 .. Len(rows)]
  /\ failed \in BOOLEAN

PlaysSame(a, heard) ==
  NinjaHeard(target, programs[a], 2 * Len(source.table) + 1) = heard

\* No filter step leaves the band or the cutoff to what sounded before it: a row
\* of NinjaTracker's sets both.
SetsWhole(heard) ==
  source.kind = "filter" => \A k \in DOMAIN heard : heard[k][1] \notin {"band", "cutoff"}

\* A stored program with no vibrato of its own plays, step for step, what its
\* walk of the source table plays, round its loop twice and more: linearised
\* jumps, merged filter rows and the programs stored before it change nothing.
\* (Where nothing was left out: a dropped feature is not heard.)
ProgramsPlaySame ==
  \A a \in DOMAIN programs :
    LET heard == Heard(source.table, a[1], 2 * Len(source.table) + 1)
    IN  a[2] = NoVibrato /\ dropped = {} /\ Playable(source.table, a[1]) /\ SetsWhole(heard)
          => PlaysSame(a, heard)

\* What the documentation says of strict conversion: what cannot be expressed
\* raises, so every program stored plays the same. (It does not hold: a filter
\* step that sets the band or the cutoff alone is given the other one.)
StrictPlaysSame ==
  strict => \A a \in DOMAIN programs :
    a[2] = NoVibrato /\ Playable(source.table, a[1])
      => PlaysSame(a, Heard(source.table, a[1], 2 * Len(source.table) + 1))

\* An instrument's program with vibrato is its plain steps, then the vibrato
\* for good, its delay before it: a walk that loops keeps its vibrato out.
VibratoLast ==
  \A a \in DOMAIN programs :
    LET plain == Heard(source.table, a[1], 2 * Len(source.table) + 1)
        speed == source.speeds[a[2][2]]
        delay == IF a[2][1] = 0 THEN <<>> ELSE <<[wave |-> <<"delay", a[2][1]>>, note |-> 0]>>
        vib   == [wave |-> <<"wave", 192 + speed[1]>>, note |-> speed[2]]
    IN a[2] # NoVibrato /\ dropped = {} /\ Playable(source.table, a[1])
         => /\ Len(plain) <= Len(source.table)
            /\ NinjaHeard(target, programs[a], Len(plain) + 3) = plain \o delay \o <<vib>>

\* A program ends in a jump of its own, to 0 or back into its own rows: one
\* stored after it is never run into.
ProgramsApart ==
  \A a \in DOMAIN programs :
    \E last \in programs[a] .. Len(target) :
      /\ target[last][1] = TABLEJUMP
      /\ target[last][2] \in {0} \cup programs[a] .. last
      /\ \A p \in programs[a] .. last - 1 : target[p][1] # TABLEJUMP

\* Every program asked for is made, or the conversion fails: no table, not even
\* one whose jumps go round among themselves, holds the walk for ever.
WalksEnd == <>[](failed \/ DOMAIN programs = source.asked)

=============================================================================
