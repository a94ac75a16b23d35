------------------------------ MODULE TableRows ------------------------------
(***************************************************************************)
(* What a song's bytes mean (typed.py): pattern commands and table rows as *)
(* operations, [op |-> its name, args |-> its operands], and the bytes of  *)
(* each; and the bytes the packed player has for them (packed.py).         *)
(***************************************************************************)
EXTENDS Integers, Sequences

Byte == 0 .. 255
TABLEJUMP == 255
WAVECMD == 240
WAVESILENT == 224
WAVELASTDELAY == 15

Signed(b) == IF b >= 128 THEN b - 256 ELSE b
Op(op, args) == [op |-> op, args |-> args]

-----------------------------------------------------------------------------
(* Commands.                                                               *)

CommandNames ==
  <<"nothing", "portamento up", "portamento down", "tone portamento", "vibrato", "ad", "sr",
    "wave", "wave pointer", "pulse pointer", "filter pointer", "filter control", "cutoff",
    "volume", "funktempo", "tempo">>

CommandOf(num, data) ==
  CASE num = 11 -> Op("filter control", <<data \div 16, data % 16>>)
    [] num = 13 /\ data >= 16 -> Op("timing mark", <<data>>)
    [] num = 15 -> Op("tempo", <<data % 128, data \div 128>>)
    [] OTHER -> Op(CommandNames[num + 1], <<data>>)

CommandNumber(op) ==
  IF op = "timing mark" THEN 13 ELSE CHOOSE n \in 0 .. 15 : CommandNames[n + 1] = op

CommandBytes(c) ==
  <<CommandNumber(c.op),
    CASE c.op = "filter control" -> 16 * c.args[1] + c.args[2]
      [] c.op = "tempo" -> c.args[1] + 128 * c.args[2]
      [] OTHER -> c.args[1]>>

-----------------------------------------------------------------------------
(* Table rows. A jump to row 0 stops.                                      *)

Jump(right) == Op("jump", <<right>>)
None == Op("none", <<>>)

WaveOf(left) ==
  CASE left = 0 -> None
    [] left \in 1 .. WAVELASTDELAY -> Op("delay", <<left>>)
    [] OTHER -> Op("wave", <<IF left >= WAVESILENT THEN left % 16 ELSE left>>)

NoteOf(right) ==
  CASE right = 128 -> None
    [] right > 128 -> Op("absolute", <<right - 128>>)
    [] OTHER -> Op("relative", <<IF right >= 96 THEN right - 128 ELSE right>>)

WaveRow(left, right) ==
  CASE left = TABLEJUMP -> Jump(right)
    [] left \in WAVECMD .. TABLEJUMP - 1 -> Op("command", <<CommandOf(left % 16, right)>>)
    [] OTHER -> Op("step", <<WaveOf(left), NoteOf(right)>>)

WaveBytes(row) ==
  CASE row.op = "jump" -> <<TABLEJUMP, row.args[1]>>
    [] row.op = "command" ->
         LET c == CommandBytes(row.args[1]) IN <<WAVECMD + c[1], c[2]>>
    [] OTHER ->
         LET wave == row.args[1]
             note == row.args[2]
         IN <<CASE wave = None -> 0
                [] wave.op = "wave" /\ wave.args[1] <= WAVELASTDELAY -> WAVESILENT + wave.args[1]
                [] OTHER -> wave.args[1],
              CASE note = None -> 128
                [] note.op = "absolute" -> 128 + note.args[1]
                [] OTHER -> note.args[1] % 128>>

PulseRow(left, right, simple) ==
  CASE left = TABLEJUMP -> Jump(right)
    [] simple /\ left = 128 -> Op("simple set", <<right>>)
    [] simple -> Op("simple mod", <<left, right>>)
    [] left >= 128 -> Op("set", <<256 * (left - 128) + right>>)
    [] OTHER -> Op("mod", <<left, Signed(right)>>)

PulseBytes(row) ==
  CASE row.op = "jump" -> <<TABLEJUMP, row.args[1]>>
    [] row.op = "set" -> <<128 + row.args[1] \div 256, row.args[1] % 256>>
    [] row.op = "simple set" -> <<128, row.args[1]>>
    [] OTHER -> <<row.args[1], row.args[2] % 256>>

FilterRow(left, right) ==
  CASE left = TABLEJUMP -> Jump(right)
    [] left >= 128 -> Op("set", <<left - 128, right \div 16, right % 16>>)
    [] left = 0 -> Op("cutoff", <<right>>)
    [] OTHER -> Op("mod", <<left, Signed(right)>>)

FilterBytes(row) ==
  CASE row.op = "jump" -> <<TABLEJUMP, row.args[1]>>
    [] row.op = "set" -> <<128 + row.args[1], 16 * row.args[2] + row.args[3]>>
    [] row.op = "cutoff" -> <<0, row.args[1]>>
    [] OTHER -> <<row.args[1], row.args[2] % 256>>

SpeedRow(left, right) ==
  IF left >= 128 THEN Op("calculated", <<left - 128, right>>)
  ELSE Op("fixed", <<256 * left + right>>)

SpeedBytes(row) ==
  IF row.op = "calculated" THEN <<128 + row.args[1], row.args[2]>>
  ELSE <<row.args[1] \div 256, row.args[1] % 256>>

-----------------------------------------------------------------------------
(* The packed player's bytes. Its wavetable comes in three forms: "new"    *)
(* has waveforms $10 up behind the delays, "none" has no delays, "old"     *)
(* delays 1 to 7 only. Notes change sign, so that 0 is no note.            *)

Flipped(right) == (right + 128) % 256

WavePacked(left, right, form) ==
  IF left >= WAVECMD THEN <<left, right>>
  ELSE LET w == IF left >= WAVESILENT THEN left % 16 ELSE left
       IN <<IF left > WAVELASTDELAY /\ form = "new" THEN w + 16 ELSE w, Flipped(right)>>

WaveEditor(left, right, form) ==
  IF left >= WAVECMD THEN <<left, right>>
  ELSE <<CASE form = "old" /\ left \in 8 .. WAVELASTDELAY -> WAVESILENT + left
           [] form = "none" /\ left \in 1 .. WAVELASTDELAY -> WAVESILENT + left
           [] form = "new" /\ left > WAVELASTDELAY ->
                IF left - 16 <= WAVELASTDELAY THEN WAVESILENT + left - 16 ELSE left - 16
           [] OTHER -> left, Flipped(right)>>

\* The passband stands a bit lower, under the player's shift.
FilterPacked(row) ==
  IF row.op = "set" THEN <<128 + row.args[1] \div 2, 16 * row.args[2] + row.args[3]>>
  ELSE FilterBytes(row)

FilterUnpacked(left, right) ==
  IF left >= 128 /\ left # TABLEJUMP
  THEN Op("set", <<2 * (left - 128), right \div 16, right % 16>>) ELSE FilterRow(left, right)

=============================================================================
