--------------------------- MODULE TempoWalkProofs ---------------------------
(***************************************************************************)
(* What is proved of TempoWalk, for every set of songs whose orderlists    *)
(* name patterns they have, restarts outside the orderlist included.       *)
(***************************************************************************)
EXTENDS TempoWalk, Sequences, TLAPS

OrderOK(s, o) ==
  /\ o.size \in 1 .. 254 /\ o.restart \in Nat
  /\ o.entries \in [0 .. o.size - 1 -> 0 .. LOOPSONG - 1]
  /\ WellOrdered(o)
  /\ \A i \in 0 .. o.size - 1 : IsPattern(o.entries[i]) => o.entries[i] \in DOMAIN s.patterns

PatternOK(p) == p.size \in 1 .. 128 /\ \A r \in 0 .. p.size - 1 : p.rows[r].param \in Byte

\* Songs as they are read: bytes, tempos of seven bits, patterns that are there.
SongOK(s) ==
  /\ \A x \in Chan : OrderOK(s, s.orders[x])
  /\ \A p \in DOMAIN s.patterns : PatternOK(s.patterns[p])
  /\ s.speeds \in Seq(Byte \X Byte)
  /\ s.deftempo \in 0 .. 127

SongsOK == \A s \in Songs : SongOK(s)

\* A walk rests on an entry or the end mark, on a pattern while a repeat owes
\* plays of it, and plays a pattern of the song.
WalkOK(s, o, w) ==
  /\ w.songptr \in 0 .. o.size /\ w.repeat \in Nat
  /\ w.repeat > 0 => w.songptr < o.size /\ IsPattern(o.entries[w.songptr])
  /\ w.pattnum \in DOMAIN s.patterns

\* The frames counted of a row and those left make four until the row's last
\* frame is counted down; before the first row nothing is counted.
FramesOK(d, t) == d = 0 \/ (d = 1 /\ t = 0) \/ (d >= 2 /\ t >= 1 /\ d + t >= 4)

ChannelOK(x) ==
  /\ WalkOK(song, song.orders[x], walk[x])
  /\ row[x] \in 0 .. PatternRows(song, walk[x].pattnum)
  /\ FramesOK(dur[x], tick[x])

TempoOK == tempo \in [Chan -> 0 .. 127] /\ funk \in [0 .. 1 -> Byte]

IInv ==
  /\ song \in Songs /\ turn \in Chan /\ failed \in BOOLEAN
  /\ TempoOK
  /\ tick \in [Chan -> Byte] /\ dur \in [Chan -> 0 .. DurCap]
  /\ DOMAIN walk = Chan /\ DOMAIN row = Chan
  /\ \A x \in Chan : ChannelOK(x)

-----------------------------------------------------------------------------
(* The walk.                                                               *)

\* Where the restart is not taken outside, the walk goes on to a pattern.
LEMMA WalkGoesOn ==
  ASSUME NEW s, NEW o, OrderOK(s, o), NEW w, w.songptr \in 0 .. o.size, w.repeat \in Nat,
         w.repeat > 0 => w.songptr < o.size /\ IsPattern(o.entries[w.songptr]),
         ~ WalkStops(o, w)
  PROVE  WalkOK(s, o, Walk(o, w))
<1> DEFINE ord == EditorOrder(o)
<1>1. o.size \in 1 .. 254 /\ o.restart \in Nat
  BY DEF OrderOK
<1>2. ASSUME NEW i \in 0 .. o.size - 1
      PROVE  /\ ord[i] = o.entries[i] /\ ord[i] \in 0 .. 254
             /\ IsPattern(ord[i]) => ord[i] \in DOMAIN s.patterns
             /\ IsRepeat(ord[i]) => i + 1 \in 0 .. o.size - 1 /\ IsPattern(ord[i + 1])
             /\ IsTranspose(ord[i]) => i + 1 \in 0 .. o.size - 1 /\ ~ IsTranspose(ord[i + 1])
  <2>1. /\ o.entries \in [0 .. o.size - 1 -> 0 .. LOOPSONG - 1]
        /\ WellOrdered(o)
        /\ IsPattern(o.entries[i]) => o.entries[i] \in DOMAIN s.patterns
    BY DEF OrderOK
  <2>2. ASSUME NEW j \in 0 .. o.size - 1
        PROVE  ord[j] = o.entries[j]
    <3>1. j \in 0 .. o.size + 1 /\ j < o.size
      BY <1>1
    <3> QED
      BY <3>1 DEF EditorOrder
  <2>3. o.entries[i] \in 0 .. 254
    <3>1. o.entries[i] \in 0 .. LOOPSONG - 1
      BY <2>1
    <3> QED
      BY <3>1 DEF LOOPSONG
  <2>4. /\ IsRepeat(o.entries[i]) => i + 1 < o.size /\ IsPattern(o.entries[i + 1])
        /\ IsTranspose(o.entries[i]) => i + 1 < o.size /\ ~ IsTranspose(o.entries[i + 1])
    BY <2>1 DEF WellOrdered
  <2>5. ord[i] = o.entries[i]
    BY <2>2
  <2>6. i + 1 < o.size => i + 1 \in 0 .. o.size - 1
    BY <1>1
  <2>7. i + 1 < o.size => ord[i + 1] = o.entries[i + 1]
    BY <2>2, <2>6
  <2> HIDE DEF ord
  <2> QED
    BY <2>1, <2>3, <2>4, <2>5, <2>6, <2>7
<1>3. ord[o.size] = LOOPSONG /\ ord[o.size + 1] = o.restart
  <2>1. o.size \in 0 .. o.size + 1 /\ o.size + 1 \in 0 .. o.size + 1
    BY <1>1
  <2> QED
    BY <1>1, <2>1 DEF EditorOrder
<1> HIDE DEF ord
<1>4. EntryPos(ord, w) \in 0 .. o.size - 1 /\ (w.repeat > 0 => EntryPos(ord, w) = w.songptr)
  <2>1. CASE w.songptr = o.size
    <3>1. AtLoop(ord, w) /\ o.restart < o.size
      BY <1>1, <1>3, <2>1 DEF AtLoop, WalkStops
    <3> QED
      BY <1>1, <1>3, <2>1, <3>1 DEF EntryPos
  <2>2. CASE w.songptr # o.size
    <3>1. w.songptr \in 0 .. o.size - 1
      BY <1>1, <2>2
    <3>2. ord[w.songptr] \in 0 .. 254
      BY <1>2, <3>1
    <3>3. ~ AtLoop(ord, w)
      BY <3>2 DEF AtLoop, LOOPSONG
    <3> QED
      BY <3>1, <3>3 DEF EntryPos
  <2> QED
    BY <2>1, <2>2
<1>5. PICK e \in 0 .. o.size - 1 : e = EntryPos(ord, w) /\ (w.repeat > 0 => e = w.songptr)
  BY <1>4
<1>6. w.repeat > 0 => IsPattern(ord[e])
  <2>1. ord[e] = o.entries[e]
    BY <1>2
  <2> QED
    BY <1>5, <2>1
<1>7. WalkPos(ord, w) \in 0 .. o.size - 1 /\ ~ IsTranspose(ord[WalkPos(ord, w)])
      /\ (w.repeat > 0 => WalkPos(ord, w) = w.songptr)
  <2>1. WalkPos(ord, w) = e + (IF IsTranspose(ord[e]) THEN 1 ELSE 0)
    BY <1>5 DEF WalkPos
  <2>2. CASE IsTranspose(ord[e])
    <3>1. ~ IsPattern(ord[e])
      BY <2>2 DEF IsPattern, IsTranspose, REPEAT, TRANSDOWN, LOOPSONG
    <3>2. WalkPos(ord, w) = e + 1
      BY <2>1, <2>2
    <3>3. e + 1 \in 0 .. o.size - 1 /\ ~ IsTranspose(ord[e + 1])
      BY <1>2, <1>5, <2>2
    <3> QED
      BY <1>6, <3>1, <3>2, <3>3
  <2>3. CASE ~ IsTranspose(ord[e])
    <3>1. WalkPos(ord, w) = e
      BY <1>5, <2>1, <2>3
    <3> QED
      BY <1>5, <2>3, <3>1
  <2> QED
    BY <2>2, <2>3
<1>8. PICK p \in 0 .. o.size - 1 : p = WalkPos(ord, w) /\ ~ IsTranspose(ord[p])
        /\ (w.repeat > 0 => p = w.songptr)
  BY <1>7
<1>9. WalkAt(ord, w) \in 0 .. o.size - 1 /\ IsPattern(ord[WalkAt(ord, w)])
  <2>1. WalkAt(ord, w) = p + (IF IsRepeat(ord[p]) THEN 1 ELSE 0)
    BY <1>8 DEF WalkAt
  <2>2. CASE IsRepeat(ord[p])
    <3>1. WalkAt(ord, w) = p + 1
      BY <2>1, <2>2
    <3> QED
      BY <1>2, <1>8, <2>2, <3>1
  <2>3. CASE ~ IsRepeat(ord[p])
    <3>1. WalkAt(ord, w) = p
      BY <1>8, <2>1, <2>3
    <3>2. ord[p] \in 0 .. 254
      BY <1>2, <1>8
    <3>3. IsPattern(ord[p])
      BY <1>8, <2>3, <3>2 DEF IsPattern, IsRepeat, IsTranspose, REPEAT, TRANSDOWN, LOOPSONG
    <3> QED
      BY <1>8, <3>1, <3>3
  <2> QED
    BY <2>2, <2>3
<1>10. PICK a \in 0 .. o.size - 1 : a = WalkAt(ord, w) /\ IsPattern(ord[a])
  BY <1>9
<1>11. WalkLeft(ord, w) \in Nat
  <2>1. WalkLeft(ord, w) = IF IsRepeat(ord[p]) THEN ord[p] - REPEAT ELSE w.repeat
    BY <1>8 DEF WalkLeft
  <2>2. ord[p] \in 0 .. 254
    BY <1>2, <1>8
  <2> QED
    BY <2>1, <2>2 DEF IsRepeat, REPEAT, TRANSDOWN
<1>12. PICK left \in Nat : left = WalkLeft(ord, w)
  BY <1>11
<1>13. /\ Walk(o, w).songptr = WalkNext(a, left)
       /\ Walk(o, w).repeat = WalkOwes(left)
       /\ Walk(o, w).pattnum = ord[a]
  BY <1>10, <1>12 DEF Walk, ord
<1>14. /\ WalkNext(a, left) \in 0 .. o.size /\ WalkOwes(left) \in Nat
       /\ WalkOwes(left) > 0 => WalkNext(a, left) = a
  BY <1>1, <1>10, <1>12 DEF WalkNext, WalkOwes
<1>15. ord[a] = o.entries[a] /\ ord[a] \in DOMAIN s.patterns
  BY <1>2, <1>10
<1> QED
  BY <1>1, <1>10, <1>13, <1>14, <1>15 DEF WalkOK

\* An orderlist's first pattern: the walk starts inside it.
LEMMA WalkBegins ==
  ASSUME NEW s, NEW o, OrderOK(s, o)
  PROVE  WalkOK(s, o, Walk(o, WalkStart))
<1>1. o.size \in 1 .. 254
  BY DEF OrderOK
<1>2. /\ WalkStart.songptr = 0 /\ WalkStart.repeat = 0
  BY DEF WalkStart
<1>3. ~ WalkStops(o, WalkStart)
  BY <1>1, <1>2 DEF WalkStops
<1> HIDE DEF WalkStart
<1> QED
  BY <1>1, <1>2, <1>3, WalkGoesOn

-----------------------------------------------------------------------------
(* Tempos and frames.                                                      *)

\* A byte less one is a byte: the funk pair wraps.
LEMMA LessOne ==
  ASSUME NEW v \in Byte
  PROVE  (v - 1) % BYTES \in Byte
<1>1. v - 1 \in Int
  BY DEF Byte, BYTES
<1>2. \A n \in Int : n % 256 \in 0 .. 255
  BY SMTT(30)
<1> QED
  BY <1>1, <1>2 DEF Byte, BYTES

\* Whatever a row commands, tempos keep seven bits and the pair its bytes.
LEMMA CommandKeeps ==
  ASSUME TempoOK, SongOK(song), NEW x \in Chan, NEW r, r.param \in Byte, RowCommand(x, r)
  PROVE  TempoOK'
<1>1. Countdown(r.param % 128) \in 0 .. 127
  BY DEF Countdown, Byte, BYTES
<1>2. tempo' \in [Chan -> 0 .. 127]
  <2> DEFINE value == Countdown(r.param % 128)
  <2>1. value \in 0 .. 127
    BY <1>1
  <2>2. tempo' = CASE r.fx = FUNKTEMPO -> [c \in Chan |-> 0]
                   [] r.fx = SETTEMPO /\ r.param >= 128 -> [tempo EXCEPT ![x] = value]
                   [] r.fx = SETTEMPO /\ r.param < 128 -> [c \in Chan |-> value]
                   [] OTHER -> tempo
    BY DEF RowCommand
  <2> HIDE DEF value
  <2>3. tempo \in [Chan -> 0 .. 127]
    BY DEF TempoOK
  <2>4. CASE r.fx = FUNKTEMPO
    BY <2>2, <2>4 DEF FUNKTEMPO, SETTEMPO
  <2>5. CASE r.fx = SETTEMPO
    <3>1. r.param >= 128 \/ r.param < 128
      BY DEF Byte, BYTES
    <3> QED
      BY <2>1, <2>2, <2>3, <2>5, <3>1 DEF FUNKTEMPO, SETTEMPO, Byte, BYTES
  <2>6. CASE r.fx # FUNKTEMPO /\ r.fx # SETTEMPO
    BY <2>2, <2>3, <2>6
  <2> QED
    BY <2>4, <2>5, <2>6
<1>3. funk' \in [0 .. 1 -> Byte]
  <2>1. CASE r.fx = FUNKTEMPO /\ r.param \in DOMAIN song.speeds
    <3>1. song.speeds[r.param] \in Byte \X Byte
      BY <2>1 DEF SongOK
    <3>2. \A i \in 0 .. 1 : (song.speeds[r.param][i + 1] - 1) % BYTES \in Byte
      <4>1. song.speeds[r.param][1] \in Byte /\ song.speeds[r.param][2] \in Byte
        BY <3>1
      <4> SUFFICES ASSUME NEW i \in 0 .. 1
                   PROVE  (song.speeds[r.param][i + 1] - 1) % BYTES \in Byte
        OBVIOUS
      <4>2. song.speeds[r.param][i + 1] \in Byte
        <5>1. i + 1 = 1 \/ i + 1 = 2
          OBVIOUS
        <5> QED
          BY <4>1, <5>1
      <4> QED
        BY <4>2, LessOne
    <3>3. funk' = [i \in 0 .. 1 |-> (song.speeds[r.param][i + 1] - 1) % BYTES]
      BY <2>1 DEF RowCommand
    <3> QED
      BY <3>2, <3>3
  <2>2. CASE ~ (r.fx = FUNKTEMPO /\ r.param \in DOMAIN song.speeds)
    BY <2>2 DEF RowCommand, TempoOK
  <2> QED
    BY <2>1, <2>2
<1> QED
  BY <1>2, <1>3 DEF TempoOK

\* One frame more of a row is counted as one frame less is left.
LEMMA FramesCounted ==
  ASSUME NEW d \in 0 .. DurCap, NEW t \in Byte, FramesOK(d, t)
  PROVE  /\ Lengthened(d) \in 0 .. DurCap
         /\ t > 1 => FramesOK(Lengthened(d), t - 1)
         /\ \A u \in Byte : t = 0 /\ u >= 2 => FramesOK(Lengthened(d), u)
<1>1. Lengthened(d) = IF d \in 1 .. 255 THEN d + 1 ELSE d
  BY DEF Lengthened, DurCap
<1>2. d \in 0 .. 256 /\ t \in 0 .. 255
  BY DEF DurCap, Byte, BYTES
<1>3. d = 0 \/ (d = 1 /\ t = 0) \/ (d >= 2 /\ t >= 1 /\ d + t >= 4)
  BY DEF FramesOK
<1>4. Lengthened(d) \in 0 .. DurCap
  BY <1>1, <1>2 DEF DurCap
<1>5. t > 1 => FramesOK(Lengthened(d), t - 1)
  BY <1>1, <1>2, <1>3 DEF FramesOK
<1>6. ASSUME NEW u \in Byte, t = 0, u >= 2
      PROVE  FramesOK(Lengthened(d), u)
  <2>1. Lengthened(d) = 0 \/ Lengthened(d) = 2
    BY <1>1, <1>2, <1>3, <1>6
  <2> QED
    BY <1>6, <2>1 DEF FramesOK, Byte, BYTES
<1> QED
  BY <1>4, <1>5, <1>6

\* What a channel's tick is reloaded with is a byte.
LEMMA ReloadedByte ==
  ASSUME TempoOK, NEW x \in Chan
  PROVE  Reloaded(x) \in Byte /\ (IF tempo[x] >= 2 THEN tempo[x] ELSE 1 - tempo[x]) \in 0 .. 127
<1>1. tempo[x] \in 0 .. 127 /\ funk \in [0 .. 1 -> Byte]
  BY DEF TempoOK
<1>2. CASE tempo[x] >= 2
  BY <1>1, <1>2 DEF Reloaded, Byte, BYTES
<1>3. CASE ~ (tempo[x] >= 2)
  <2>1. tempo[x] \in 0 .. 1
    BY <1>1, <1>3
  <2> QED
    BY <1>1, <1>3, <2>1 DEF Reloaded
<1> QED
  BY <1>2, <1>3

-----------------------------------------------------------------------------
(* The invariant is inductive.                                             *)

\* The turn passes to a channel.
LEMMA TurnPasses ==
  ASSUME NEW x \in Chan
  PROVE  (x + 1) % Channels \in Chan
  BY ChannelsAssumption DEF Chan

\* A step of channel x leaves the others' rows and walks.
LEMMA OthersStay ==
  ASSUME IInv, NEW x \in Chan, song' = song, DOMAIN walk' = Chan, DOMAIN row' = Chan,
         \A y \in Chan \ {x} : /\ walk'[y] = walk[y] /\ row'[y] = row[y]
                               /\ dur'[y] = dur[y] /\ tick'[y] = tick[y],
         ChannelOK(x)'
  PROVE  \A y \in Chan : ChannelOK(y)'
<1> SUFFICES ASSUME NEW y \in Chan, y # x
             PROVE  ChannelOK(y)'
  OBVIOUS
<1>1. ChannelOK(y)
  BY DEF IInv
<1> QED
  BY <1>1 DEF ChannelOK

LEMMA InitHolds ==
  ASSUME SongsOK, Init
  PROVE  IInv
<1>1. SongOK(song)
  BY DEF SongsOK, Init
<1>2. TempoOK
  <2>1. song.deftempo \in 0 .. 127
    BY <1>1 DEF SongOK
  <2>2. FirstPair \in [0 .. 1 -> Byte]
    BY DEF FirstPair, Byte, BYTES
  <2> QED
    BY <2>1, <2>2 DEF Init, TempoOK
<1>3. \A x \in Chan : ChannelOK(x)
  <2> SUFFICES ASSUME NEW x \in Chan
               PROVE  ChannelOK(x)
    OBVIOUS
  <2>1. walk[x] = Walk(song.orders[x], WalkStart) /\ row[x] = 0 /\ dur[x] = 0
    BY DEF Init
  <2>2. WalkOK(song, song.orders[x], walk[x])
    BY <1>1, <2>1, WalkBegins DEF SongOK
  <2>3. PatternRows(song, walk[x].pattnum) \in 1 .. 128
    <3>1. walk[x].pattnum \in DOMAIN song.patterns
      BY <2>2 DEF WalkOK
    <3>2. PatternOK(song.patterns[walk[x].pattnum])
      BY <1>1, <3>1 DEF SongOK
    <3> QED
      BY <3>2 DEF PatternOK, PatternRows
  <2> QED
    BY <2>1, <2>2, <2>3 DEF ChannelOK, FramesOK
<1>4. turn \in Chan
  BY ChannelsAssumption DEF Init, Chan
<1>5. tick \in [Chan -> Byte] /\ dur \in [Chan -> 0 .. DurCap]
  BY DEF Init, FirstTick, DurCap, Byte, BYTES
<1> QED
  BY <1>2, <1>3, <1>4, <1>5 DEF Init, IInv

LEMMA RowTickKeeps ==
  ASSUME SongsOK, IInv, NEW x \in Chan, RowTick(x)
  PROVE  IInv'
<1> DEFINE w == IF Ended(x) THEN Walk(song.orders[x], walk[x]) ELSE walk[x]
           r == IF Ended(x) THEN 0 ELSE row[x]
<1>1. /\ song' = song /\ turn' = (x + 1) % Channels /\ failed' = failed
      /\ tick' = [tick EXCEPT ![x] = 0]
      /\ walk' = [walk EXCEPT ![x] = w]
      /\ row' = [row EXCEPT ![x] = r + 1]
      /\ dur' = [dur EXCEPT ![x] = 1]
      /\ RowCommand(x, RowAt(song, w.pattnum, r))
      /\ ~ (Ended(x) /\ WalkStops(song.orders[x], walk[x]))
  BY DEF RowTick, Turn
<1>2. SongOK(song) /\ ChannelOK(x) /\ TempoOK
  BY DEF SongsOK, IInv
<1>3. OrderOK(song, song.orders[x]) /\ WalkOK(song, song.orders[x], walk[x])
  BY <1>2 DEF SongOK, ChannelOK
<1>4. WalkOK(song, song.orders[x], w)
  <2>1. CASE Ended(x)
    BY <1>1, <1>3, <2>1, WalkGoesOn DEF WalkOK
  <2>2. CASE ~ Ended(x)
    BY <1>3, <2>2
  <2> QED
    BY <2>1, <2>2
<1>5. PatternOK(song.patterns[w.pattnum])
  BY <1>2, <1>4 DEF SongOK, WalkOK
<1>6. r \in 0 .. PatternRows(song, w.pattnum) - 1
  <2>1. CASE Ended(x)
    <3>1. r = 0
      BY <2>1
    <3>2. PatternRows(song, w.pattnum) \in 1 .. 128
      BY <1>5 DEF PatternOK, PatternRows
    <3> HIDE DEF w, r
    <3> QED
      BY <3>1, <3>2
  <2>2. CASE ~ Ended(x)
    <3>1. w = walk[x] /\ r = row[x]
      BY <2>2
    <3>2. /\ row[x] \in 0 .. PatternRows(song, walk[x].pattnum)
          /\ ~ (row[x] >= PatternRows(song, walk[x].pattnum))
      BY <1>2, <2>2 DEF ChannelOK, Ended
    <3>3. PatternRows(song, walk[x].pattnum) \in 1 .. 128
      BY <1>5, <3>1 DEF PatternOK, PatternRows
    <3> HIDE DEF w, r
    <3> QED
      BY <3>1, <3>2, <3>3
  <2> QED
    BY <2>1, <2>2
<1>7. RowAt(song, w.pattnum, r).param \in Byte
  BY <1>5, <1>6 DEF PatternOK, PatternRows, RowAt
<1>8. TempoOK'
  BY <1>1, <1>2, <1>7, CommandKeeps
<1> HIDE DEF w, r
<1>9. /\ DOMAIN walk = Chan /\ DOMAIN row = Chan
      /\ tick \in [Chan -> Byte] /\ dur \in [Chan -> 0 .. DurCap]
  BY DEF IInv
<1>10. /\ DOMAIN walk' = Chan /\ DOMAIN row' = Chan
       /\ walk'[x] = w /\ row'[x] = r + 1 /\ tick'[x] = 0 /\ dur'[x] = 1
       /\ \A y \in Chan \ {x} : /\ walk'[y] = walk[y] /\ row'[y] = row[y]
                                /\ dur'[y] = dur[y] /\ tick'[y] = tick[y]
  BY <1>1, <1>9
<1>11. ChannelOK(x)'
  <2>1. FramesOK(1, 0)
    BY DEF FramesOK
  <2>2. PatternRows(song, w.pattnum) \in 1 .. 128
    BY <1>5 DEF PatternOK, PatternRows
  <2>3. r + 1 \in 0 .. PatternRows(song, w.pattnum)
    BY <1>6, <2>2
  <2> QED
    BY <1>1, <1>4, <1>10, <2>1, <2>3 DEF ChannelOK
<1>12. \A y \in Chan : ChannelOK(y)'
  BY <1>1, <1>10, <1>11, OthersStay
<1>13. tick' \in [Chan -> Byte] /\ dur' \in [Chan -> 0 .. DurCap]
  BY <1>1, <1>9 DEF Byte, BYTES, DurCap
<1>14. song' \in Songs /\ turn' \in Chan /\ failed' \in BOOLEAN
  BY <1>1, TurnPasses DEF IInv
<1> QED
  BY <1>8, <1>10, <1>12, <1>13, <1>14 DEF IInv

\* A frame of a row counted: Reload's and Count's part of the invariant.
LEMMA CountKeeps ==
  ASSUME IInv, NEW x \in Chan, Turn(x), CountFrame(x), UNCHANGED <<walk, row, failed>>,
         NEW t \in Byte, tick' = [tick EXCEPT ![x] = t], TempoOK',
         FramesOK(Lengthened(dur[x]), t), Lengthened(dur[x]) \in 0 .. DurCap
  PROVE  IInv'
<1>1. /\ song' = song /\ turn' = (x + 1) % Channels /\ walk' = walk /\ row' = row
      /\ failed' = failed /\ dur' = [dur EXCEPT ![x] = Lengthened(dur[x])]
  BY DEF Turn, CountFrame
<1>2. /\ DOMAIN walk = Chan /\ DOMAIN row = Chan /\ ChannelOK(x)
      /\ tick \in [Chan -> Byte] /\ dur \in [Chan -> 0 .. DurCap]
  BY DEF IInv
<1>3. /\ DOMAIN walk' = Chan /\ DOMAIN row' = Chan
      /\ dur'[x] = Lengthened(dur[x]) /\ tick'[x] = t
      /\ \A y \in Chan \ {x} : /\ walk'[y] = walk[y] /\ row'[y] = row[y]
                               /\ dur'[y] = dur[y] /\ tick'[y] = tick[y]
  BY <1>1, <1>2
<1>4. ChannelOK(x)'
  BY <1>1, <1>2, <1>3 DEF ChannelOK
<1>5. \A y \in Chan : ChannelOK(y)'
  BY <1>1, <1>3, <1>4, OthersStay
<1>6. tick' \in [Chan -> Byte] /\ dur' \in [Chan -> 0 .. DurCap]
  BY <1>1, <1>2
<1>7. song' \in Songs /\ turn' \in Chan /\ failed' \in BOOLEAN
  BY <1>1, TurnPasses DEF IInv
<1> QED
  BY <1>3, <1>5, <1>6, <1>7 DEF IInv

\* The frames of channel x, for the two lemmas below.
LEMMA FramesOf ==
  ASSUME IInv, NEW x \in Chan
  PROVE  /\ tick[x] \in Byte /\ dur[x] \in 0 .. DurCap /\ FramesOK(dur[x], tick[x])
         /\ TempoOK
  BY DEF IInv, ChannelOK

LEMMA ReloadKeeps ==
  ASSUME IInv, NEW x \in Chan, Reload(x)
  PROVE  IInv'
<1>1. /\ Turn(x) /\ CountFrame(x) /\ UNCHANGED <<walk, row, failed>>
      /\ tick[x] = 0 /\ Reloaded(x) >= 2
      /\ tick' = [tick EXCEPT ![x] = Reloaded(x)]
      /\ tempo' = [tempo EXCEPT ![x] = IF tempo[x] >= 2 THEN tempo[x] ELSE 1 - tempo[x]]
      /\ funk' = funk
  BY DEF Reload
<1>2. Reloaded(x) \in Byte /\ (IF tempo[x] >= 2 THEN tempo[x] ELSE 1 - tempo[x]) \in 0 .. 127
  BY FramesOf, ReloadedByte
<1>3. TempoOK'
  BY <1>1, <1>2, FramesOf DEF TempoOK
<1>4. /\ Lengthened(dur[x]) \in 0 .. DurCap
      /\ FramesOK(Lengthened(dur[x]), Reloaded(x))
  BY <1>1, <1>2, FramesOf, FramesCounted
<1> QED
  BY <1>1, <1>2, <1>3, <1>4, CountKeeps

LEMMA CountsDown ==
  ASSUME IInv, NEW x \in Chan, Count(x)
  PROVE  IInv'
<1>1. /\ Turn(x) /\ CountFrame(x) /\ UNCHANGED <<walk, row, failed>>
      /\ tick[x] > 1
      /\ tick' = [tick EXCEPT ![x] = tick[x] - 1]
      /\ UNCHANGED <<tempo, funk>>
  BY DEF Count
<1>2. TempoOK'
  BY <1>1, FramesOf DEF TempoOK
<1>3. tick[x] - 1 \in Byte
  BY <1>1, FramesOf DEF Byte, BYTES
<1>4. /\ Lengthened(dur[x]) \in 0 .. DurCap
      /\ FramesOK(Lengthened(dur[x]), tick[x] - 1)
  BY <1>1, FramesOf, FramesCounted
<1> QED
  BY <1>1, <1>2, <1>3, <1>4, CountKeeps

\* The replay gives up: only failed and the turn move.
LEMMA RaiseKeeps ==
  ASSUME IInv, NEW x \in Chan, SongStops(x) \/ TooFast(x)
  PROVE  IInv'
<1>1. /\ song' = song /\ turn' = (x + 1) % Channels /\ failed' = TRUE
      /\ UNCHANGED <<tick, tempo, funk, walk, row, dur>>
  BY DEF SongStops, TooFast, Turn
<1>2. turn' \in Chan
  BY <1>1, TurnPasses
<1>3. \A y \in Chan : ChannelOK(y)'
  BY <1>1 DEF IInv, ChannelOK
<1>4. TempoOK'
  BY <1>1 DEF IInv, TempoOK
<1> QED
  BY <1>1, <1>2, <1>3, <1>4 DEF IInv

LEMMA NextKeeps ==
  ASSUME SongsOK, IInv, [Next]_vars
  PROVE  IInv'
<1>1. CASE UNCHANGED vars
  BY <1>1 DEF vars, IInv, TempoOK, ChannelOK
<1>2. CASE Next
  <2>1. PICK x \in Chan : RowTick(x) \/ SongStops(x) \/ Reload(x) \/ TooFast(x) \/ Count(x)
    BY <1>2 DEF Next
  <2> QED
    BY <2>1, RowTickKeeps, RaiseKeeps, ReloadKeeps, CountsDown
<1> QED
  BY <1>1, <1>2

\* On every song as it is read the replay keeps a walk on each orderlist, a row
\* of each pattern and, once a row has begun, four frames of it counted or left.
THEOREM IInvHolds ==
  ASSUME SongsOK
  PROVE  Spec => []IInv
<1>1. Init => IInv
  BY InitHolds
<1>2. IInv /\ [Next]_vars => IInv'
  BY NextKeeps
<1> QED
  BY <1>1, <1>2, PTL DEF Spec

\* Ticks stay bytes, tempos seven bits, rows inside the pattern that plays.
THEOREM TypeCorrect ==
  ASSUME SongsOK
  PROVE  Spec => []TypeOK
<1>1. IInv => TypeOK
  BY DEF IInv, TempoOK, ChannelOK, TypeOK
<1> QED
  BY <1>1, IInvHolds, PTL

\* Every row the replay hands on has lasted three frames or more, whatever the
\* tempos: what would be shorter was refused when its tick was reloaded.
THEOREM RowsLastEnough ==
  ASSUME SongsOK
  PROVE  Spec => RowsLastThree
<1>1. IInv => \A x \in Chan : tick[x] = 1 /\ dur[x] > 0 => dur[x] >= 3
  <2> SUFFICES ASSUME IInv, NEW x \in Chan, tick[x] = 1, dur[x] > 0
               PROVE  dur[x] >= 3
    OBVIOUS
  <2> QED
    BY FramesOf DEF FramesOK, DurCap
<1>2. IInv /\ [Next]_vars =>
        [\A x \in Chan : tick[x] = 1 /\ tick'[x] = 0 /\ dur[x] > 0 => dur[x] >= 3]_vars
  BY <1>1
<1> QED
  BY <1>2, IInvHolds, PTL DEF Spec, RowsLastThree

=============================================================================
