--------------------------- MODULE MCTablePrograms ---------------------------
(* TLC instance of TablePrograms: every table of up to MaxRows rows over a   *)
(* few rows of each kind and jumps anywhere, one or two programs of each.    *)
EXTENDS TablePrograms

CONSTANTS
  MaxRows     \* bound: the rows of a source table

Jumps == {<<TABLEJUMP, k>> : k \in 0 .. MaxRows}

WaveRows   == {<<65, 12>>, <<5, 128>>, <<225, 140>>}
OddRows    == {<<65, 12>>, <<246, 3>>, <<152, 131>>, <<33, 225>>}
PulseRows  == {<<136, 52>>, <<32, 16>>}
FilterRows == {<<144, 241>>, <<0, 64>>, <<16, 1>>}
BandRows   == {<<144, 241>>, <<160, 242>>, <<0, 64>>, <<16, 1>>}

Source(kind, t, asked) ==
  [kind |-> kind, table |-> t, speeds |-> <<<<3, 64>>, <<130, 1>>>>, asked |-> asked]

Tables(alphabet, max) == BoundedSeq(alphabet \cup Jumps, max) \ {<<>>}

Plain(a) == <<a, NoVibrato>>

\* At most one setting, and nothing before it: a filter table of one band.
OneBand(t) ==
  t[1][1] \in 128 .. 254 /\ \A p \in 2 .. Len(t) : t[p][1] \in 0 .. 127 \cup {TABLEJUMP}

MCSources ==
  {Source("wave", t, {Plain(1), Plain(2)}) : t \in Tables(WaveRows, MaxRows)}
  \cup {Source("wave", t, {Plain(1), <<1, <<9, 1>>>>, <<1, <<0, 2>>>>}) : t \in Tables(OddRows, 2)}
  \cup {Source("pulse", t, {Plain(1), Plain(2)}) : t \in Tables(PulseRows, MaxRows)}
  \cup {Source("filter", t, {Plain(1)}) : t \in {u \in Tables(FilterRows, 4) : OneBand(u)}}

\* Tables of two bands, that loop.
BandSources ==
  {Source("filter", t, {Plain(1)}) :
     t \in {u \in Tables(BandRows, 5) : Playable(u, 1) /\ u[1][1] \in 128 .. 254}}

\* Tables of one setting, with a cutoff row behind it or none.
PartSources ==
  {Source("filter", t, {Plain(1)}) : t \in {u \in Tables(FilterRows, MaxRows) : OneBand(u)}}

\* Tables that begin with a cutoff row.
CutoffSources ==
  {Source("filter", t, {Plain(1)}) : t \in {u \in Tables(FilterRows, MaxRows) : u[1][1] = 0}}

\* Tables that open every band with the full mask.
OpenSources ==
  {Source("filter", t, {Plain(1), Plain(2)}) : t \in Tables({<<240, 15>>, <<0, 64>>}, 2)}

=============================================================================
