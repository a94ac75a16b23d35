---------------------------- MODULE MCSequencer ----------------------------
(* TLC instances of Sequencer: every well-formed list of a small alphabet,  *)
(* and the two kinds of list on which code and documentation disagree.      *)
EXTENDS Sequencer, Sequences

CONSTANTS
  MaxSize,    \* bound: entries of an orderlist
  Alphabet    \* bound: the entry bytes an orderlist is made of

\* The orderlist that shows the entries of a sequence.
Shown(s, restart) ==
  [entries |-> [i \in 0 .. Len(s) - 1 |-> s[i + 1]], size |-> Len(s), restart |-> restart]

Lists(restarts) ==
  UNION {[entries : [0 .. n - 1 -> Alphabet], size : {n}, restart : restarts]
           : n \in 1 .. MaxSize}

\* The lists the player expects, with every restart that keeps pairs whole.
WellFormedLists == {o \in Lists(0 .. MaxSize - 1) : WellFormed(o)}

MCAlphabet == {0, 1, REPEAT + 1, REPEAT + 3, TRANSUP + 2, TRANSUP - 3}

\* A Repeat(0) before a pattern.
RepeatZeroLists == {Shown(<<REPEAT, 1>>, 0)}

\* A restart at the pattern of a repeat: channel 1 of tests/_proof_songs.py.
RestartInPairLists == {Shown(<<REPEAT + 1, 1, 3>>, 1)}

DocumentedLists == RepeatZeroLists \cup RestartInPairLists

=============================================================================
