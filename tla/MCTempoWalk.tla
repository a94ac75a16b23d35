---------------------------- MODULE MCTempoWalk ----------------------------
(* TLC instance of TempoWalk: songs the replay converts, songs whose tempos  *)
(* are too fast for it, and songs whose restart leaves the orderlist.        *)
EXTENDS MCSongs, TempoWalk

\* Funk tempos of 4 and 3 frames convert; one of 2 frames does not.
Fast == <<<<4, 2>>>>

WalkRows == {Plain, Direct, Own, Funk, Recall, Row(FALSE, 0, SETTEMPO, 128 + 2)}

WalkOrders ==
  {<<Shown(<<REPEAT + 1, 0>>, 0), Shown(<<1, TRANSUP + 2, 0>>, 0)>>,
   <<Shown(<<REPEAT + 1, 1, 0>>, 2), Shown(<<0, 1>>, 2)>>}

WalkSongs == MadeSongs(Slow) \cup MadeSongs(Fast)

=============================================================================
