----------------------------- MODULE MCSongFiles -----------------------------
(***************************************************************************)
(* SongFiles on small songs: three and six channels, tables that fill up   *)
(* in the import, instruments that share programs, arpeggios with room for *)
(* a clone and without.                                                    *)
(***************************************************************************)
EXTENDS SongFiles

Orders(n, e) == [k \in 1 .. n |-> [entries |-> e, restart |-> Len(e) - 1]]

Own(subs, inss, tbls, pats) ==
  [name |-> <<71>>, subtunes |-> subs, instruments |-> inss,
   tables |-> tbls, patterns |-> pats]
Ins(w) == [params |-> <<9, 255, w, 0, 0, 0, 3, 2, 9>>, name |-> <<65>>]

MCOwnSongs ==
  {Own(<<Orders(3, <<0, 210>>)>>, <<Ins(1), Ins(2)>>, <<<<<<65, 0>>, <<255, 1>>>>, <<>>, <<>>, <<>>>>,
       <<<<<<108, 1, 0, 0>>, <<190, 0, 15, 3>>>>>>),
   Own(<<Orders(6, <<0>>)>>, <<>>, <<<<>>, <<>>, <<>>, <<<<1, 2>>>>>>, <<<<<<189, 0, 0, 0>>>>>>),
   Own(<<Orders(3, <<1, 0>>), Orders(3, <<240, 0>>)>>, <<Ins(0)>>, <<<<>>, <<>>, <<>>, <<>>>>,
       <<<<<<189, 0, 0, 0>>>>, <<<<96, 1, 15, 131>>>>>>)}

\* GoatTracker 1 songs.
Old1(p, w) == [ad |-> 9, sr |-> 0, pulse |-> p[1], add |-> p[2], low |-> p[3], high |-> p[4],
               filter |-> p[5], wave |-> w]
Lead == <<<<65, 0>>, <<33, 0>>, <<255, 2>>>>
Hat == <<<<8, 0>>, <<255, 0>>>>
Nothing == <<<<0, 0>>, <<255, 0>>>>
Pulses == {<<128, 32, 64, 192, 1>>, <<65, 10, 96, 80, 2>>, <<32, 24, 64, 80, 0>>, <<192, 16, 8, 192, 1>>}

\* A program that leaves room for part of the next.
Long == [k \in 1 .. TableMax - 2 |-> <<17, k>>] \o <<<<255, 3>>>>

Instruments1 ==
  {<<Old1(p, Long), Old1(p, Lead), Old1(p, Hat)>> : p \in Pulses}
  \cup {<<Old1(p, Lead), Old1(q, Hat), Old1(p, Nothing)>> : p \in Pulses, q \in Pulses}

Patterns1 ==
  {<<<<<<48, 8, 0>>, <<16, 0, 71>>, <<95, 4, 52>>, <<0, 1, 8>>, <<32, 16, 200>>, <<95, 7, 0>>,
       <<10, 8, 71>>, <<255, 0, 0>>, <<1, 40, 9>>>>,
     <<<<7, 16, 71>>, <<94, 5, 2>>, <<3, 17, 8>>, <<96, 3, 255>>, <<11, 24, 17>>>>>>,
   <<<<<<95, 7, 245>>, <<9, 3, 16>>, <<9, 2, 33>>, <<12, 8, 130>>>>, <<<<95, 0, 0>>, <<255, 0, 0>>>>>>,
   <<<<<<16, 8, 71>>, <<10, 16, 71>>, <<5, 0, 71>>, <<95, 3, 4>>>>>>}

Filters1 ==
  {<<<<0, 0, 9, 6>>, <<64, 144, 80, 2>>, <<0, 130, 1, 1>>, <<0, 0, 0, 0>>>>,
   <<<<0, 0, 0, 0>>, <<0, 5, 255, 3>>, <<0, 0, 0, 9>>, <<16, 16, 0, 1>>>>}

Song1(i, p, f) == [format |-> "GTS!", orders |-> Orders(3, <<0>>), instruments |-> i,
                   patterns |-> p, filter |-> f]

\* Early GoatTracker 2 songs.
Ins2(v, first) == [wave |-> 1, pulse |-> 1, filter |-> 0, vibrato |-> v, gate |-> 2, first |-> first]
Song2(fine, beta) ==
  [format |-> "GTS2", fine |-> fine, beta |-> beta, orders |-> Orders(3, <<0>>),
   instruments |-> <<Ins2(180, 137), Ins2(0, 0), Ins2(52, 128)>>,
   wave |-> <<<<65, 0>>, <<255, 0>>>>, pulse |-> <<<<136, 0>>, <<16, 5>>, <<16, 200>>, <<255, 0>>>>,
   filter |-> <<>>,
   patterns |-> <<<<<<108, 1, 4, 180>>, <<IF beta THEN 95 ELSE 111, 2, 14, 52>>, <<189, 0, 1, 16>>,
                    <<176, 0, 3, 0>>, <<120, 3, 2, 255>>, <<121, 0, 3, 16>>, <<122, 0, 1, 33>>,
                    <<123, 0, 4, 17>>, <<124, 0, 2, 1>>>>>>]

MCOldSongs ==
  {NoOld} \cup {Song1(i, p, f) : i \in Instruments1, p \in Patterns1, f \in Filters1}
  \cup {Song2(fine, beta) : fine \in BOOLEAN, beta \in BOOLEAN}

=============================================================================
