------------------------------ MODULE SongFiles ------------------------------
(***************************************************************************)
(* Songs and their files: an old song is imported (LegacyImport), it or a  *)
(* song of one's own is written, and what was written is read (SongFile).  *)
(***************************************************************************)
EXTENDS LegacyImport

CONSTANT OwnSongs    \* songs that were not imported

\* Nothing is imported: the files of such behaviours are the ones that get damaged.
NoOld == [format |-> "none"]

vars == <<fileVars, importVars>>

\* The import's song as the writer takes it.
Imported ==
  [name |-> <<>>, subtunes |-> <<old.orders>>,
   instruments |-> [k \in DOMAIN instruments |->
      LET i == instruments[k]
      IN [params |-> <<i.ad, i.sr, i.wave, i.pulse, i.filter, i.vib, i.delay, i.gate, i.first>>,
          name |-> <<>>]],
   tables |-> <<wave, pulse, filter, speed>>, patterns |-> patterns]

Init == FileInit /\ ImportInit

WriteImported == stage = "imported" /\ Write(Imported) /\ UNCHANGED importVars
WriteOwn == old = NoOld /\ \E song \in OwnSongs : Write(song) /\ UNCHANGED importVars

Next ==
  \/ Import /\ UNCHANGED fileVars
  \/ WriteImported \/ WriteOwn
  \/ ((old = NoOld /\ Damage) \/ Read) /\ UNCHANGED importVars

Spec == Init /\ [][Next]_vars

\* An imported song is one the writer takes: its pointers are in its tables, its rows
\* name instruments it has (legacy.py: it writes back as GTS5).
ImportedWritable == stage = "imported" => Valid(Imported)

=============================================================================
