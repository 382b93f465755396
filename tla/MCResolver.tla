----------------------------- MODULE MCResolver -----------------------------
(***************************************************************************)
(* Instances of Resolver: three importable modules next to the main file,  *)
(* with every import graph of a family, and two modules spread over the    *)
(* four directories of the search path.                                    *)
(***************************************************************************)
EXTENDS Resolver

CONSTANTS a, b, c

D(kind, exported) == [kind |-> kind, exported |-> exported]

\* A definition of each kind, exported and not.
MCText ==
  <<D("type", TRUE), D("type", FALSE), D("class", FALSE), D("generic", FALSE),
    D("func", TRUE), D("func", FALSE), D("extern", TRUE), D("extern", FALSE)>>

MCDirs == {"cwd", "include", "source", "stdlib"}
MCImportPaths == <<"include">>
MCExtensions == <<".so", ".a">>

\* The imports of a file depend on its name alone.
ByName(g) == [f \in Files |-> g[f[2]]]

\* Import lists: none, one, a diamond, the reverse of one, and the main file.
Lists == {<<>>, <<a>>, <<b>>, <<c>>, <<b, c>>, <<c, a>>, <<Main>>}
MainLists == {<<a>>, <<a, b>>, <<b, a>>, <<c, a, b>>, <<a, a>>}

\* All files beside the main one; at most one of them missing or broken.
GraphWorlds ==
  {[files |-> {<<"source", n>> : n \in Names \ gone},
    broken |-> {<<"source", n>> : n \in bad},
    libs |-> {<<"source", a, ".a">>, <<"stdlib", b, ".so">>},
    imports |-> ByName(g)] :
      g \in {h \in [Names -> Lists \cup MainLists] :
               h[Main] \in MainLists /\ \A n \in Names \ {Main} : h[n] \in Lists},
      gone \in {{}, {b}, {c}}, bad \in {{}, {c}}}

\* Files of b in any directories, each importing something else, and
\* artifacts of a and b anywhere.
PlacedWorlds ==
  {[files |-> {<<"source", a>>, <<"source", Main>>} \cup {<<d, b>> : d \in places},
    broken |-> {},
    libs |-> {<<d, b, ".a">> : d \in static} \cup {<<d, b, ".so">> : d \in shared},
    imports |-> [f \in Files |->
                   IF f[2] = Main THEN list
                   ELSE IF f[2] = b /\ f[1] = "include" THEN <<a>> ELSE <<>>]] :
      places \in SUBSET MCDirs, static \in SUBSET MCDirs,
      shared \in SUBSET {"cwd", "stdlib"}, list \in {<<b>>, <<a, b>>}}

MCWorlds == GraphWorlds \cup PlacedWorlds
=============================================================================
