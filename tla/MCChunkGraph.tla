---------------------------- MODULE MCChunkGraph ----------------------------
(* A repository of two files for TLC: the first imports, the second defines.
   Both end in the part m, so that an import of m matches the first, itself; a
   newline ends the second one only. *)
EXTENDS ChunkGraph

CONSTANTS a, b, m, n1, n2

User == <<a, m>>
Lib  == <<b, m>>

TwoFiles   == <<User, Lib>>
TwoModules == {<<m>>, <<b, m>>}
NoModules  == {}
TwoNames   == {n1, n2}
FewRows    == (User :> 2) @@ (Lib :> 2)
Ends       == (User :> [from |-> 0, to |-> 2]) @@ (Lib :> [from |-> 0, to |-> 3])
FewScopes  == (User :> 2) @@ (Lib :> 3)
TwoImports == (User :> 2) @@ (Lib :> 0)
SomeRefs   == (User :> 2) @@ (Lib :> 0)
SomeLines  == (User :> {<<1, 3>>}) @@ (Lib :> {<<1, 2>>, <<2, 3>>})
FewChunks  == (User :> 1) @@ (Lib :> 2)
Renaming   == Permutations(TwoNames)

\* Only repositories whose first file uses a name that it imports go on to the
\* second file, and only if what it imports is defined are the files joined
\* and cut: the others have no edges.  Together they have at most two scopes,
\* or three that are neither joined nor cut; a second import is of the same name;
\* and the first file's chunk, if it has one, mentions an imported name.
Interesting ==
  /\ \/ Len(scopes[User]) + Len(scopes[Lib]) <= 2
     \/ scopes[User] = <<>> /\ Cardinality(uses[User]) = 1 /\ joined = {}
  /\ Cardinality(imports[User]) + Cardinality(uses[User]) <= 3
  /\ \A i, j \in imports[User] : i.name = j.name
  /\ stage[Lib] # "scopes" \/ scopes[Lib] # <<>> =>
       \E i \in imports[User] : /\ \E u \in uses[User] : i.name = u.name
                                /\ scopes[Lib] # <<>> => Matched(i.module) = Lib
  /\ stage[Lib] # "scopes" =>
       \E i \in imports[User] : \E s \in Range(scopes[Matched(i.module)]) : i.name = s.name
  /\ \A c \in AllChunks : c[1] = User => \E i \in imports[User] : Mentions(c[1], c[2], i.name) # {}
=============================================================================
