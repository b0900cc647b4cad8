----------------------------- MODULE ChunkGraph -----------------------------
(***************************************************************************)
(* From scope graphs to edges between chunks.  RepoGraph                   *)
(* (rtfs/repo_resolution) matches each import with a file and joins the    *)
(* scopes that refer to the imported name with the scope that defines it.  *)
(* ChunkGraph.from_chunks (rtfs/chunk_resolution) looks up, for each       *)
(* reference in a chunk, the scope it lies in, that scope's edge for the   *)
(* name, and the chunk that holds the scope at the edge's end.             *)
(*                                                                         *)
(* Of a chunk's text (epic_split.py) only the references matter here, and  *)
(* on which rows of it they stand.                                         *)
(***************************************************************************)
EXTENDS ScopeGraph

CONSTANTS Foreign,    \* modules of the system or of third parties
          IdLength,   \* parts of the path that enter a chunk's id: 2 in the code
          Lines,      \* bounds: first and last lines of chunks, for each file,
          MaxChunks,  \* chunks of each file,
          MaxRow      \* and rows of a chunk's text

ASSUME ChunkConstants ==
  /\ Foreign \subseteq Modules /\ IdLength \in Nat \ {0}
  /\ MaxChunks \in [Paths -> Nat] /\ MaxRow \in Nat
  /\ \A f \in Paths : Lines[f] \subseteq (1..LastRow[f] + 1) \X (1..LastRow[f] + 1)

VARIABLES joined,   \* files whose imports are mapped
          edges,    \* RepoGraph's edges between scopes of files
          chunks,   \* ChunkGraph._chunkmap: the chunks of each file by their numbers
          done,     \* references in chunks that have been looked up
          links     \* the chunk graph's import edges, between chunk ids

chunkVars == <<scopeVars, joined, edges, chunks, done, links>>

ChunkInit ==
  /\ Init /\ joined = {} /\ edges = {} /\ chunks = <<>> /\ done = {} /\ links = {}

Build == Next /\ UNCHANGED <<joined, edges, chunks, done, links>>

Built == \A f \in Paths : stage[f] = "built"

-----------------------------------------------------------------------------
(* RepoGraph. *)

\* RepoFs.match_file: the first file whose path ends in the module's parts.
Matches(m) == {i \in DOMAIN Files : IsSuffix(m, Files[i])}
Matched(m) == Files[Min(Matches(m))]

\* import_stmt_to_import: the scopes in which references to a name originate.
Importers(f, name) == {s \in Ids(f) : [name |-> name, origin |-> s] \in refs[f]}

\* map_local_to_exports: the scopes that export the name an import asks for.
Exporters(m) ==
  IF m.module \in Foreign \/ Matches(m.module) = {} THEN {}
  ELSE LET g == Matched(m.module)
       IN  {<<g, d.scope>> : d \in {d \in Exports(g) : d.name = m.name}}

EdgesOf(f) ==
  UNION {[from : {<<f, s>> : s \in Importers(f, m.name)}, to : Exporters(m), ref : {m.name}] :
         m \in imports[f]}

Join(f) ==
  /\ Built /\ f \notin joined
  /\ \A i, j \in DOMAIN Files : Files[j] = f /\ i < j => Files[i] \in joined
  /\ joined' = joined \cup {f} /\ edges' = edges \cup EdgesOf(f)
  /\ UNCHANGED <<scopeVars, chunks, done, links>>

-----------------------------------------------------------------------------
(* Chunks. *)

\* A chunk reaches from the first line of its first block to the last line of
\* its last one, counted from 1.  Its text holds the headers of the blocks that
\* these lie in, wherever they are, the rows of its own that the splitter shows,
\* and siblings of another kind that share a block's identifier, in the order of
\* the file, with blank rows and placeholders between them: what stands in it
\* are any references of the file, in order.
Chunk(f) ==
  {[first |-> l[1], last |-> l[2], shows |-> shown] :
     l \in Lines[f], shown \in {r \in SUBSET [at : 0..MaxRow, use : uses[f]] :
       \A x, y \in r : /\ x.use = y.use => x = y
                       /\ x.use.row <= y.use.row => x.at <= y.at}}

\* The chunks that are left of a file when those without lines or spans are
\* skipped, which leaves gaps in the numbers.  Their ranges may overlap, as that
\* of a class alone does with those of its methods.
Cuts(f) ==
  LET whole == {c \in Chunk(f) : c.first <= c.last}
  IN  {c \in UNION {[numbers -> whole] : numbers \in SUBSET (1..MaxChunks[f])} :
         \A i, j \in DOMAIN c : i < j => c[i].first <= c[j].first}

\* The id of the i-th chunk of a file: the end of its path, and its number.
Id(f, i) == <<SubSeq(f, Max({1, Len(f) - IdLength + 1}), Len(f)), i>>

AllChunks == UNION {{<<f, i>> : i \in DOMAIN chunks[f]} : f \in DOMAIN chunks}

\* Of chunks with one id, the node that was added last is the one in the graph.
Position(f) == CHOOSE i \in DOMAIN Files : Files[i] = f
IsNode(f, i) ==
  \A c \in AllChunks : Id(c[1], c[2]) = Id(f, i) => Position(c[1]) <= Position(f)

\* ChunkNode.range counts rows from 0.
RowsOf(f, i) == (chunks[f][i].first - 1)..(chunks[f][i].last - 1)

\* from_chunks puts the chunks into the map, file by file.
AddChunks(f) ==
  /\ joined = Paths /\ f \notin DOMAIN chunks
  /\ \A i, j \in DOMAIN Files : Files[j] = f /\ i < j => Files[i] \in DOMAIN chunks
  /\ \E c \in Cuts(f) :
       chunks' = [g \in DOMAIN chunks \cup {f} |-> IF g = f THEN c ELSE chunks[g]]
  /\ UNCHANGED <<scopeVars, joined, edges, done, links>>

Complete == DOMAIN chunks = Paths

\* The references in the text of every node.
References ==
  UNION {{[file |-> c[1], chunk |-> c[2], at |-> x.at, use |-> x.use] :
            x \in chunks[c[1]][c[2]].shows} : c \in {c \in AllChunks : IsNode(c[1], c[2])}}

\* add_offset: where a reference is looked up is its row in the chunk's text,
\* from 0, added to the line at which the chunk starts, from 1.
LookupRow(f, i, at) == at + chunks[f][i].first

\* Mutant of ExportsFrom: an edge of the scope for any name will do.
ExportsFromAny(f, s, name) == {e.to : e \in {e \in edges : e.from = <<f, s>>}}

\* import_to_export_scope: the scope to which an edge for the name leads, the
\* first of several in an order that is left open.
ExportsFrom(f, s, name) == {e.to : e \in {e \in edges : e.from = <<f, s>> /\ e.ref = name}}

\* Mutant of Chunks: only the chunk in which the scope begins is found.
ChunksByStart(g, t) == {i \in DOMAIN chunks[g] : scopes[g][t].from \in RowsOf(g, i)}

\* find_chunk: the first chunk that holds an end of the scope's rows.
Chunks(g, t) ==
  {i \in DOMAIN chunks[g] : {scopes[g][t].from, scopes[g][t].to} \cap RowsOf(g, i) # {}}

\* build_import_exports_chunks, for one reference.
LookUp(p) ==
  /\ done' = done \cup {p}
  /\ \E s \in LET row == LookupRow(p.file, p.chunk, p.at) IN ScopesAt(p.file, row, row) :
       \/ ExportsFrom(p.file, s, p.use.name) = {} /\ links' = links
       \/ \E to \in ExportsFrom(p.file, s, p.use.name) :
            links' = links \cup
              IF Chunks(to[1], to[2]) = {} THEN {}
              ELSE {[src |-> Id(p.file, p.chunk), ref |-> p.use.name,
                     dst |-> Id(to[1], Min(Chunks(to[1], to[2])))]}
  /\ UNCHANGED <<scopeVars, joined, edges, chunks>>

\* The lookups do not disturb each other, so one order of them is enough.
Resolve ==
  /\ Complete /\ References \ done # {}
  /\ LookUp(CHOOSE p \in References \ done : TRUE)

ChunkNext ==
  Build \/ (\E f \in Paths : Join(f)) \/ (\E f \in Paths : AddChunks(f)) \/ Resolve

ChunkSpec == ChunkInit /\ [][ChunkNext]_chunkVars

-----------------------------------------------------------------------------
(* Properties. *)

\* The chunks that stand behind an id, and the nodes among them.
Behind(id) == {c \in AllChunks : Id(c[1], c[2]) = id}
Node(id)   == CHOOSE c \in Behind(id) : IsNode(c[1], c[2])

\* A chunk of g holds a row of one of its scopes; the first or the last one.
HasRow(g, i, t) == (scopes[g][t].from..scopes[g][t].to) \cap RowsOf(g, i) # {}
HasEnd(g, i, t) == {scopes[g][t].from, scopes[g][t].to} \cap RowsOf(g, i) # {}

\* The references to a name in a chunk's text.
Mentions(f, i, name) == {x \in chunks[f][i].shows : x.use.name = name}

\* An edge of the chunk graph stands for a reference in the text of its source,
\* in a file that imports the name, and ends at a chunk that holds a row of a
\* definition of the name in the file that the module matches.  The second
\* half is about the id's chunks, since a chunk of another file may have taken
\* over the id (chunk_graph.py:80-110, python.py:161-162).
LinksAreImports ==
  \A l \in links :
    LET c == Node(l.src) IN
    /\ Mentions(c[1], c[2], l.ref) # {}
    /\ \E m \in imports[c[1]], d \in Behind(l.dst) :
         /\ m.name = l.ref /\ m.module \notin Foreign /\ d[1] = Matched(m.module)
         /\ \E t \in DOMAIN scopes[d[1]] :
              scopes[d[1]][t].name = l.ref /\ HasRow(d[1], d[2], t)

\* What the text says: the chunk refers to a name that its file imports from
\* g, and g has a class or function of that name at its top level.
Depends(f, i, name, g, t) ==
  /\ Mentions(f, i, name) # {}
  /\ \E m \in imports[f] : m.name = name /\ m.module \notin Foreign
                           /\ Matches(m.module) # {} /\ Matched(m.module) = g
  /\ scopes[g][t].name = name /\ TrueParent(g, t) = 0

\* Why a dependency of the text may have no edge: for no mention of the name in
\* the chunk is one and the same scope found on its row in the file and on the
\* row where it is looked up, which headers, rows that are not shown and the
\* offset shift; the file imports the name more than once; the row that names
\* the class or function holds a smaller scope, or the root's, which gets the
\* definition; the file defines the name more than once; no chunk holds an end
\* of it.
UseMoves(f, i, name) ==
  \A x \in Mentions(f, i, name), s \in Ids(f) :
    LET row == LookupRow(f, i, x.at)
    IN  ~(ScopesAt(f, x.use.row, x.use.row) = {s} /\ ScopesAt(f, row, row) = {s})
ImportedTwice(f, name) == \E m, n \in imports[f] : m # n /\ m.name = name /\ n.name = name
DefinedElsewhere(g, t) == ScopesAt(g, scopes[g][t].from, scopes[g][t].from) # {t}
DefinedTwice(g, t) ==
  \E i \in DOMAIN scopes[g] \ {t} : scopes[g][i].name = scopes[g][t].name

\* Every dependency of the text has its edge once the graph is complete, but
\* for those five reasons: no reference is lost to the order of files, chunks and
\* lookups, to the ends of chunks, to ids that two files share or to the
\* intervals, in any other place (chunk_graph.py:124-169, repo_graph.py:70-110).
MissingLinksExplained ==
  Complete /\ References \subseteq done =>
    \A c \in AllChunks, name \in Names, g \in Paths : \A t \in DOMAIN scopes[g] :
      IsNode(c[1], c[2]) /\ Depends(c[1], c[2], name, g, t) =>
        \/ \E d \in DOMAIN chunks[g] :
             HasEnd(g, d, t) /\ [src |-> Id(c[1], c[2]), ref |-> name, dst |-> Id(g, d)] \in links
        \/ UseMoves(c[1], c[2], name) \/ ImportedTwice(c[1], name)
        \/ DefinedElsewhere(g, t) \/ DefinedTwice(g, t)
        \/ \A d \in DOMAIN chunks[g] : ~HasEnd(g, d, t)
=============================================================================
