----------------------------- MODULE ScopeGraph -----------------------------
(***************************************************************************)
(* The scope graphs of a repository's files, as build_scope_graph          *)
(* (rtfs/build_scopes.py) fills them, one file after the other: first the  *)
(* file's scopes, then its imports, definitions and references, each put   *)
(* into the smallest scope that the interval tree finds around its rows.   *)
(*                                                                         *)
(* A step takes the next capture of the source file, which is any that the *)
(* grammar allows.  Rows count from 0, as tree-sitter counts them.  Scope  *)
(* 0 is the root, with an interval of its own; the others are numbered as  *)
(* they are inserted.  A scope with a name is a class or a function; one   *)
(* without is a comprehension, a lambda, a for or a with statement.        *)
(***************************************************************************)
EXTENDS Integers, Sequences, SequencesExt

CONSTANTS Files,            \* RepoFs._all_paths: paths, as sequences of parts
          Names, NoName,
          Modules,          \* what imports name, as sequences of parts
          LastRow,          \* of each file's text
          Root,             \* rows of each file's module node, which end below
                            \* LastRow only if a newline ends the file
          MaxScopes, MaxImports, MaxRefs   \* bounds, for each file

Paths == Range(Files)

ASSUME ScopeConstants ==
  /\ Files \in Seq(Paths) /\ IsInjective(Files)
  /\ Paths \subseteq Seq(UNION {Range(f) : f \in Paths})
  /\ LastRow \in [Paths -> Nat] /\ NoName \notin Names
  /\ Root \in [Paths -> [from : Nat, to : Nat]]
  /\ \A f \in Paths : Root[f].from <= LastRow[f] /\ LastRow[f] <= Root[f].to
  /\ {MaxScopes, MaxImports, MaxRefs} \subseteq [Paths -> Nat]

VARIABLES stage,    \* what is inserted into the graph of each file now
          scopes,   \* rows, name and parent of each scope
          defs,     \* for each scope so far: what it defines, in which scope
          imports,  \* imported names with their modules
          uses,     \* the references in the text
          refs      \* the reference nodes, with their scopes of origin

scopeVars == <<stage, scopes, defs, imports, uses, refs>>

Rows(f) == Root[f].from..LastRow[f]
Ids(f)  == 0..Len(scopes[f])

Scope(f)   == [from : Rows(f), to : Rows(f), name : Names \cup {NoName}, parent : Nat]
Import     == [module : Modules, name : Names]
Use(f)     == [row : Rows(f), name : Names]
RefNode(f) == [name : Names, origin : Ids(f)]

Init ==
  /\ stage = [f \in Paths |-> "scopes"]
  /\ scopes = [f \in Paths |-> <<>>] /\ defs = [f \in Paths |-> <<>>]
  /\ imports = [f \in Paths |-> {}] /\ uses = [f \in Paths |-> {}]
  /\ refs = [f \in Paths |-> {}]

-----------------------------------------------------------------------------
(* Where rows belong. *)

\* The interval tree holds half-open intervals, those of one row widened by
\* epsilon = 0.1; here in tenths of a row.
Begin(from)   == 10 * from
End(from, to) == IF from = to THEN 10 * from + 1 ELSE 10 * to

Size(s) == End(s.from, s.to) - Begin(s.from)

\* IntervalGraph.__init__ puts the root's rows into the tree, too.
Span(f, s) == IF s = 0 THEN Root[f] ELSE scopes[f][s]

\* IntervalGraph.contains, without overlap.
Holds(s, from, to) == Begin(s.from) <= Begin(from) /\ End(from, to) <= End(s.from, s.to)

\* Mutant of ScopesAt: the fallback is the next node's id, not the root's.
ScopesAtNext(f, from, to) ==
  LET around == {s \in Ids(f) : Holds(Span(f, s), from, to)} IN
  IF around = {} THEN {Len(scopes[f]) + 1}
  ELSE {s \in around : \A r \in around : Size(Span(f, s)) <= Size(Span(f, r))}

\* Mutant of ScopesAt: the largest scope around the rows but the root.
ScopesAtLargest(f, from, to) ==
  LET around == {s \in Ids(f) : Holds(Span(f, s), from, to)} IN
  IF around \subseteq {0} THEN {0}
  ELSE {s \in around \ {0} : \A r \in around \ {0} : Size(Span(f, s)) >= Size(Span(f, r))}

\* scope_by_range: the smallest scope around the rows, any of several that
\* are equally small (the root is one of them if a scope spans a file that
\* no newline ends), the root if there is none.
ScopesAt(f, from, to) ==
  LET around == {s \in Ids(f) : Holds(Span(f, s), from, to)} IN
  IF around = {} THEN {0}
  ELSE {s \in around : \A r \in around : Size(Span(f, s)) <= Size(Span(f, r))}

-----------------------------------------------------------------------------
(* The captures of a file, in the order in which the tree is walked. *)

\* The scope s lies inside the scope o, by the rows of the text.
Inside(s, o) == o.from <= s.from /\ s.to <= o.to

\* Scopes come in the order in which they begin, nested or one after the
\* other.  A class or function begins on a row of its own; a lambda or a
\* comprehension may begin on the row on which another ends.
MayFollow(s, o) ==
  /\ o.from <= s.from
  /\ Inside(s, o) \/ o.to <= s.from
  /\ s.name # NoName => o.from < s.from /\ (Inside(s, o) \/ o.to < s.from)

\* Files are parsed one after the other (RepoGraph._construct_scopes).
Turn(f, now) ==
  /\ stage[f] = now
  /\ \A i, j \in DOMAIN Files : Files[j] = f /\ i < j => stage[Files[i]] = "built"

Advance(f, next) == stage' = [stage EXCEPT ![f] = next]

\* insert_local_scope.
InsertScope(f, s) ==
  /\ Turn(f, "scopes") /\ Len(scopes[f]) < MaxScopes[f]
  /\ s.from <= s.to /\ \A i \in DOMAIN scopes[f] : MayFollow(s, scopes[f][i])
  /\ s.parent \in ScopesAt(f, s.from, s.to)
  /\ scopes' = [scopes EXCEPT ![f] = Append(@, s)]
  /\ UNCHANGED <<stage, defs, imports, uses, refs>>

EndScopes(f) ==
  /\ Turn(f, "scopes") /\ Advance(f, "imports")
  /\ UNCHANGED <<scopes, defs, imports, uses, refs>>

\* insert_local_import; one name may be imported more than once (try, except).
InsertImport(f, m) ==
  /\ Turn(f, "imports") /\ Cardinality(imports[f]) < MaxImports[f]
  /\ imports' = [imports EXCEPT ![f] = @ \cup {m}]
  /\ UNCHANGED <<stage, scopes, defs, uses, refs>>

EndImports(f) ==
  /\ Turn(f, "imports") /\ Advance(f, "defs")
  /\ UNCHANGED <<scopes, defs, imports, uses, refs>>

\* insert_local_def.  What is captured is the identifier of the class or the
\* function, a single row, which is looked up like any other.  A scope without
\* a name defines variables only.
InsertDef(f) ==
  LET i == Len(defs[f]) + 1 IN
  /\ Turn(f, "defs") /\ i \in DOMAIN scopes[f]
  /\ \E at \in ScopesAt(f, scopes[f][i].from, scopes[f][i].from) :
       defs' = [defs EXCEPT ![f] = Append(@, [name |-> scopes[f][i].name, scope |-> at])]
  /\ UNCHANGED <<stage, scopes, imports, uses, refs>>

EndDefs(f) ==
  /\ Turn(f, "defs") /\ Len(defs[f]) = Len(scopes[f]) /\ Advance(f, "refs")
  /\ UNCHANGED <<scopes, defs, imports, uses, refs>>

\* insert_ref: a reference becomes a node if the file defines or imports its
\* name anywhere.
Known(f) ==
  {scopes[f][i].name : i \in DOMAIN scopes[f]} \cup {m.name : m \in imports[f]}

InsertRef(f, u) ==
  /\ Turn(f, "refs") /\ Cardinality(uses[f]) < MaxRefs[f]
  /\ \A v \in uses[f] : v.row <= u.row /\ v # u
  /\ uses' = [uses EXCEPT ![f] = @ \cup {u}]
  /\ IF u.name \in Known(f)
     THEN \E at \in ScopesAt(f, u.row, u.row) :
            refs' = [refs EXCEPT ![f] = @ \cup {[name |-> u.name, origin |-> at]}]
     ELSE refs' = refs
  /\ UNCHANGED <<stage, scopes, defs, imports>>

EndRefs(f) ==
  /\ Turn(f, "refs") /\ Advance(f, "built")
  /\ UNCHANGED <<scopes, defs, imports, uses, refs>>

Insert(f) ==
  \/ \E s \in [from : Rows(f), to : Rows(f), name : Names \cup {NoName},
               parent : Ids(f)] : InsertScope(f, s)
  \/ \E m \in Import : InsertImport(f, m)
  \/ InsertDef(f)
  \/ \E u \in Use(f) : InsertRef(f, u)
  \/ EndScopes(f) \/ EndImports(f) \/ EndDefs(f) \/ EndRefs(f)

Next == \E f \in {g \in Paths : stage[g] # "built"} : Insert(f)

Spec == Init /\ [][Next]_scopeVars

-----------------------------------------------------------------------------
(* RepoGraph._get_exports: the classes and functions whose definitions lie
   in a scope right under the root. *)

\* Mutant of Exports: definitions of every scope are exported.
ExportsAnywhere(f) == {d \in Range(defs[f]) : d.name # NoName /\ d.scope # 0}

Exports(f) ==
  {d \in Range(defs[f]) :
     d.name # NoName /\ d.scope # 0 /\ scopes[f][d.scope].parent = 0}

-----------------------------------------------------------------------------
(* Properties. *)

TypeOK ==
  /\ stage \in [Paths -> {"scopes", "imports", "defs", "refs", "built"}]
  /\ \A f \in Paths :
       /\ scopes[f] \in Seq(Scope(f))
       /\ defs[f] \in Seq([name : Names \cup {NoName}, scope : Ids(f)])
       /\ imports[f] \subseteq Import /\ uses[f] \subseteq Use(f)
       /\ refs[f] \subseteq RefNode(f)

\* The innermost scope around a scope, as the text has it; 0 if there is none.
TrueParent(f, i) ==
  Max({0} \cup {j \in 1..(i - 1) : Inside(scopes[f][i], scopes[f][j])})

\* A scope on the last row of another is not found inside it, because the
\* interval of the other does not hold its last row.
OnLastRow(f, i, j) ==
  /\ scopes[f][i].from = scopes[f][j].to /\ scopes[f][j].from < scopes[f][j].to

\* A scope that spans its whole file, which no newline ends, has the root's interval.
SpansFile(f, i) == Size(scopes[f][i]) = Size(Root[f])

\* The parents are those of the text, but for
\*   - a scope of one row that ends another, which goes to a scope further out;
\*   - several scopes of equal rows, and the root if one of them spans the file;
\*   - a scope of one row, where another of that row takes what follows on it
\* (interval_tree.py:16-57, scope_graph.py:41-53).
ParentsNest ==
  \A f \in Paths : \A i \in DOMAIN scopes[f] :
    LET s == scopes[f][i] IN
    /\ s.parent < i
    /\ s.parent # 0 => Inside(s, scopes[f][s.parent])
    /\ \A j \in 1..(i - 1) : j > s.parent /\ Inside(s, scopes[f][j]) =>
         \/ OnLastRow(f, i, j)
         \/ Size(Span(f, s.parent)) = Size(scopes[f][j])
         \/ Span(f, s.parent).from = Span(f, s.parent).to

\* A method is not taken for a function of the module, unless it is one row
\* that ends its class, or its class spans a file that no newline ends
\* (repo_graph.py:245-264, interval_tree.py:16-18).
ExportsAreTopLevel ==
  \A f \in Paths : \A d \in DOMAIN defs[f], j \in DOMAIN scopes[f] :
    /\ defs[f][d] \in Exports(f)
    /\ j # d /\ Inside(scopes[f][d], scopes[f][j]) /\ scopes[f][j].name # NoName
    => OnLastRow(f, d, j) \/ SpansFile(f, j)
=============================================================================
