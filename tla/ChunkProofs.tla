----------------------------- MODULE ChunkProofs -----------------------------
(***************************************************************************)
(* The theorems about ScopeGraph and ChunkGraph, for every text and any    *)
(* number of files, scopes, imports, references and chunks: the interval   *)
(* tree's answers give every scope the parent it has in the text, but for  *)
(* what begins on the last row of another scope and for intervals of equal *)
(* size, the root's among them; an edge between chunks stands for an       *)
(* import and a reference in its source's text; and a reference of the     *)
(* text has its edge, but for the named reasons.                           *)
(***************************************************************************)
EXTENDS ChunkGraph, FiniteSetTheorems, TLAPS

\* What the proofs use of a scope.
Row == [from : Nat, to : Nat, name : Names \cup {NoName}, parent : Nat]

RootRow == [from : Nat, to : Nat]

\* The scopes of a file, t, as the captures bring them: rows are not turned
\* around, they lie in the root's rows, r, and each scope may follow those before.
Rises(t)     == \A i \in DOMAIN t : t[i].from <= t[i].to
Within(t, r) == r.from <= r.to /\ \A i \in DOMAIN t : Inside(t[i], r)
Ordered(t) == \A j \in DOMAIN t : \A i \in 1..(j - 1) : MayFollow(t[j], t[i])

\* The exceptions of ParentsNest, and the property, for one file.
Reach(t, r, s) == IF s = 0 THEN r ELSE t[s]

Excepted(s, t, r, j) ==
  \/ s.from = t[j].to /\ t[j].from < t[j].to
  \/ Size(Reach(t, r, s.parent)) = Size(t[j])
  \/ Reach(t, r, s.parent).from = Reach(t, r, s.parent).to

NestsIn(s, t, r, i) ==
  /\ s.parent < i
  /\ s.parent # 0 => Inside(s, t[s.parent])
  /\ \A j \in 1..(i - 1) : j > s.parent /\ Inside(s, t[j]) => Excepted(s, t, r, j)

Nested(t, r) == \A i \in DOMAIN t : NestsIn(t[i], t, r, i)

\* ScopesAt, for the scopes t and the root r.
Around(t, r, a, b) == {s \in 0..Len(t) : Holds(Reach(t, r, s), a, b)}
PlacesIn(t, r, a, b) ==
  IF Around(t, r, a, b) = {} THEN {0}
  ELSE {s \in Around(t, r, a, b) :
          \A q \in Around(t, r, a, b) : Size(Reach(t, r, s)) <= Size(Reach(t, r, q))}

\* The definitions ds are those of the first scopes of t, and each lies where
\* the row of its name is found.
Placed(t, r, ds) ==
  \A d \in DOMAIN ds : /\ d \in DOMAIN t
                       /\ ds[d].name = t[d].name
                       /\ ds[d].scope \in PlacesIn(t, r, t[d].from, t[d].from)

Fits(f) ==
  /\ scopes[f] \in Seq(Row)
  /\ Rises(scopes[f]) /\ Within(scopes[f], Root[f])
  /\ Ordered(scopes[f]) /\ Nested(scopes[f], Root[f])
  /\ defs[f] \in Seq([name : Names \cup {NoName}, scope : Nat])
  /\ stage[f] = "scopes" => defs[f] = <<>>
  /\ Placed(scopes[f], Root[f], defs[f])

\* The inductive invariant.
ScopeInv ==
  /\ DOMAIN stage = Paths /\ DOMAIN scopes = Paths /\ DOMAIN defs = Paths
  /\ \A f \in Paths : Fits(f)

-----------------------------------------------------------------------------
(* Intervals and rows. *)

\* The interval of a scope that holds another's lies around its rows.
LEMMA HoldsIsInside ==
  ASSUME NEW s, NEW o, s.from \in Nat, s.to \in Nat, o.from \in Nat, o.to \in Nat,
         s.from <= s.to, o.from <= o.to, Holds(o, s.from, s.to)
  PROVE  Inside(s, o)
BY DEF Holds, Inside, Begin, End

\* Only a scope of one row on the last row of another lies inside it without
\* being held by its interval.
LEMMA InsideIsHeld ==
  ASSUME NEW s, NEW o, s.from \in Nat, s.to \in Nat, o.from \in Nat, o.to \in Nat,
         s.from <= s.to, Inside(s, o), ~(s.from = o.to /\ o.from < o.to)
  PROVE  Holds(o, s.from, s.to)
BY DEF Holds, Inside, Begin, End

\* What lies inside is not larger, and smaller if it begins later.
LEMMA InsideIsSmaller ==
  ASSUME NEW s, NEW o, s.from \in Nat, s.to \in Nat, o.from \in Nat, o.to \in Nat,
         s.from <= s.to, Inside(s, o)
  PROVE  /\ Size(s) \in Nat /\ Size(o) \in Nat /\ Size(s) <= Size(o)
         /\ o.from < s.from => Size(s) < Size(o)
<1>1. Size(s) = IF s.from = s.to THEN 1 ELSE 10 * s.to - 10 * s.from
  BY DEF Size, Begin, End
<1>2. Size(o) = IF o.from = o.to THEN 1 ELSE 10 * o.to - 10 * o.from
  BY DEF Size, Begin, End
<1>3. o.from <= s.from /\ s.to <= o.to
  BY DEF Inside
<1>4. CASE s.from = s.to
  BY <1>1, <1>2, <1>3, <1>4
<1>5. CASE s.from # s.to
  BY <1>1, <1>2, <1>3, <1>5
<1>6. QED
  BY <1>4, <1>5

-----------------------------------------------------------------------------
(* Where rows belong. *)

LEMMA RowFields ==
  ASSUME NEW t \in Seq(Row)
  PROVE  \A i \in 1..Len(t) :
           t[i] \in Row /\ t[i].from \in Nat /\ t[i].to \in Nat /\ t[i].parent \in Nat
<1>1. \A i \in 1..Len(t) : t[i] \in Row
  OBVIOUS
<1>2. \A x \in Row : x.from \in Nat /\ x.to \in Nat /\ x.parent \in Nat
  BY DEF Row
<1>3. QED
  BY <1>1, <1>2

\* What is found around rows is the root, or a scope that holds them; and no
\* other that holds them, the root included, is smaller.
LEMMA FoundScope ==
  ASSUME NEW t \in Seq(Row), NEW r, NEW a, NEW b, NEW k \in PlacesIn(t, r, a, b)
  PROVE  /\ k \in 0..Len(t)
         /\ k # 0 => Holds(t[k], a, b)
         /\ \A j \in 1..Len(t) : Holds(t[j], a, b) =>
              Holds(Reach(t, r, k), a, b) /\ Size(Reach(t, r, k)) <= Size(t[j])
<1>1. Len(t) \in Nat
  OBVIOUS
<1>2. \A j \in 1..Len(t) : Reach(t, r, j) = t[j] /\ j \in 0..Len(t)
  BY <1>1 DEF Reach
<1>3. CASE Around(t, r, a, b) = {}
  BY <1>1, <1>2, <1>3 DEF PlacesIn, Around
<1>4. CASE Around(t, r, a, b) # {}
  <2>1. k \in Around(t, r, a, b)
        /\ \A q \in Around(t, r, a, b) : Size(Reach(t, r, k)) <= Size(Reach(t, r, q))
    BY <1>4 DEF PlacesIn
  <2>2. k \in 0..Len(t) /\ Holds(Reach(t, r, k), a, b)
    BY <2>1 DEF Around
  <2>3. k # 0 => Holds(t[k], a, b)
    BY <2>2 DEF Reach
  <2>4. ASSUME NEW j \in 1..Len(t), Holds(t[j], a, b)
        PROVE  Size(Reach(t, r, k)) <= Size(t[j])
    <3>1. j \in Around(t, r, a, b) BY <1>2, <2>4 DEF Around
    <3>2. QED BY <1>2, <2>1, <3>1
  <2>5. QED BY <2>2, <2>3, <2>4
<1>5. QED
  BY <1>3, <1>4

\* The parent that a new scope gets.
LEMMA ParentOfNew ==
  ASSUME NEW t \in Seq(Row), NEW r \in RootRow, Rises(t), Within(t, r), Ordered(t),
         NEW s \in Row, s.from <= s.to, \A i \in DOMAIN t : MayFollow(s, t[i]),
         s.parent \in PlacesIn(t, r, s.from, s.to)
  PROVE  NestsIn(s, t, r, Len(t) + 1)
<1> DEFINE n == Len(t)
           p == s.parent
           P == Reach(t, r, p)
<1>1. n \in Nat /\ DOMAIN t = 1..n /\ p \in Nat /\ s.from \in Nat /\ s.to \in Nat
  BY DEF Row
<1>2. \A i \in 1..n : t[i].from \in Nat /\ t[i].to \in Nat /\ t[i].from <= t[i].to
  BY <1>1, RowFields DEF Rises
<1>3. /\ p \in 0..n
      /\ p # 0 => Holds(t[p], s.from, s.to)
      /\ \A j \in 1..n : Holds(t[j], s.from, s.to) =>
           Holds(P, s.from, s.to) /\ Size(P) <= Size(t[j])
  BY FoundScope
<1>4. p # 0 => Inside(s, t[p])
  <2>1. SUFFICES ASSUME p # 0 PROVE Inside(s, t[p])
    OBVIOUS
  <2>2. p \in 1..n BY <1>1, <1>3, <2>1
  <2>3. QED BY <1>1, <1>2, <1>3, <2>1, <2>2, HoldsIsInside
<1>5. ASSUME NEW j \in 1..n, j > p, Inside(s, t[j]), ~(s.from = t[j].to /\ t[j].from < t[j].to)
      PROVE  Size(P) = Size(t[j]) \/ P.from = P.to
  <2>1. Holds(t[j], s.from, s.to) BY <1>1, <1>2, <1>5, InsideIsHeld
  <2>2. Size(P) <= Size(t[j]) BY <1>3, <2>1
  <2>3. CASE p = 0
    <3>1. P = r /\ r.from \in Nat /\ r.to \in Nat BY <2>3 DEF Reach, RootRow
    <3>2. Inside(t[j], r) /\ r.from <= r.to BY <1>1 DEF Within
    <3>3. Size(t[j]) <= Size(r) /\ Size(t[j]) \in Nat /\ Size(r) \in Nat
      BY <1>2, <3>1, <3>2, InsideIsSmaller
    <3>4. QED BY <2>2, <3>1, <3>3
  <2>4. CASE p # 0
    <3>1. P = t[p] /\ p \in 1..n /\ p \in 1..(j - 1) BY <1>1, <1>3, <1>5, <2>4 DEF Reach
    <3>2. MayFollow(t[j], t[p]) BY <1>1, <3>1 DEF Ordered
    <3>3. CASE Inside(t[j], t[p])
      <4>1. Size(t[j]) <= Size(t[p]) /\ Size(t[j]) \in Nat /\ Size(t[p]) \in Nat
        BY <1>2, <3>1, <3>3, InsideIsSmaller
      <4>2. QED BY <2>2, <3>1, <4>1
    <3>4. CASE t[p].to <= t[j].from
      <4>1. s.from = s.to /\ s.from = t[p].to
        BY <1>1, <1>2, <1>4, <1>5, <2>4, <3>1, <3>4 DEF Inside
      <4>2. Holds(t[p], s.from, s.to) BY <1>3, <2>4
      <4>3. t[p].from = t[p].to BY <1>1, <1>2, <3>1, <4>1, <4>2 DEF Holds, Begin, End
      <4>4. QED BY <3>1, <4>3
    <3>5. QED BY <3>2, <3>3, <3>4 DEF MayFollow
  <2>5. QED BY <2>3, <2>4
<1>6. QED
  BY <1>1, <1>3, <1>4, <1>5 DEF NestsIn, Excepted

\* A scope that is appended leaves the others as they were.
LEMMA AppendNests ==
  ASSUME NEW t \in Seq(Row), NEW r, Nested(t, r), NEW s \in Row, NestsIn(s, t, r, Len(t) + 1)
  PROVE  Nested(Append(t, s), r)
<1> DEFINE n == Len(t)
           v == Append(t, s)
<1>1. /\ n \in Nat /\ DOMAIN t = 1..n /\ DOMAIN v = 1..(n + 1)
      /\ v[n + 1] = s /\ \A i \in 1..n : v[i] = t[i] /\ t[i] \in Row
  OBVIOUS
<1> HIDE DEF n, v
<1>2. ASSUME NEW i \in 1..(n + 1), NEW q \in Row, NestsIn(q, t, r, i) PROVE NestsIn(q, v, r, i)
  <2>1. q.parent \in Nat BY DEF Row
  <2>2. q.parent < i BY <1>2 DEF NestsIn
  <2>3. q.parent # 0 => q.parent \in 1..n BY <1>1, <2>1, <2>2
  <2>4. q.parent # 0 => v[q.parent] = t[q.parent] BY <1>1, <2>3
  <2>5. Reach(v, r, q.parent) = Reach(t, r, q.parent) BY <2>4 DEF Reach
  <2>6. \A j \in 1..(i - 1) : v[j] = t[j] BY <1>1
  <2>7. QED BY <1>2, <2>4, <2>5, <2>6 DEF NestsIn, Excepted
<1>3. \A i \in 1..n : NestsIn(t[i], v, r, i)
  BY <1>1, <1>2 DEF Nested
<1>4. NestsIn(s, v, r, n + 1)
  BY <1>1, <1>2 DEF n
<1>5. Nested(v, r)
  BY <1>1, <1>3, <1>4 DEF Nested
<1>6. QED
  BY <1>5 DEF v

LEMMA AppendOrders ==
  ASSUME NEW t \in Seq(Row), NEW q, Rises(t), Within(t, q), Ordered(t),
         NEW s \in Row, s.from <= s.to, Inside(s, q), \A i \in DOMAIN t : MayFollow(s, t[i])
  PROVE  /\ Rises(Append(t, s)) /\ Within(Append(t, s), q) /\ Ordered(Append(t, s))
         /\ Append(t, s) \in Seq(Row)
<1> DEFINE n == Len(t)
           r == Append(t, s)
<1>1. /\ n \in Nat /\ DOMAIN t = 1..n /\ DOMAIN r = 1..(n + 1)
      /\ r[n + 1] = s /\ \A i \in 1..n : r[i] = t[i]
  OBVIOUS
<1> HIDE DEF n, r
<1>2. Rises(r) /\ Within(r, q)
  BY <1>1 DEF Rises, Within
<1>3. ASSUME NEW j \in 1..(n + 1), NEW i \in 1..(j - 1) PROVE MayFollow(r[j], r[i])
  <2>1. i \in 1..n /\ r[i] = t[i] BY <1>1
  <2>2. CASE j = n + 1 BY <1>1, <2>1, <2>2
  <2>3. CASE j # n + 1
    <3>1. j \in 1..n BY <1>1, <2>3
    <3>2. QED BY <1>1, <2>1, <3>1 DEF Ordered
  <2>4. QED BY <2>2, <2>3
<1>4. QED
  BY <1>1, <1>2, <1>3 DEF Ordered, r

\* A definition that is appended, for the next scope.
LEMMA AppendPlaces ==
  ASSUME NEW t \in Seq(Row), NEW q, NEW D, NEW ds \in Seq(D), Placed(t, q, ds), NEW e \in D,
         Len(ds) + 1 \in DOMAIN t,
         e.name = t[Len(ds) + 1].name,
         e.scope \in PlacesIn(t, q, t[Len(ds) + 1].from, t[Len(ds) + 1].from)
  PROVE  Placed(t, q, Append(ds, e))
<1> DEFINE n == Len(ds)
           r == Append(ds, e)
<1>1. /\ n \in Nat /\ DOMAIN ds = 1..n /\ DOMAIN r = 1..(n + 1)
      /\ r[n + 1] = e /\ \A i \in 1..n : r[i] = ds[i]
  OBVIOUS
<1>2. ASSUME NEW d \in 1..(n + 1)
      PROVE  d \in DOMAIN t /\ r[d].name = t[d].name
             /\ r[d].scope \in PlacesIn(t, q, t[d].from, t[d].from)
  <2>1. CASE d = n + 1 BY <1>1, <2>1
  <2>2. CASE d # n + 1
    <3>1. d \in 1..n BY <1>1, <2>2
    <3>2. QED BY <1>1, <3>1 DEF Placed
  <2>3. QED BY <2>1, <2>2
<1>3. QED
  BY <1>1, <1>2 DEF Placed

LEMMA ScopesAtIsPlacesIn ==
  ASSUME NEW f, NEW a, NEW b
  PROVE  ScopesAt(f, a, b) = PlacesIn(scopes[f], Root[f], a, b)
BY DEF ScopesAt, PlacesIn, Around, Reach, Span, Ids

-----------------------------------------------------------------------------
(* The steps. *)

LEMMA OthersFit ==
  ASSUME ScopeInv, NEW f \in Paths, NEW g \in Paths,
         stage'[g] = stage[g], scopes'[g] = scopes[g], defs'[g] = defs[g]
  PROVE  Fits(g)'
BY DEF ScopeInv, Fits

LEMMA InsertScopeKeeps ==
  ASSUME ScopeInv, NEW f \in Paths,
         NEW s \in [from : Rows(f), to : Rows(f), name : Names \cup {NoName}, parent : Ids(f)],
         InsertScope(f, s)
  PROVE  ScopeInv'
<1>0. Root[f] \in RootRow
  BY ScopeConstants DEF RootRow
<1>1. s \in Row /\ Inside(s, Root[f])
  <2>1. /\ LastRow[f] \in Nat /\ Root[f].from \in Nat /\ Root[f].to \in Nat
        /\ LastRow[f] <= Root[f].to
    BY <1>0, ScopeConstants DEF RootRow
  <2>2. QED BY <2>1 DEF Row, Rows, Ids, ScopeInv, Fits, Inside
<1>2. Fits(f) /\ DOMAIN scopes = Paths
  BY DEF ScopeInv
<1>3. /\ scopes'[f] = Append(scopes[f], s) /\ DOMAIN scopes' = Paths
      /\ \A g \in Paths : g # f => scopes'[g] = scopes[g]
      /\ UNCHANGED <<stage, defs>>
  BY <1>2 DEF InsertScope
<1>4. stage[f] = "scopes" /\ defs[f] = <<>>
  BY <1>2 DEF InsertScope, Turn, Fits
<1>5. s.from <= s.to /\ \A i \in DOMAIN scopes[f] : MayFollow(s, scopes[f][i])
  BY DEF InsertScope
<1>6. s.parent \in PlacesIn(scopes[f], Root[f], s.from, s.to)
  BY ScopesAtIsPlacesIn DEF InsertScope
<1>7. Nested(Append(scopes[f], s), Root[f])
  <2>1. NestsIn(s, scopes[f], Root[f], Len(scopes[f]) + 1)
    BY <1>0, <1>1, <1>2, <1>5, <1>6, ParentOfNew DEF Fits
  <2>2. QED BY <1>1, <1>2, <2>1, AppendNests DEF Fits
<1>8. /\ Rises(scopes'[f]) /\ Within(scopes'[f], Root[f]) /\ Ordered(scopes'[f])
      /\ scopes'[f] \in Seq(Row) /\ Nested(scopes'[f], Root[f])
  BY <1>1, <1>2, <1>3, <1>5, <1>7, AppendOrders DEF Fits
<1>9. Placed(scopes'[f], Root[f], defs'[f])
  BY <1>3, <1>4 DEF Placed
<1>10. Fits(f)'
  BY <1>2, <1>3, <1>4, <1>8, <1>9 DEF Fits
<1>11. ASSUME NEW g \in Paths, g # f PROVE Fits(g)'
  BY <1>3, <1>11, OthersFit
<1>12. QED
  BY <1>3, <1>10, <1>11 DEF ScopeInv

LEMMA InsertDefKeeps ==
  ASSUME ScopeInv, NEW f \in Paths, InsertDef(f)
  PROVE  ScopeInv'
<1> DEFINE i == Len(defs[f]) + 1
<1>1. Fits(f) /\ DOMAIN defs = Paths
  BY DEF ScopeInv
<1>2. i \in DOMAIN scopes[f] /\ stage[f] = "defs"
  BY DEF InsertDef, Turn
<1>3. PICK at \in ScopesAt(f, scopes[f][i].from, scopes[f][i].from) :
        defs' = [defs EXCEPT ![f] = Append(@, [name |-> scopes[f][i].name, scope |-> at])]
  BY DEF InsertDef
<1>4. at \in PlacesIn(scopes[f], Root[f], scopes[f][i].from, scopes[f][i].from)
  BY ScopesAtIsPlacesIn
<1> DEFINE e == [name |-> scopes[f][i].name, scope |-> at]
<1>5. e \in [name : Names \cup {NoName}, scope : Nat]
  <2>1. scopes[f][i] \in Row BY <1>1, <1>2 DEF Fits
  <2>2. at \in Nat BY <1>1, <1>4, FoundScope DEF Fits
  <2>3. QED BY <2>1, <2>2 DEF Row
<1>6. UNCHANGED <<stage, scopes>> /\ DOMAIN defs' = Paths /\ defs'[f] = Append(defs[f], e)
      /\ \A g \in Paths : g # f => defs'[g] = defs[g]
  BY <1>1, <1>3 DEF InsertDef
<1>7. Placed(scopes[f], Root[f], Append(defs[f], e))
  <2>1. e.name = scopes[f][i].name /\ e.scope = at OBVIOUS
  <2>2. QED BY <1>1, <1>2, <1>4, <1>5, <2>1, AppendPlaces DEF Fits
<1>8. Fits(f)'
  BY <1>1, <1>2, <1>5, <1>6, <1>7 DEF Fits
<1>9. ASSUME NEW g \in Paths, g # f PROVE Fits(g)'
  BY <1>6, <1>9, OthersFit
<1>10. QED
  BY <1>6, <1>8, <1>9 DEF ScopeInv

LEMMA OthersKeep ==
  ASSUME ScopeInv, NEW f \in Paths, UNCHANGED <<scopes, defs>>,
         stage' = stage \/ \E next \in {"imports", "defs", "refs", "built"} : Advance(f, next)
  PROVE  ScopeInv'
<1>1. DOMAIN stage' = Paths /\ \A g \in Paths : stage'[g] = "scopes" => stage[g] = "scopes"
  BY DEF ScopeInv, Advance
<1>2. ASSUME NEW g \in Paths PROVE Fits(g)'
  <2>1. Fits(g) BY DEF ScopeInv
  <2>2. QED BY <1>1, <2>1 DEF Fits
<1>3. QED
  BY <1>1, <1>2 DEF ScopeInv

LEMMA ScopeInvariant == Spec => []ScopeInv
<1>1. Init => ScopeInv
  <2> SUFFICES ASSUME Init, NEW f \in Paths PROVE Fits(f)
    BY DEF Init, ScopeInv
  <2>1. scopes[f] = <<>> /\ defs[f] = <<>> BY DEF Init
  <2>2. Root[f].from <= Root[f].to
    <3>1. LastRow[f] \in Nat /\ Root[f] \in [from : Nat, to : Nat]
          /\ Root[f].from <= LastRow[f] /\ LastRow[f] <= Root[f].to
      BY ScopeConstants
    <3>2. QED BY <3>1
  <2>3. QED BY <2>1, <2>2 DEF Fits, Rises, Within, Ordered, Nested, Placed
<1>2. ScopeInv /\ [Next]_scopeVars => ScopeInv'
  <2> SUFFICES ASSUME ScopeInv, [Next]_scopeVars PROVE ScopeInv'
    OBVIOUS
  <2>1. ASSUME NEW f \in Paths, Insert(f) PROVE ScopeInv'
    <3>1. CASE \E s \in [from : Rows(f), to : Rows(f), name : Names \cup {NoName},
                         parent : Ids(f)] : InsertScope(f, s)
      BY <3>1, InsertScopeKeeps
    <3>2. CASE \E m \in Import : InsertImport(f, m)
      BY <3>2, OthersKeep DEF InsertImport
    <3>3. CASE InsertDef(f) BY <3>3, InsertDefKeeps
    <3>4. CASE \E u \in Use(f) : InsertRef(f, u)
      BY <3>4, OthersKeep DEF InsertRef
    <3>5. CASE EndScopes(f) \/ EndImports(f) \/ EndDefs(f) \/ EndRefs(f)
      BY <3>5, OthersKeep DEF EndScopes, EndImports, EndDefs, EndRefs
    <3>6. QED BY <2>1, <3>1, <3>2, <3>3, <3>4, <3>5 DEF Insert
  <2>2. CASE UNCHANGED scopeVars
    BY <2>2 DEF scopeVars, ScopeInv, Fits
  <2>3. QED BY <2>1, <2>2 DEF Next
<1>3. QED
  BY <1>1, <1>2, PTL DEF Spec

-----------------------------------------------------------------------------
(* The theorems. *)

\* The interval tree gives every scope the innermost scope around it in the
\* text as its parent, but for one row that ends another scope, for scopes of
\* equal rows, the root among them if it has those of a scope, and for what
\* follows a scope of one row on it (interval_tree.py:16-57, scope_graph.py:41-53).
THEOREM ScopesNest == Spec => []ParentsNest
<1>1. ScopeInv => ParentsNest
  BY DEF ScopeInv, Fits, Nested, NestsIn, Excepted, ParentsNest, OnLastRow, Reach, Span
<1>2. QED
  BY <1>1, ScopeInvariant, PTL

\* An exported class or function lies in its own scope: a scope around it would
\* be larger, and one that begins on its row would be its child, unless the class
\* or function spans the file and the root was taken for the parent.
LEMMA ExportedIsFound ==
  ASSUME ScopeInv, NEW f \in Paths, NEW d \in DOMAIN defs[f], defs[f][d] \in Exports(f)
  PROVE  LET t == scopes[f]
             k == defs[f][d].scope
         IN  /\ d \in DOMAIN t /\ k \in DOMAIN t
             /\ t[d].name = defs[f][d].name /\ t[d].name # NoName /\ t[k].parent = 0
             /\ Inside(t[k], t[d])
             /\ k # d => d < k /\ Size(t[d]) = Size(Root[f])
<1> DEFINE t == scopes[f]
           r == Root[f]
           n == Len(t)
           k == defs[f][d].scope
<1>1. /\ t \in Seq(Row) /\ Rises(t) /\ Within(t, r) /\ Ordered(t) /\ Nested(t, r)
      /\ Placed(t, r, defs[f]) /\ r \in RootRow
  BY ScopeConstants DEF ScopeInv, Fits, RootRow
<1>2. n \in Nat /\ DOMAIN t = 1..n /\ d \in 1..n /\ t[d].name = defs[f][d].name
  BY <1>1 DEF Placed
<1>3. /\ \A i \in 1..n : t[i].from \in Nat /\ t[i].to \in Nat /\ t[i].from <= t[i].to
      /\ r.from \in Nat /\ r.to \in Nat /\ r.from <= r.to
  BY <1>1, <1>2, RowFields DEF Rises, RootRow, Within
<1>4. t[d].name # NoName /\ k # 0 /\ t[k].parent = 0
  BY <1>2 DEF Exports
<1>5. k \in PlacesIn(t, r, t[d].from, t[d].from)
  BY <1>1 DEF Placed
<1>6. /\ k \in 0..n
      /\ k # 0 => Holds(t[k], t[d].from, t[d].from)
      /\ \A i \in 1..n : Holds(t[i], t[d].from, t[d].from) => Size(Reach(t, r, k)) <= Size(t[i])
  BY <1>1, <1>5, FoundScope
<1> HIDE DEF t, r, n, k
<1>7. k \in 1..n /\ Holds(t[k], t[d].from, t[d].from) /\ Reach(t, r, k) = t[k]
  BY <1>2, <1>4, <1>6 DEF Reach
<1>8. t[k].from <= t[d].from /\ t[d].from <= t[k].to
      /\ (t[k].from < t[d].from => t[d].from < t[k].to)
  BY <1>2, <1>3, <1>7 DEF Holds, Begin, End
<1>9. Size(t[k]) <= Size(t[d])
  <2>1. Holds(t[d], t[d].from, t[d].from) BY <1>2, <1>3 DEF Holds, Begin, End
  <2>2. QED BY <1>2, <1>6, <1>7, <2>1
<1>10. ~(k < d)
  <2>1. SUFFICES ASSUME k < d PROVE FALSE OBVIOUS
  <2>2. MayFollow(t[d], t[k]) BY <1>1, <1>2, <1>7, <2>1 DEF Ordered
  <2>3. t[k].from < t[d].from /\ Inside(t[d], t[k])
    BY <1>2, <1>3, <1>4, <1>7, <1>8, <2>2 DEF MayFollow
  <2>4. Size(t[d]) < Size(t[k]) /\ Size(t[d]) \in Nat /\ Size(t[k]) \in Nat
    BY <1>2, <1>3, <1>7, <2>3, InsideIsSmaller
  <2>5. QED BY <1>9, <2>4
<1>11. ASSUME d < k PROVE Inside(t[k], t[d]) /\ Size(t[d]) = Size(r)
  <2>1. MayFollow(t[k], t[d]) BY <1>1, <1>2, <1>7, <1>11 DEF Ordered
  <2>2. t[k].from = t[d].from
    BY <1>2, <1>3, <1>7, <1>8, <2>1 DEF MayFollow
  <2>3. Inside(t[k], t[d])
    <3>1. CASE t[d].to <= t[k].from
      <4>1. t[d].from = t[d].to BY <1>2, <1>3, <2>2, <3>1
      <4>2. t[k].from = t[k].to BY <1>2, <1>3, <1>7, <1>9, <4>1 DEF Size, Begin, End
      <4>3. QED BY <1>2, <1>3, <1>7, <2>2, <4>1, <4>2 DEF Inside
    <3>2. QED BY <2>1, <3>1 DEF MayFollow
  <2>4. NestsIn(t[k], t, r, k) BY <1>1, <1>2, <1>7 DEF Nested
  <2>5. d \in 1..(k - 1) /\ d > t[k].parent BY <1>2, <1>4, <1>7, <1>11
  <2>6. Excepted(t[k], t, r, d) BY <2>3, <2>4, <2>5 DEF NestsIn
  <2>7. Size(r) = Size(t[d]) \/ r.from = r.to
    BY <1>2, <1>3, <1>4, <1>7, <2>2, <2>6 DEF Excepted, Reach
  <2>8. Inside(t[d], r) BY <1>1, <1>2 DEF Within
  <2>9. CASE r.from = r.to
    <3>1. t[d].from = t[d].to BY <1>2, <1>3, <2>8, <2>9 DEF Inside
    <3>2. QED BY <1>2, <1>3, <2>3, <2>9, <3>1 DEF Size, Begin, End
  <2>10. QED BY <2>3, <2>7, <2>9
<1>12. k = d => Inside(t[k], t[d])
  BY <1>2, <1>3 DEF Inside
<1>13. k = d \/ d < k
  BY <1>2, <1>7, <1>10
<1>14. QED
  BY <1>2, <1>4, <1>7, <1>11, <1>12, <1>13 DEF t, k, r

\* A method is exported as a function of its module only if it begins on the
\* row that ends its class, where the search does not find the class, or if
\* the class spans a file that no newline ends, where the search may find the
\* root instead (repo_graph.py:245-264, interval_tree.py:16-18).
THEOREM MethodsStayInside == Spec => []ExportsAreTopLevel
<1>1. ScopeInv => ExportsAreTopLevel
  <2> SUFFICES ASSUME ScopeInv, NEW f \in Paths, NEW d \in DOMAIN defs[f],
                      defs[f][d] \in Exports(f),
                      NEW j \in DOMAIN scopes[f], j # d, Inside(scopes[f][d], scopes[f][j]),
                      scopes[f][j].name # NoName
               PROVE  OnLastRow(f, d, j) \/ SpansFile(f, j)
    BY DEF ExportsAreTopLevel
  <2> DEFINE t == scopes[f]
             r == Root[f]
             k == defs[f][d].scope
  <2>1. /\ t \in Seq(Row) /\ Rises(t) /\ Within(t, r) /\ Ordered(t) /\ Nested(t, r)
        /\ r \in RootRow
    BY ScopeConstants DEF ScopeInv, Fits, RootRow
  <2>2. Len(t) \in Nat /\ DOMAIN t = 1..Len(t)
    BY <2>1
  <2>3. d \in 1..Len(t) /\ j \in 1..Len(t) /\ t[k].parent = 0 /\ t[d].name # NoName
        /\ (k # d => Size(t[d]) = Size(r))
    BY <2>2, ExportedIsFound
  <2>4. /\ \A i \in 1..Len(t) : t[i].from \in Nat /\ t[i].to \in Nat /\ t[i].from <= t[i].to
        /\ r.from \in Nat /\ r.to \in Nat /\ r.from <= r.to
    BY <2>1, <2>2, RowFields DEF Rises, RootRow, Within
  <2>5. j < d
    <3>1. SUFFICES ASSUME d < j PROVE FALSE BY <2>2, <2>3
    <3>2. MayFollow(t[j], t[d]) BY <2>1, <2>2, <2>3, <3>1 DEF Ordered
    <3>3. QED BY <2>3, <2>4, <3>2 DEF MayFollow, Inside
  <2>6. t[j].from < t[d].from
    <3>1. MayFollow(t[d], t[j]) BY <2>1, <2>2, <2>3, <2>5 DEF Ordered
    <3>2. QED BY <2>3, <3>1 DEF MayFollow
  <2>7. /\ Size(t[d]) < Size(t[j]) /\ Size(t[j]) <= Size(r)
        /\ Size(t[d]) \in Nat /\ Size(t[j]) \in Nat /\ Size(r) \in Nat
    <3>1. Inside(t[j], r) BY <2>1, <2>2, <2>3 DEF Within
    <3>2. QED BY <2>3, <2>4, <2>6, <3>1, InsideIsSmaller
  <2>8. k = d
    BY <2>3, <2>7
  <2>9. NestsIn(t[d], t, r, d) /\ j \in 1..(d - 1) /\ j > t[d].parent
    BY <2>1, <2>2, <2>3, <2>5, <2>8 DEF Nested
  <2>10. Excepted(t[d], t, r, j) BY <2>9 DEF NestsIn
  <2>11. Reach(t, r, t[d].parent) = r BY <2>3, <2>8 DEF Reach
  <2>12. r.from # r.to
    <3>1. Inside(t[j], r) /\ Inside(t[d], t[j]) BY <2>1, <2>2, <2>3 DEF Within
    <3>2. QED BY <2>3, <2>4, <2>6, <3>1 DEF Inside
  <2>13. QED BY <2>3, <2>10, <2>11, <2>12 DEF Excepted, OnLastRow, SpansFile
<1>2. QED
  BY <1>1, ScopeInvariant, PTL

-----------------------------------------------------------------------------
(* From scope graphs to chunks. *)

\* A run of ChunkGraph is one of ScopeGraph, as far as scopes are concerned.
THEOREM ChunksBuildScopes == ChunkSpec => Spec
<1>1. ChunkInit => Init
  BY DEF ChunkInit
<1>2. [ChunkNext]_chunkVars => [Next]_scopeVars
  <2> SUFFICES ASSUME [ChunkNext]_chunkVars PROVE [Next]_scopeVars
    OBVIOUS
  <2>1. CASE Build BY <2>1 DEF Build
  <2>2. ASSUME NEW f \in Paths, Join(f) PROVE UNCHANGED scopeVars BY <2>2 DEF Join
  <2>3. ASSUME NEW f \in Paths, AddChunks(f) PROVE UNCHANGED scopeVars BY <2>3 DEF AddChunks
  <2>4. CASE Resolve BY <2>4 DEF Resolve, LookUp
  <2>5. CASE UNCHANGED chunkVars BY <2>5 DEF chunkVars
  <2>6. QED BY <2>1, <2>2, <2>3, <2>4, <2>5 DEF ChunkNext
<1>3. QED
  BY <1>1, <1>2, PTL DEF ChunkSpec, Spec

-----------------------------------------------------------------------------
(* The types. *)

\* Scopes are numbered as they are inserted, and nothing refers to a scope of a
\* file before all are there.
TypeInv ==
  /\ TypeOK /\ ScopeInv
  /\ DOMAIN imports = Paths /\ DOMAIN uses = Paths /\ DOMAIN refs = Paths
  /\ \A f \in Paths : stage[f] = "scopes" => refs[f] = {}

LEMMA FoundIds ==
  ASSUME TypeInv, NEW f \in Paths, NEW a, NEW b
  PROVE  ScopesAt(f, a, b) \subseteq Ids(f)
<1>1. scopes[f] \in Seq(Scope(f))
  BY DEF TypeInv, TypeOK
<1>2. Len(scopes[f]) \in Nat
  BY <1>1
<1> QED
  BY <1>2 DEF ScopesAt, Ids

LEMMA TypesStep ==
  ASSUME TypeInv, NEW f \in Paths, Insert(f), ScopeInv'
  PROVE  TypeInv'
<1>1. CASE \E s \in [from : Rows(f), to : Rows(f), name : Names \cup {NoName},
                     parent : Ids(f)] : InsertScope(f, s)
  <2>1. PICK s \in [from : Rows(f), to : Rows(f), name : Names \cup {NoName}, parent : Ids(f)] :
          InsertScope(f, s)
    BY <1>1
  <2>2. /\ stage[f] = "scopes" /\ UNCHANGED <<stage, defs, imports, uses, refs>>
        /\ scopes' = [scopes EXCEPT ![f] = Append(@, s)]
    BY <2>1 DEF InsertScope, Turn
  <2>3. DOMAIN scopes = Paths /\ scopes[f] \in Seq(Scope(f)) /\ refs[f] = {} /\ defs[f] = <<>>
    BY <2>2 DEF TypeInv, TypeOK, ScopeInv, Fits
  <2>4. s \in Scope(f)
    BY <2>3 DEF Scope, Ids
  <2>5. scopes'[f] \in Seq(Scope(f)) /\ \A g \in Paths \ {f} : scopes'[g] = scopes[g]
    BY <2>2, <2>3, <2>4
  <2>6. ASSUME NEW g \in Paths
        PROVE  /\ scopes'[g] \in Seq(Scope(g))
               /\ defs'[g] \in Seq([name : Names \cup {NoName}, scope : 0..Len(scopes'[g])])
               /\ refs'[g] \subseteq [name : Names, origin : 0..Len(scopes'[g])]
    <3>1. CASE g = f
      <4>1. scopes'[g] \in Seq(Scope(g)) /\ defs'[g] = <<>> /\ refs'[g] = {}
        BY <2>2, <2>3, <2>5, <3>1
      <4> QED
        BY <4>1
    <3>2. CASE g # f
      BY <2>2, <2>5, <3>2 DEF TypeInv, TypeOK, Ids, RefNode
    <3> QED
      BY <3>1, <3>2
  <2>7. TypeOK'
    <3>1. \A g \in Paths : scopes'[g] \in Seq(Scope(g)) /\ Ids(g)' = 0..Len(scopes'[g])
      BY <2>6 DEF Ids
    <3> QED
      BY <2>2, <2>6, <3>1 DEF TypeInv, TypeOK, RefNode, Scope, Rows, Use, Import
  <2> QED
    BY <2>2, <2>7 DEF TypeInv
<1>2. CASE \E m \in Import : InsertImport(f, m)
  <2>1. PICK m \in Import : imports' = [imports EXCEPT ![f] = @ \cup {m}]
    BY <1>2 DEF InsertImport
  <2>2. UNCHANGED <<stage, scopes, defs, uses, refs>>
    BY <1>2 DEF InsertImport
  <2>3. DOMAIN imports' = Paths /\ \A g \in Paths : imports'[g] \subseteq Import
    <3>1. DOMAIN imports = Paths /\ \A g \in Paths : imports[g] \subseteq Import
      BY DEF TypeInv, TypeOK
    <3> QED
      BY <2>1, <3>1
  <2> QED
    BY <2>2, <2>3 DEF TypeInv, TypeOK, Ids, RefNode, Scope, Rows, Use
<1>3. CASE InsertDef(f)
  <2> DEFINE i == Len(defs[f]) + 1
  <2>1. i \in DOMAIN scopes[f] /\ UNCHANGED <<stage, scopes, imports, uses, refs>>
    BY <1>3 DEF InsertDef
  <2>2. PICK p \in ScopesAt(f, scopes[f][i].from, scopes[f][i].from) :
          defs' = [defs EXCEPT ![f] = Append(@, [name |-> scopes[f][i].name, scope |-> p])]
    BY <1>3 DEF InsertDef
  <2>3. p \in Ids(f)
    BY FoundIds
  <2>4. scopes[f][i].name \in Names \cup {NoName}
    <3>1. scopes[f] \in Seq(Scope(f))
      BY DEF TypeInv, TypeOK
    <3>2. scopes[f][i] \in Scope(f)
      BY <2>1, <3>1
    <3> QED
      BY <3>2 DEF Scope
  <2>5. DOMAIN defs = Paths /\ defs[f] \in Seq([name : Names \cup {NoName}, scope : Ids(f)])
    BY DEF TypeInv, TypeOK, ScopeInv
  <2>6. /\ defs'[f] \in Seq([name : Names \cup {NoName}, scope : Ids(f)])
        /\ \A g \in Paths \ {f} : defs'[g] = defs[g]
    BY <2>2, <2>3, <2>4, <2>5
  <2> QED
    BY <2>1, <2>6 DEF TypeInv, TypeOK, Ids, RefNode
<1>4. CASE \E u \in Use(f) : InsertRef(f, u)
  <2>1. PICK u \in Use(f) : InsertRef(f, u)
    BY <1>4
  <2>2. /\ stage[f] = "refs" /\ UNCHANGED <<stage, scopes, defs, imports>>
        /\ uses' = [uses EXCEPT ![f] = @ \cup {u}]
    BY <2>1 DEF InsertRef, Turn
  <2>3. /\ DOMAIN refs' = Paths
        /\ \A g \in Paths : refs'[g] \subseteq RefNode(g)
        /\ \A g \in Paths : stage[g] = "scopes" => refs'[g] = {}
    <3>1. DOMAIN refs = Paths /\ (\A g \in Paths : refs[g] \subseteq RefNode(g))
          /\ (\A g \in Paths : stage[g] = "scopes" => refs[g] = {})
      BY DEF TypeInv, TypeOK
    <3>2. CASE u.name \in Known(f)
      <4>1. PICK p \in ScopesAt(f, u.row, u.row) :
              refs' = [refs EXCEPT ![f] = @ \cup {[name |-> u.name, origin |-> p]}]
        BY <2>1, <3>2 DEF InsertRef
      <4>2. [name |-> u.name, origin |-> p] \in RefNode(f)
        BY FoundIds DEF RefNode, Use
      <4> QED
        BY <2>2, <3>1, <4>1, <4>2
    <3>3. CASE u.name \notin Known(f)
      BY <2>1, <3>1, <3>3 DEF InsertRef
    <3> QED
      BY <3>2, <3>3
  <2>4. TypeOK'
    BY <2>2, <2>3 DEF TypeInv, TypeOK, Ids, RefNode
  <2> QED
    BY <2>2, <2>3, <2>4 DEF TypeInv
<1>5. CASE EndScopes(f) \/ EndImports(f) \/ EndDefs(f) \/ EndRefs(f)
  <2>1. UNCHANGED <<scopes, defs, imports, uses, refs>>
    BY <1>5 DEF EndScopes, EndImports, EndDefs, EndRefs
  <2>2. \E next \in {"imports", "defs", "refs", "built"} : stage' = [stage EXCEPT ![f] = next]
    BY <1>5 DEF EndScopes, EndImports, EndDefs, EndRefs, Advance
  <2> QED
    BY <2>1, <2>2 DEF TypeInv, TypeOK, Ids, RefNode
<1> QED
  BY <1>1, <1>2, <1>3, <1>4, <1>5 DEF Insert

LEMMA TypeInvariant == Spec => []TypeInv
<1>1. Init => TypeInv \/ ~ScopeInv
  BY DEF Init, TypeInv, TypeOK
<1>2. TypeInv /\ ScopeInv' /\ [Next]_scopeVars => TypeInv'
  <2> SUFFICES ASSUME TypeInv, ScopeInv', [Next]_scopeVars PROVE TypeInv'
    OBVIOUS
  <2>1. CASE Next
    BY <2>1, TypesStep DEF Next
  <2>2. CASE UNCHANGED scopeVars
    BY <2>2 DEF scopeVars, TypeInv, TypeOK, Ids, RefNode
  <2> QED
    BY <2>1, <2>2
<1> QED
  BY <1>1, <1>2, ScopeInvariant, PTL DEF Spec

\* Every parent, definition and reference is of a scope that the graph of its
\* file has (scope_graph.py:41-160, build_scopes.py).
THEOREM ScopesAreKnown == ChunkSpec => []TypeOK
<1>1. TypeInv => TypeOK
  BY DEF TypeInv
<1> QED
  BY <1>1, TypeInvariant, ChunksBuildScopes, PTL

\* The least of a non-empty set of indices is one of them, below the others.
LEMMA MinIsIn ==
  ASSUME NEW N \in Nat, NEW S \in SUBSET (1..N), S # {}
  PROVE  Min(S) \in S /\ \A y \in S : Min(S) <= y
<1> DEFINE T == {1..x : x \in S}
           O == StrictSubsetOrdering(1..N)
<1>1. IsFiniteSet(1..N)
  BY FS_Interval
<1>2. T \subseteq FiniteSubsetsOf(1..N) /\ T # {}
  <2>1. FiniteSubsetsOf(1..N) = SUBSET (1..N) BY <1>1, FS_FiniteSubsetsOfFinite
  <2>2. ASSUME NEW x \in S PROVE 1..x \in SUBSET (1..N) OBVIOUS
  <2>3. T \subseteq SUBSET (1..N) /\ T # {} BY <2>2
  <2>4. QED BY <2>1, <2>3
<1>3. IsWellFoundedOn(O, FiniteSubsetsOf(1..N))
  BY <1>1, FS_StrictSubsetOrderingWellFounded
<1> HIDE DEF T, O
<1>4. PICK X \in T : \A Y \in T : <<Y, X>> \notin O
  BY <1>2, <1>3, WFMin
<1>5. PICK x \in S : X = 1..x
  BY DEF T
<1>6. ASSUME NEW y \in S PROVE x <= y
  <2>1. SUFFICES ASSUME y < x PROVE FALSE OBVIOUS
  <2>2. 1..y \in T BY DEF T
  <2>3. 1..y \in SUBSET (1..N) /\ 1..x \in SUBSET (1..N) OBVIOUS
  <2>4. 1..y \subseteq 1..x /\ 1..y # 1..x
    <3>1. x \in 1..x /\ x \notin 1..y BY <2>1
    <3>2. QED BY <2>1, <3>1
  <2>5. <<1..y, 1..x>> \in O
    BY <2>3, <2>4 DEF O, StrictSubsetOrdering
  <2>6. QED BY <1>4, <1>5, <2>2, <2>5
<1>7. QED
  BY <1>6 DEF Min

\* The file that a module matches is one of the repository's.
LEMMA MatchedIsFile ==
  ASSUME NEW m, Matches(m) # {}
  PROVE  Matched(m) \in Paths
<1>1. Files \in Seq(Paths)
  BY ScopeConstants
<1>2. Len(Files) \in Nat /\ Matches(m) \in SUBSET (1..Len(Files))
  BY <1>1 DEF Matches
<1>3. Min(Matches(m)) \in 1..Len(Files)
  BY <1>2, MinIsIn
<1>4. QED
  BY <1>1, <1>3 DEF Matched

\* Files are told apart by their positions.
LEMMA PositionsDiffer ==
  ASSUME NEW f \in Paths, NEW g \in Paths, Position(f) <= Position(g), Position(g) <= Position(f)
  PROVE  f = g
<1>1. Files \in Seq(Paths)
  BY ScopeConstants
<1>2. /\ Position(f) \in DOMAIN Files /\ Files[Position(f)] = f
      /\ Position(g) \in DOMAIN Files /\ Files[Position(g)] = g
  BY DEF Position, Paths, Range
<1>3. Position(f) = Position(g)
  BY <1>1, <1>2
<1>4. QED
  BY <1>2, <1>3

\* The node that carries an id is unique.
LEMMA NodeIsUnique ==
  ASSUME DOMAIN chunks \subseteq Paths, NEW c \in AllChunks, IsNode(c[1], c[2])
  PROVE  Node(Id(c[1], c[2])) = c
<1> DEFINE id == Id(c[1], c[2])
<1>1. c \in Behind(id)
  BY DEF Behind
<1>2. ASSUME NEW d \in Behind(id), IsNode(d[1], d[2]) PROVE d = c
  <2>1. d \in AllChunks /\ Id(d[1], d[2]) = Id(c[1], c[2]) BY DEF Behind
  <2>2. /\ c[1] \in Paths /\ c = <<c[1], c[2]>>
        /\ d[1] \in Paths /\ d = <<d[1], d[2]>>
    BY <2>1 DEF AllChunks
  <2>3. Position(d[1]) <= Position(c[1]) /\ Position(c[1]) <= Position(d[1])
    BY <1>2, <2>1 DEF IsNode
  <2>4. d[1] = c[1] BY <2>2, <2>3, PositionsDiffer
  <2>5. d[2] = c[2] BY <2>1 DEF Id
  <2>6. QED BY <2>2, <2>4, <2>5
<1>3. QED
  BY <1>1, <1>2 DEF Node

-----------------------------------------------------------------------------
(* The invariant of the chunk graph. *)

\* An edge between scopes is an import's, and ends at an exported definition.
EdgeFits(e) ==
  \E f \in Paths : \E m \in imports[f] :
    LET g == Matched(m.module) IN
    /\ e.from[1] = f /\ e.ref = m.name /\ m.module \notin Foreign /\ g \in Paths
    /\ \E d \in DOMAIN defs[g] : /\ defs[g][d] \in Exports(g) /\ defs[g][d].name = m.name
                                 /\ e.to = <<g, defs[g][d].scope>>

\* What LinksAreImports says of an edge, for its source.
LinkFits(l, c) ==
  /\ Mentions(c[1], c[2], l.ref) # {}
  /\ \E m \in imports[c[1]], d \in Behind(l.dst) :
       /\ m.name = l.ref /\ m.module \notin Foreign /\ d[1] = Matched(m.module)
       /\ \E t \in DOMAIN scopes[d[1]] :
            scopes[d[1]][t].name = l.ref /\ HasRow(d[1], d[2], t)

LinkHasSource(l) ==
  \E c \in AllChunks : IsNode(c[1], c[2]) /\ Id(c[1], c[2]) = l.src /\ LinkFits(l, c)

\* Each stage begins when the one before it has ended.
StageInv ==
  /\ ~Built => joined = {} /\ edges = {}
  /\ joined # Paths => chunks = <<>>
  /\ DOMAIN chunks \subseteq Paths
  /\ \A f \in DOMAIN chunks :
       /\ DOMAIN chunks[f] \subseteq 1..MaxChunks[f]
       /\ \A i \in DOMAIN chunks[f] : \A x \in chunks[f][i].shows : x.use \in uses[f]
  /\ ~Complete => done = {} /\ links = {}

ChunkInv ==
  /\ StageInv
  /\ \A e \in edges : EdgeFits(e)
  /\ \A l \in links : LinkHasSource(l)

\* Nothing of it changes with the variables it does not mention.
LEMMA SameText ==
  ASSUME UNCHANGED scopeVars
  PROVE  /\ Built' = Built
         /\ \A e : EdgeFits(e)' = EdgeFits(e)
BY DEF scopeVars, Built, EdgeFits, Exports

LEMMA SameChunks ==
  ASSUME UNCHANGED scopeVars, UNCHANGED chunks
  PROVE  Complete' = Complete /\ \A l : LinkHasSource(l)' = LinkHasSource(l)
<1>1. AllChunks' = AllChunks
  BY DEF AllChunks
<1>2. /\ \A f, i : IsNode(f, i)' = IsNode(f, i) /\ RowsOf(f, i)' = RowsOf(f, i)
      /\ \A f, i, name : Mentions(f, i, name)' = Mentions(f, i, name)
  BY <1>1 DEF IsNode, RowsOf, Mentions
<1>3. \A id : Behind(id)' = Behind(id)
  BY <1>1 DEF Behind
<1>4. \A g, i, t : HasRow(g, i, t)' = HasRow(g, i, t)
  BY <1>2 DEF HasRow, scopeVars
<1>5. \A l, c : LinkFits(l, c)' = LinkFits(l, c)
  BY <1>2, <1>3, <1>4 DEF LinkFits, scopeVars
<1>6. QED
  BY <1>1, <1>2, <1>5 DEF LinkHasSource, Complete

\* Before the last file is cut, nothing has been looked up.
LEMMA NothingYet ==
  ASSUME ChunkInv, Paths # {}, joined # Paths
  PROVE  chunks = <<>> /\ done = {} /\ links = {}
<1>1. chunks = <<>>
  BY DEF ChunkInv, StageInv
<1>2. ~Complete
  BY <1>1 DEF Complete
<1>3. QED
  BY <1>1, <1>2 DEF ChunkInv, StageInv

-----------------------------------------------------------------------------
(* The steps of the chunk graph. *)

LEMMA JoinKeeps ==
  ASSUME ChunkInv, NEW f \in Paths, Join(f)
  PROVE  ChunkInv'
<1>1. UNCHANGED <<scopeVars, chunks, done, links>> /\ edges' = edges \cup EdgesOf(f) /\ Built
  BY DEF Join
<1>2. ASSUME NEW e \in EdgesOf(f) PROVE EdgeFits(e)
  <2>1. PICK m \in imports[f] :
          e \in [from : {<<f, s>> : s \in Importers(f, m.name)}, to : Exporters(m), ref : {m.name}]
    BY DEF EdgesOf
  <2>2. e.from[1] = f /\ e.ref = m.name /\ e.to \in Exporters(m)
    BY <2>1
  <2>3. m.module \notin Foreign /\ Matches(m.module) # {}
    BY <2>2 DEF Exporters
  <2> DEFINE g == Matched(m.module)
  <2>4. PICK x \in Exports(g) : x.name = m.name /\ e.to = <<g, x.scope>>
    BY <2>2, <2>3 DEF Exporters
  <2>5. PICK d \in DOMAIN defs[g] : x = defs[g][d]
    BY DEF Exports, Range
  <2>6. g \in Paths BY <2>3, MatchedIsFile
  <2>7. QED BY <2>2, <2>3, <2>4, <2>5, <2>6 DEF EdgeFits
<1>3. chunks = <<>> /\ done = {} /\ links = {} /\ ~Complete
  <2>1. joined # Paths BY DEF Join
  <2>2. QED BY <2>1, NothingYet DEF Complete
<1>4. QED
  BY <1>1, <1>2, <1>3, SameText DEF ChunkInv, StageInv, Complete, scopeVars

LEMMA AddChunksKeeps ==
  ASSUME ChunkInv, NEW f \in Paths, AddChunks(f)
  PROVE  ChunkInv'
<1>1. /\ UNCHANGED <<scopeVars, joined, edges, done, links>>
      /\ joined = Paths /\ f \notin DOMAIN chunks
  BY DEF AddChunks
<1>2. done = {} /\ links = {} /\ Built
  BY <1>1 DEF ChunkInv, StageInv, Complete
<1>3. PICK c \in Cuts(f) : chunks' = [g \in DOMAIN chunks \cup {f} |-> IF g = f THEN c ELSE chunks[g]]
  BY DEF AddChunks
<1>4. DOMAIN chunks' = DOMAIN chunks \cup {f} /\ chunks'[f] = c
      /\ \A g \in DOMAIN chunks : chunks'[g] = chunks[g]
  BY <1>1, <1>3
<1>5. DOMAIN c \subseteq 1..MaxChunks[f] /\ \A i \in DOMAIN c : \A x \in c[i].shows : x.use \in uses[f]
  <2> DEFINE whole == {y \in Chunk(f) : y.first <= y.last}
  <2>0. c \in UNION {[numbers -> whole] : numbers \in SUBSET (1..MaxChunks[f])}
    BY DEF Cuts
  <2> HIDE DEF whole
  <2>1. PICK numbers \in SUBSET (1..MaxChunks[f]) : c \in [numbers -> whole]
    BY <2>0
  <2>2. \A y \in whole : \A x \in y.shows : x.use \in uses[f]
    BY DEF Chunk, whole
  <2>3. QED BY <2>1, <2>2
<1>6. StageInv'
  <2>1. uses' = uses BY <1>1 DEF scopeVars
  <2>2. QED BY <1>1, <1>2, <1>4, <1>5, <2>1, SameText DEF ChunkInv, StageInv
<1>7. QED
  BY <1>1, <1>2, <1>6, SameText DEF ChunkInv

\* What a reference stands for.
LEMMA ReferenceFields ==
  ASSUME NEW p \in References
  PROVE  /\ <<p.file, p.chunk>> \in AllChunks /\ IsNode(p.file, p.chunk)
         /\ [at |-> p.at, use |-> p.use] \in {[at |-> x.at, use |-> x.use] :
                                             x \in chunks[p.file][p.chunk].shows}
<1>1. PICK c \in AllChunks : /\ IsNode(c[1], c[2])
                             /\ \E x \in chunks[c[1]][c[2]].shows :
                                  p = [file |-> c[1], chunk |-> c[2], at |-> x.at, use |-> x.use]
  BY DEF References
<1>2. PICK x \in chunks[c[1]][c[2]].shows :
        p = [file |-> c[1], chunk |-> c[2], at |-> x.at, use |-> x.use]
  BY <1>1
<1>3. p.file = c[1] /\ p.chunk = c[2] /\ p.at = x.at /\ p.use = x.use
  BY <1>2
<1>4. c = <<c[1], c[2]>>
  BY DEF AllChunks
<1>5. QED
  BY <1>1, <1>3, <1>4

LEMMA ResolveKeeps ==
  ASSUME ScopeInv, ChunkInv, Resolve
  PROVE  ChunkInv'
<1>1. PICK p \in References : LookUp(p)
  BY DEF Resolve
<1>2. UNCHANGED <<scopeVars, chunks, joined, edges>> /\ Complete
  BY <1>1 DEF LookUp, Resolve
<1>3. <<p.file, p.chunk>> \in AllChunks /\ IsNode(p.file, p.chunk)
      /\ Mentions(p.file, p.chunk, p.use.name) # {}
  <2>1. PICK x \in chunks[p.file][p.chunk].shows :
          [at |-> p.at, use |-> p.use] = [at |-> x.at, use |-> x.use]
    BY ReferenceFields
  <2>2. x.use = p.use BY <2>1
  <2>3. QED BY <2>2, ReferenceFields DEF Mentions
<1>4. ASSUME NEW l \in links' \ links PROVE LinkHasSource(l)
  <2>0. PICK s : \E to \in ExportsFrom(p.file, s, p.use.name) :
          /\ Chunks(to[1], to[2]) # {}
          /\ l = [src |-> Id(p.file, p.chunk), ref |-> p.use.name,
                  dst |-> Id(to[1], Min(Chunks(to[1], to[2])))]
    BY <1>1, <1>4 DEF LookUp
  <2>1. PICK to \in ExportsFrom(p.file, s, p.use.name) :
          /\ Chunks(to[1], to[2]) # {}
          /\ l = [src |-> Id(p.file, p.chunk), ref |-> p.use.name,
                  dst |-> Id(to[1], Min(Chunks(to[1], to[2])))]
    BY <2>0
  <2>2. PICK e \in edges : e.from = <<p.file, s>> /\ e.ref = p.use.name /\ e.to = to
    BY DEF ExportsFrom
  <2>3. EdgeFits(e) /\ e.from[1] = p.file BY <2>2 DEF ChunkInv
  <2>4. PICK m \in imports[p.file] :
          /\ m.name = p.use.name /\ m.module \notin Foreign /\ Matched(m.module) \in Paths
          /\ \E d \in DOMAIN defs[Matched(m.module)] :
               /\ defs[Matched(m.module)][d] \in Exports(Matched(m.module))
               /\ defs[Matched(m.module)][d].name = m.name
               /\ to = <<Matched(m.module), defs[Matched(m.module)][d].scope>>
    BY <2>2, <2>3 DEF EdgeFits
  <2> DEFINE g == Matched(m.module)
             i == Min(Chunks(to[1], to[2]))
             c == <<p.file, p.chunk>>
  <2>5. PICK d \in DOMAIN defs[g] : defs[g][d] \in Exports(g) /\ defs[g][d].name = m.name
                                  /\ to = <<g, defs[g][d].scope>>
    BY <2>4
  <2> DEFINE k == defs[g][d].scope
  <2>6. /\ d \in DOMAIN scopes[g] /\ k \in DOMAIN scopes[g]
        /\ scopes[g][d].name = p.use.name /\ Inside(scopes[g][k], scopes[g][d])
        /\ to[1] = g /\ to[2] = k
    BY <2>4, <2>5, ExportedIsFound
  <2>7. i \in DOMAIN chunks[g] /\ HasRow(g, i, d)
    <3>1. Chunks(g, k) \subseteq DOMAIN chunks[g] BY DEF Chunks
    <3>2. Chunks(g, k) \in SUBSET (1..MaxChunks[g]) /\ MaxChunks[g] \in Nat
      BY <1>2, <2>4, <3>1, ChunkConstants DEF ChunkInv, StageInv, Complete
    <3>3. i \in Chunks(g, k) BY <2>1, <2>6, <3>2, MinIsIn
    <3>4. PICK row \in {scopes[g][k].from, scopes[g][k].to} : row \in RowsOf(g, i)
      BY <3>3 DEF Chunks
    <3>5. row \in scopes[g][d].from..scopes[g][d].to
      <4>1. /\ scopes[g] \in Seq(Row) /\ Rises(scopes[g]) BY <2>4 DEF ScopeInv, Fits
      <4>2. \A z \in DOMAIN scopes[g] : /\ scopes[g][z].from \in Nat /\ scopes[g][z].to \in Nat
                                       /\ scopes[g][z].from <= scopes[g][z].to
        BY <4>1, RowFields DEF Rises
      <4>3. QED BY <2>6, <3>4, <4>2 DEF Inside
    <3>6. QED BY <3>3, <3>4, <3>5 DEF Chunks, HasRow
  <2>8. <<g, i>> \in Behind(l.dst)
    BY <1>2, <2>1, <2>4, <2>6, <2>7 DEF Behind, AllChunks, Complete
  <2>9. c \in AllChunks /\ IsNode(c[1], c[2]) /\ Id(c[1], c[2]) = l.src
    BY <1>3, <2>1
  <2>10. LinkFits(l, c)
    <3>1. Mentions(c[1], c[2], l.ref) # {}
      BY <1>3, <2>1
    <3>2. m.name = l.ref /\ scopes[g][d].name = l.ref BY <2>1, <2>4, <2>6
    <3>3. QED BY <2>4, <2>6, <2>7, <2>8, <3>1, <3>2 DEF LinkFits
  <2>11. QED BY <2>9, <2>10 DEF LinkHasSource
<1>5. QED
  BY <1>2, <1>4, SameText, SameChunks DEF ChunkInv, StageInv, scopeVars

LEMMA ChunkInvariant == ChunkSpec => []ChunkInv
<1>1. ChunkInit => ChunkInv
  BY DEF ChunkInit, ChunkInv, StageInv
<1>2. ScopeInv /\ ChunkInv /\ [ChunkNext]_chunkVars => ChunkInv'
  <2> SUFFICES ASSUME ScopeInv, ChunkInv, [ChunkNext]_chunkVars PROVE ChunkInv'
    OBVIOUS
  <2>1. CASE Build
    <3>1. ~Built /\ Paths # {} /\ UNCHANGED <<joined, edges, chunks, done, links>>
      BY <2>1 DEF Build, Next, Built
    <3>2. joined = {} /\ edges = {} /\ joined # Paths BY <3>1 DEF ChunkInv, StageInv
    <3>3. chunks = <<>> /\ done = {} /\ links = {} BY <3>1, <3>2, NothingYet
    <3>4. QED BY <3>1, <3>2, <3>3 DEF ChunkInv, StageInv
  <2>2. ASSUME NEW f \in Paths, Join(f) PROVE ChunkInv' BY <2>2, JoinKeeps
  <2>3. ASSUME NEW f \in Paths, AddChunks(f) PROVE ChunkInv' BY <2>3, AddChunksKeeps
  <2>4. CASE Resolve BY <2>4, ResolveKeeps
  <2>5. CASE UNCHANGED chunkVars
    <3>1. UNCHANGED <<scopeVars, joined, edges, chunks, done, links>> BY <2>5 DEF chunkVars
    <3>2. QED BY <3>1, SameText, SameChunks DEF ChunkInv, StageInv, scopeVars
  <2>6. QED BY <2>1, <2>2, <2>3, <2>4, <2>5 DEF ChunkNext
<1>3. QED
  BY <1>1, <1>2, ScopeInvariant, ChunksBuildScopes, PTL DEF ChunkSpec

\* Every edge of the chunk graph stands for a reference in the text of its source
\* to a name that the file imports, and ends at a chunk that holds a row of a
\* definition of that name in the file that the module matches, however files
\* are named and cut, whatever the texts of chunks repeat or leave out
\* (chunk_graph.py:80-169, python.py:161-162, epic_split.py:400-486).
THEOREM LinksStandForImports == ChunkSpec => []LinksAreImports
<1>1. ChunkInv => LinksAreImports
  <2> SUFFICES ASSUME ChunkInv, NEW l \in links PROVE LinkFits(l, Node(l.src))
    BY DEF LinksAreImports, LinkFits
  <2>1. PICK c \in AllChunks : IsNode(c[1], c[2]) /\ Id(c[1], c[2]) = l.src /\ LinkFits(l, c)
    BY DEF ChunkInv, LinkHasSource
  <2>2. Node(l.src) = c BY <2>1, NodeIsUnique DEF ChunkInv, StageInv
  <2>3. QED BY <2>1, <2>2
<1>2. QED
  BY <1>1, ChunkInvariant, PTL
-----------------------------------------------------------------------------
(* What the text says has its edge. *)

\* What has been read of a file: a definition for each scope, and a reference
\* node for each use of a name that the file knows.
ReadFits(f) ==
  /\ stage[f] \in {"scopes", "imports", "defs"} => uses[f] = {}
  /\ stage[f] \in {"refs", "built"} => Len(defs[f]) = Len(scopes[f])
  /\ \A u \in uses[f] : u.name \in Known(f) =>
       \E at \in ScopesAt(f, u.row, u.row) : [name |-> u.name, origin |-> at] \in refs[f]

TextInv == \A f \in Paths : ReadFits(f)

\* The edge that the lookup of p needs is there, or it has none to find.
Done(p) ==
  LET row == LookupRow(p.file, p.chunk, p.at) IN
  \E s \in ScopesAt(p.file, row, row) :
    \/ ExportsFrom(p.file, s, p.use.name) = {}
    \/ \E to \in ExportsFrom(p.file, s, p.use.name) :
         \/ Chunks(to[1], to[2]) = {}
         \/ [src |-> Id(p.file, p.chunk), ref |-> p.use.name,
             dst |-> Id(to[1], Min(Chunks(to[1], to[2])))] \in links

\* The edges of the files joined so far are there, and a reference that has been
\* looked up has its own.
JoinedInv == \A f \in joined : EdgesOf(f) \subseteq edges
DoneInv   == \A p \in done : Done(p)

LEMMA ReadKeeps ==
  ASSUME TypeInv, TextInv, NEW f \in Paths, Insert(f)
  PROVE  TextInv'
<1>1. ReadFits(f) /\ DOMAIN stage = Paths /\ DOMAIN scopes = Paths /\ DOMAIN defs = Paths
      /\ DOMAIN imports = Paths /\ DOMAIN uses = Paths /\ DOMAIN refs = Paths
  BY DEF TextInv, TypeInv, ScopeInv
<1>2. ASSUME NEW g \in Paths,
             stage'[g] = stage[g], scopes'[g] = scopes[g], defs'[g] = defs[g],
             imports'[g] = imports[g], uses'[g] = uses[g], refs'[g] = refs[g]
      PROVE  ReadFits(g)'
  <2>1. ReadFits(g) BY DEF TextInv
  <2>2. Known(g)' = Known(g) /\ \A a, b : ScopesAt(g, a, b)' = ScopesAt(g, a, b)
    BY <1>2 DEF Known, ScopesAt, Span, Ids
  <2>3. QED BY <1>2, <2>1, <2>2 DEF ReadFits
<1>3. CASE \E s \in [from : Rows(f), to : Rows(f), name : Names \cup {NoName},
                     parent : Ids(f)] : InsertScope(f, s)
  <2>1. stage[f] = "scopes" /\ UNCHANGED <<stage, defs, imports, uses, refs>>
    BY <1>3 DEF InsertScope, Turn
  <2>2. \A g \in Paths : g # f => scopes'[g] = scopes[g]
    BY <1>3 DEF InsertScope
  <2>3. ReadFits(f)' BY <1>1, <2>1 DEF ReadFits
  <2>4. QED BY <1>2, <2>1, <2>2, <2>3 DEF TextInv
<1>4. CASE \E m \in Import : InsertImport(f, m)
  <2>1. PICK m \in Import : InsertImport(f, m)
    BY <1>4
  <2>2. stage[f] = "imports" /\ UNCHANGED <<stage, scopes, defs, uses, refs>>
    BY <2>1 DEF InsertImport, Turn
  <2>3. imports'[f] = imports[f] \cup {m} /\ \A g \in Paths : g # f => imports'[g] = imports[g]
    BY <1>1, <2>1 DEF InsertImport
  <2>4. ReadFits(f)' BY <1>1, <2>2, <2>3 DEF ReadFits
  <2>5. QED BY <1>2, <2>2, <2>3, <2>4 DEF TextInv
<1>5. CASE InsertDef(f)
  <2>1. stage[f] = "defs" /\ UNCHANGED <<stage, scopes, imports, uses, refs>>
    BY <1>5 DEF InsertDef, Turn
  <2>2. \A g \in Paths : g # f => defs'[g] = defs[g]
    BY <1>5 DEF InsertDef
  <2>3. ReadFits(f)' BY <1>1, <2>1 DEF ReadFits
  <2>4. QED BY <1>2, <2>1, <2>2, <2>3 DEF TextInv
<1>6. CASE \E u \in Use(f) : InsertRef(f, u)
  <2>1. PICK u \in Use(f) : InsertRef(f, u)
    BY <1>6
  <2>2. stage[f] = "refs" /\ UNCHANGED <<stage, scopes, defs, imports>>
    BY <2>1 DEF InsertRef, Turn
  <2>3. uses'[f] = uses[f] \cup {u} /\ \A g \in Paths : g # f => uses'[g] = uses[g]
    BY <1>1, <2>1 DEF InsertRef
  <2>4. Known(f)' = Known(f) /\ \A a, b : ScopesAt(f, a, b)' = ScopesAt(f, a, b)
    BY <2>2 DEF Known, ScopesAt, Span, Ids
  <2>5. /\ \A g \in Paths : g # f => refs'[g] = refs[g]
        /\ refs[f] \subseteq refs'[f]
        /\ u.name \in Known(f) =>
             \E at \in ScopesAt(f, u.row, u.row) : [name |-> u.name, origin |-> at] \in refs'[f]
    <3>1. CASE u.name \in Known(f)
      <4>1. PICK at \in ScopesAt(f, u.row, u.row) :
              refs' = [refs EXCEPT ![f] = @ \cup {[name |-> u.name, origin |-> at]}]
        BY <2>1, <3>1 DEF InsertRef
      <4>2. refs'[f] = refs[f] \cup {[name |-> u.name, origin |-> at]} BY <1>1, <4>1
      <4>3. QED BY <4>1, <4>2
    <3>2. CASE u.name \notin Known(f)
      BY <2>1, <3>2 DEF InsertRef
    <3>3. QED BY <3>1, <3>2
  <2>6. ReadFits(f)'
    <3>1. ASSUME NEW v \in uses'[f], v.name \in Known(f)
          PROVE  \E at \in ScopesAt(f, v.row, v.row) : [name |-> v.name, origin |-> at] \in refs'[f]
      <4>1. CASE v = u BY <2>5, <3>1, <4>1
      <4>2. CASE v # u
        <5>1. v \in uses[f] BY <2>3, <4>2
        <5>2. QED BY <1>1, <2>5, <3>1, <5>1 DEF ReadFits
      <4>3. QED BY <4>1, <4>2
    <3>2. QED BY <1>1, <2>2, <2>4, <3>1 DEF ReadFits
  <2>7. QED BY <1>2, <2>2, <2>3, <2>5, <2>6 DEF TextInv
<1>7. CASE EndScopes(f) \/ EndImports(f) \/ EndDefs(f) \/ EndRefs(f)
  <2>1. UNCHANGED <<scopes, defs, imports, uses, refs>>
    BY <1>7 DEF EndScopes, EndImports, EndDefs, EndRefs
  <2>2. \/ stage[f] = "scopes" /\ stage' = [stage EXCEPT ![f] = "imports"]
        \/ stage[f] = "imports" /\ stage' = [stage EXCEPT ![f] = "defs"]
        \/ /\ stage[f] = "defs" /\ Len(defs[f]) = Len(scopes[f])
           /\ stage' = [stage EXCEPT ![f] = "refs"]
        \/ stage[f] = "refs" /\ stage' = [stage EXCEPT ![f] = "built"]
    BY <1>7 DEF EndScopes, EndImports, EndDefs, EndRefs, Advance, Turn
  <2>3. \A g \in Paths : g # f => stage'[g] = stage[g]
    BY <1>1, <2>2
  <2>4. Known(f)' = Known(f) /\ \A a, b : ScopesAt(f, a, b)' = ScopesAt(f, a, b)
    BY <2>1 DEF Known, ScopesAt, Span, Ids
  <2>5. \/ stage[f] = "scopes" /\ stage'[f] = "imports"
        \/ stage[f] = "imports" /\ stage'[f] = "defs"
        \/ stage[f] = "defs" /\ Len(defs[f]) = Len(scopes[f]) /\ stage'[f] = "refs"
        \/ stage[f] = "refs" /\ stage'[f] = "built"
    BY <1>1, <2>2
  <2>6. ReadFits(f)' BY <1>1, <2>1, <2>4, <2>5 DEF ReadFits
  <2>7. QED BY <1>2, <2>1, <2>3, <2>6 DEF TextInv
<1>8. QED
  BY <1>3, <1>4, <1>5, <1>6, <1>7 DEF Insert

LEMMA TextInvariant == Spec => []TextInv
<1>1. Init => TextInv
  BY DEF Init, TextInv, ReadFits
<1>2. TypeInv /\ TextInv /\ [Next]_scopeVars => TextInv'
  <2> SUFFICES ASSUME TypeInv, TextInv, [Next]_scopeVars PROVE TextInv'
    OBVIOUS
  <2>1. CASE Next
    BY <2>1, ReadKeeps DEF Next
  <2>2. CASE UNCHANGED scopeVars
    <3>1. /\ \A f : Known(f)' = Known(f)
          /\ \A f, a, b : ScopesAt(f, a, b)' = ScopesAt(f, a, b)
      BY <2>2 DEF scopeVars, Known, ScopesAt, Span, Ids
    <3>2. UNCHANGED <<stage, scopes, defs, imports, uses, refs>>
      BY <2>2 DEF scopeVars
    <3>3. ASSUME NEW f \in Paths PROVE ReadFits(f)'
      <4>1. ReadFits(f) BY DEF TextInv
      <4>2. QED BY <3>1, <3>2, <4>1 DEF ReadFits
    <3>4. QED BY <3>3 DEF TextInv
  <2>3. QED
    BY <2>1, <2>2
<1>3. QED
  BY <1>1, <1>2, TypeInvariant, PTL DEF Spec

\* The edges of a file depend on the text alone.
LEMMA SameEdges ==
  ASSUME UNCHANGED scopeVars
  PROVE  Built' = Built /\ \A f : EdgesOf(f)' = EdgesOf(f)
<1>1. \A f, name : Importers(f, name)' = Importers(f, name)
  BY DEF scopeVars, Importers, Ids
<1>2. \A g : Exports(g)' = Exports(g)
  BY DEF scopeVars, Exports
<1>3. \A m : Exporters(m)' = Exporters(m)
  BY <1>2 DEF Exporters
<1>4. QED
  BY <1>1, <1>3 DEF scopeVars, Built, EdgesOf

\* What is looked up stays so.
LEMMA DoneStays ==
  ASSUME UNCHANGED <<scopeVars, chunks, edges>>, links \subseteq links'
  PROVE  \A p : Done(p) => Done(p)'
<1>1. \A f, a, b : ScopesAt(f, a, b)' = ScopesAt(f, a, b)
  BY DEF scopeVars, ScopesAt, Span, Ids
<1>2. \A f, s, name : ExportsFrom(f, s, name)' = ExportsFrom(f, s, name)
  BY DEF ExportsFrom
<1>3. \A f, i : RowsOf(f, i)' = RowsOf(f, i)
  BY DEF RowsOf
<1>4. \A g, t : Chunks(g, t)' = Chunks(g, t)
  BY <1>3 DEF scopeVars, Chunks
<1>5. ASSUME NEW p, Done(p) PROVE Done(p)'
  <2> DEFINE row == LookupRow(p.file, p.chunk, p.at)
  <2>1. row' = row BY DEF LookupRow
  <2>2. PICK s \in ScopesAt(p.file, row, row) :
          \/ ExportsFrom(p.file, s, p.use.name) = {}
          \/ \E to \in ExportsFrom(p.file, s, p.use.name) :
               \/ Chunks(to[1], to[2]) = {}
               \/ [src |-> Id(p.file, p.chunk), ref |-> p.use.name,
                   dst |-> Id(to[1], Min(Chunks(to[1], to[2])))] \in links
    BY <1>5 DEF Done
  <2>3. s \in ScopesAt(p.file, row, row)' BY <1>1, <2>1, <2>2
  <2>4. QED BY <1>2, <1>4, <2>2, <2>3 DEF Done
<1>6. QED
  BY <1>5

LEMMA LookUpDoes ==
  ASSUME NEW p, LookUp(p)
  PROVE  links \subseteq links' /\ Done(p)'
<1> DEFINE row == LookupRow(p.file, p.chunk, p.at)
           Link(to) == [src |-> Id(p.file, p.chunk), ref |-> p.use.name,
                        dst |-> Id(to[1], Min(Chunks(to[1], to[2])))]
<1>1. UNCHANGED <<scopeVars, chunks, edges>>
  BY DEF LookUp
<1>2. PICK s \in ScopesAt(p.file, row, row) :
        \/ ExportsFrom(p.file, s, p.use.name) = {} /\ links' = links
        \/ \E to \in ExportsFrom(p.file, s, p.use.name) :
             links' = links \cup IF Chunks(to[1], to[2]) = {} THEN {} ELSE {Link(to)}
  BY DEF LookUp
<1>3. links \subseteq links'
  BY <1>2
<1>4. /\ \A f, a, b : ScopesAt(f, a, b)' = ScopesAt(f, a, b)
      /\ \A f, t, name : ExportsFrom(f, t, name)' = ExportsFrom(f, t, name)
      /\ \A g, t : Chunks(g, t)' = Chunks(g, t)
  <2>1. \A f, i : RowsOf(f, i)' = RowsOf(f, i) BY <1>1 DEF RowsOf
  <2>2. QED BY <1>1, <2>1 DEF scopeVars, ScopesAt, Span, Ids, ExportsFrom, Chunks
<1>5. \/ ExportsFrom(p.file, s, p.use.name) = {}
      \/ \E to \in ExportsFrom(p.file, s, p.use.name) :
           Chunks(to[1], to[2]) = {} \/ Link(to) \in links'
  BY <1>2
<1>6. row' = row /\ s \in ScopesAt(p.file, row, row)'
  BY <1>1, <1>2, <1>4 DEF LookupRow
<1>7. Done(p)'
  BY <1>4, <1>5, <1>6 DEF Done
<1>8. QED
  BY <1>3, <1>7

LEMMA DoneInvariant == ChunkSpec => [](JoinedInv /\ DoneInv)
<1>1. ChunkInit => JoinedInv /\ DoneInv
  BY DEF ChunkInit, JoinedInv, DoneInv
<1>2. ChunkInv /\ JoinedInv /\ DoneInv /\ [ChunkNext]_chunkVars => JoinedInv' /\ DoneInv'
  <2> SUFFICES ASSUME ChunkInv, JoinedInv, DoneInv, [ChunkNext]_chunkVars
               PROVE  JoinedInv' /\ DoneInv'
    OBVIOUS
  <2>1. CASE Build
    <3>1. ~Built /\ Paths # {} /\ UNCHANGED <<joined, edges, chunks, done, links>>
      BY <2>1 DEF Build, Next, Built
    <3>2. joined = {} /\ joined # Paths BY <3>1 DEF ChunkInv, StageInv
    <3>3. done = {} BY <3>1, <3>2, NothingYet
    <3>4. QED BY <3>1, <3>2, <3>3 DEF JoinedInv, DoneInv
  <2>2. ASSUME NEW f \in Paths, Join(f) PROVE JoinedInv' /\ DoneInv'
    <3>1. /\ f \notin joined /\ joined' = joined \cup {f}
          /\ edges' = edges \cup EdgesOf(f) /\ UNCHANGED <<scopeVars, done>>
      BY <2>2 DEF Join
    <3>2. done = {} BY <3>1, NothingYet
    <3>3. JoinedInv' BY <3>1, SameEdges DEF JoinedInv
    <3>4. QED BY <3>1, <3>2, <3>3 DEF DoneInv
  <2>3. ASSUME NEW f \in Paths, AddChunks(f) PROVE JoinedInv' /\ DoneInv'
    <3>1. UNCHANGED <<scopeVars, joined, edges, done>> /\ f \notin DOMAIN chunks
      BY <2>3 DEF AddChunks
    <3>2. done = {} BY <3>1 DEF ChunkInv, StageInv, Complete
    <3>3. QED BY <3>1, <3>2, SameEdges DEF JoinedInv, DoneInv
  <2>4. CASE Resolve
    <3>1. PICK p : LookUp(p) BY <2>4 DEF Resolve
    <3>2. UNCHANGED <<scopeVars, chunks, joined, edges>> /\ done' = done \cup {p}
      BY <3>1 DEF LookUp
    <3>3. links \subseteq links' /\ Done(p)' BY <3>1, LookUpDoes
    <3>4. JoinedInv' BY <3>2, SameEdges DEF JoinedInv
    <3>5. ASSUME NEW q \in done' PROVE Done(q)'
      <4>1. CASE q = p BY <3>3, <4>1
      <4>2. CASE q \in done BY <3>2, <3>3, <4>2, DoneStays DEF DoneInv
      <4>3. QED BY <3>2, <4>1, <4>2
    <3>6. QED BY <3>4, <3>5 DEF DoneInv
  <2>5. CASE UNCHANGED chunkVars
    <3>1. UNCHANGED <<scopeVars, joined, edges, chunks, done, links>> BY <2>5 DEF chunkVars
    <3>2. QED BY <3>1, SameEdges, DoneStays DEF JoinedInv, DoneInv
  <2>6. QED BY <2>1, <2>2, <2>3, <2>4, <2>5 DEF ChunkNext
<1>3. QED
  BY <1>1, <1>2, ChunkInvariant, PTL DEF ChunkSpec

\* The greatest of a finite set of naturals bounds the others.
LEMMA MaxBounds ==
  ASSUME NEW n \in Nat, NEW S \in SUBSET (0..n), NEW x \in S
  PROVE  x <= Max(S)
<1> DEFINE T == {n + 1 - y : y \in S}
<1>1. T \in SUBSET (1..(n + 1)) /\ T # {}
  OBVIOUS
<1>2. PICK z \in S : \A y \in T : n + 1 - z <= y
  <2>1. Min(T) \in T /\ \A y \in T : Min(T) <= y
    <3> HIDE DEF T
    <3>1. n + 1 \in Nat OBVIOUS
    <3>2. QED BY <1>1, <3>1, MinIsIn
  <2>2. QED BY <2>1
<1>3. ASSUME NEW y \in S PROVE z >= y
  <2>1. n + 1 - y \in T OBVIOUS
  <2>2. n + 1 - z <= n + 1 - y BY <1>2, <2>1
  <2>3. QED BY <2>2
<1>4. Max(S) \in S /\ \A y \in S : Max(S) >= y
  BY <1>3 DEF Max
<1>5. QED
  BY <1>4

\* A scope that the text has right under the root has no parent in the graph,
\* and if the row of its name is found in it alone, it is exported.
LEMMA TopLevelIsExported ==
  ASSUME ScopeInv, NEW g \in Paths, NEW t \in DOMAIN scopes[g],
         Len(defs[g]) = Len(scopes[g]),
         scopes[g][t].name # NoName, TrueParent(g, t) = 0, ~DefinedElsewhere(g, t)
  PROVE  /\ t \in DOMAIN defs[g] /\ defs[g][t] \in Exports(g)
         /\ defs[g][t].name = scopes[g][t].name /\ defs[g][t].scope = t
<1> DEFINE r == scopes[g]
<1>1. r \in Seq(Row) /\ Nested(r, Root[g]) /\ Placed(r, Root[g], defs[g])
      /\ defs[g] \in Seq([name : Names \cup {NoName}, scope : Nat])
  BY DEF ScopeInv, Fits
<1>2. DOMAIN r = 1..Len(r) /\ Len(r) \in Nat /\ DOMAIN defs[g] = 1..Len(r)
  BY <1>1
<1>3. t \in 1..Len(r) /\ t \in DOMAIN defs[g]
  BY <1>2
<1>4. defs[g][t].name = r[t].name /\ defs[g][t].scope \in ScopesAt(g, r[t].from, r[t].from)
  BY <1>1, <1>3, ScopesAtIsPlacesIn DEF Placed
<1>5. defs[g][t].scope = t
  BY <1>4 DEF DefinedElsewhere
<1>6. r[t].parent = 0
  <2>1. SUFFICES ASSUME r[t].parent # 0 PROVE FALSE OBVIOUS
  <2>2. NestsIn(r[t], r, Root[g], t) BY <1>1, <1>3 DEF Nested
  <2>3. r[t].parent \in Nat BY <1>1, <1>3, RowFields
  <2>4. r[t].parent \in 1..(t - 1) /\ Inside(r[t], r[r[t].parent])
    BY <1>2, <1>3, <2>1, <2>2, <2>3 DEF NestsIn
  <2> DEFINE S == {0} \cup {j \in 1..(t - 1) : Inside(r[t], r[j])}
  <2>5. S \in SUBSET (0..t) /\ r[t].parent \in S BY <1>2, <1>3, <2>4
  <2>6. Max(S) = 0 BY DEF TrueParent
  <2> HIDE DEF S
  <2>7. r[t].parent <= 0
    <3>1. t \in Nat BY <1>2, <1>3
    <3> HIDE DEF r
    <3>2. r[t].parent <= Max(S) BY <2>5, <3>1, MaxBounds
    <3>3. QED BY <2>6, <3>2
  <2>8. QED BY <1>2, <1>3, <2>4, <2>7
<1>7. defs[g][t] \in Exports(g)
  <2>1. defs[g][t] \in Range(defs[g]) BY <1>3 DEF Range
  <2>2. QED BY <1>2, <1>3, <1>4, <1>5, <1>6, <2>1 DEF Exports
<1>8. QED
  BY <1>3, <1>4, <1>5, <1>7

\* If every edge that the lookup of a reference may take leads to the one scope
\* t of g, and a chunk holds an end of that, the reference has its link.
LEMMA DoneIsLinked ==
  ASSUME StageInv, NEW p, Done(p), NEW s,
         ScopesAt(p.file, LookupRow(p.file, p.chunk, p.at), LookupRow(p.file, p.chunk, p.at)) = {s},
         NEW g \in DOMAIN chunks, NEW t, ExportsFrom(p.file, s, p.use.name) = {<<g, t>>},
         Chunks(g, t) # {}
  PROVE  \E d \in DOMAIN chunks[g] :
           /\ HasEnd(g, d, t)
           /\ [src |-> Id(p.file, p.chunk), ref |-> p.use.name, dst |-> Id(g, d)] \in links
<1>1. PICK to \in ExportsFrom(p.file, s, p.use.name) :
        \/ Chunks(to[1], to[2]) = {}
        \/ [src |-> Id(p.file, p.chunk), ref |-> p.use.name,
            dst |-> Id(to[1], Min(Chunks(to[1], to[2])))] \in links
  BY DEF Done
<1>2. to[1] = g /\ to[2] = t
  <2>1. to = <<g, t>> OBVIOUS
  <2>2. QED BY <2>1
<1>3. [src |-> Id(p.file, p.chunk), ref |-> p.use.name, dst |-> Id(g, Min(Chunks(g, t)))] \in links
  BY <1>1, <1>2
<1>4. Chunks(g, t) \in SUBSET (1..MaxChunks[g]) /\ MaxChunks[g] \in Nat
  BY ChunkConstants DEF Chunks, StageInv
<1>5. Min(Chunks(g, t)) \in Chunks(g, t)
  BY <1>4, MinIsIn
<1>6. QED
  BY <1>3, <1>5 DEF Chunks, HasEnd

\* Once the chunk graph is complete, a reference in a chunk's text to a class or
\* function that its file imports and another file has at its top level has its
\* edge, unless no scope is found both on its row and on the row where it is
\* looked up, the name is imported or defined twice, the row of the name belongs
\* to another scope or no chunk holds an end of the definition
\* (chunk_graph.py:124-169, repo_graph.py:70-110, epic_split.py:400-486).
THEOREM DependenciesAreLinked == ChunkSpec => []MissingLinksExplained
<1>1. ScopeInv /\ TypeInv /\ TextInv /\ ChunkInv /\ JoinedInv /\ DoneInv => MissingLinksExplained
  <2> SUFFICES ASSUME ScopeInv, TypeInv, TextInv, ChunkInv, JoinedInv, DoneInv,
                      Complete, References \subseteq done,
                      NEW c \in AllChunks, NEW name \in Names, NEW g \in Paths,
                      NEW t \in DOMAIN scopes[g],
                      IsNode(c[1], c[2]), Depends(c[1], c[2], name, g, t),
                      ~UseMoves(c[1], c[2], name), ~ImportedTwice(c[1], name),
                      ~DefinedElsewhere(g, t), ~DefinedTwice(g, t),
                      NEW h \in DOMAIN chunks[g], HasEnd(g, h, t)
               PROVE  \E d \in DOMAIN chunks[g] :
                        HasEnd(g, d, t)
                        /\ [src |-> Id(c[1], c[2]), ref |-> name, dst |-> Id(g, d)] \in links
    BY DEF MissingLinksExplained
  <2>0. PICK f \in DOMAIN chunks : c \in {<<f, j>> : j \in DOMAIN chunks[f]}
    BY DEF AllChunks
  <2>1. PICK i \in DOMAIN chunks[f] : c = <<f, i>>
    BY <2>0
  <2>2. c[1] = f /\ c[2] = i /\ f \in Paths /\ DOMAIN chunks = Paths
    BY <2>1 DEF Complete
  <2> DEFINE At(x) == LookupRow(f, i, x.at)
  <2>3. PICK x \in Mentions(f, i, name), s \in Ids(f) :
          ScopesAt(f, x.use.row, x.use.row) = {s} /\ ScopesAt(f, At(x), At(x)) = {s}
    BY <2>2 DEF UseMoves
  <2>4. PICK m \in imports[f] : m.name = name /\ m.module \notin Foreign
                               /\ Matches(m.module) # {} /\ Matched(m.module) = g
    BY <2>2 DEF Depends
  <2>5. joined = Paths /\ Built
    <3>1. joined = Paths BY <2>0 DEF ChunkInv, StageInv
    <3>2. QED BY <2>2, <3>1 DEF ChunkInv, StageInv
  <2>6. Len(defs[g]) = Len(scopes[g]) /\ ReadFits(f)
    BY <2>2, <2>5 DEF Built, TextInv, ReadFits
  <2>7. x.use \in uses[f] /\ x.use.name = name
    BY <2>2, <2>3 DEF Mentions, ChunkInv, StageInv
  <2>8. s \in Importers(f, name)
    <3>1. name \in Known(f) BY <2>4 DEF Known
    <3>2. \E at \in ScopesAt(f, x.use.row, x.use.row) : [name |-> x.use.name, origin |-> at] \in refs[f]
      BY <2>6, <2>7, <3>1 DEF ReadFits
    <3>3. [name |-> name, origin |-> s] \in refs[f] BY <2>3, <2>7, <3>2
    <3>4. QED BY <2>3, <3>3 DEF Importers
  <2>9. name # NoName /\ scopes[g][t].name = name /\ TrueParent(g, t) = 0
    BY <2>2, ScopeConstants DEF Depends
  <2>10. /\ t \in DOMAIN defs[g] /\ defs[g][t] \in Exports(g)
         /\ defs[g][t].name = name /\ defs[g][t].scope = t
    BY <2>6, <2>9, TopLevelIsExported
  <2>11. <<g, t>> \in Exporters(m)
    BY <2>4, <2>10 DEF Exporters
  <2> DEFINE e == [from |-> <<f, s>>, to |-> <<g, t>>, ref |-> name]
  <2>12. e \in edges
    <3>1. e \in [from : {<<f, y>> : y \in Importers(f, m.name)}, to : Exporters(m), ref : {m.name}]
      BY <2>4, <2>8, <2>11
    <3>2. e \in EdgesOf(f) BY <3>1 DEF EdgesOf
    <3>3. QED BY <2>2, <2>5, <3>2 DEF JoinedInv
  <2>13. <<g, t>> \in ExportsFrom(f, s, name)
    BY <2>12 DEF ExportsFrom
  <2>14. ASSUME NEW to \in ExportsFrom(f, s, name) PROVE to = <<g, t>>
    <3>1. PICK y \in edges : y.from = <<f, s>> /\ y.ref = name /\ y.to = to
      BY DEF ExportsFrom
    <3>2. EdgeFits(y) /\ y.from[1] = f BY <3>1 DEF ChunkInv
    <3>3. PICK n \in imports[f] :
            /\ n.name = name
            /\ \E d \in DOMAIN defs[Matched(n.module)] :
                 /\ defs[Matched(n.module)][d] \in Exports(Matched(n.module))
                 /\ defs[Matched(n.module)][d].name = n.name
                 /\ to = <<Matched(n.module), defs[Matched(n.module)][d].scope>>
      BY <3>1, <3>2 DEF EdgeFits
    <3>4. n = m BY <2>2, <2>4, <3>3 DEF ImportedTwice
    <3>5. PICK d \in DOMAIN defs[g] : /\ defs[g][d] \in Exports(g) /\ defs[g][d].name = name
                                     /\ to = <<g, defs[g][d].scope>>
      BY <2>4, <3>3, <3>4
    <3>6. d \in DOMAIN scopes[g] /\ scopes[g][d].name = name
      BY <3>5, ExportedIsFound
    <3>7. d = t BY <2>9, <3>6 DEF DefinedTwice
    <3>8. QED BY <2>10, <3>5, <3>7
  <2>15. ExportsFrom(f, s, name) = {<<g, t>>}
    BY <2>13, <2>14
  <2>16. h \in Chunks(g, t)
    BY DEF Chunks, HasEnd
  <2> DEFINE p == [file |-> c[1], chunk |-> c[2], at |-> x.at, use |-> x.use]
  <2>17. Done(p)
    <3>1. x \in chunks[c[1]][c[2]].shows BY <2>2, <2>3 DEF Mentions
    <3>2. p \in References BY <3>1 DEF References
    <3>3. QED BY <3>2 DEF DoneInv
  <2>18. p.file = f /\ p.chunk = i /\ p.at = x.at /\ p.use = x.use
    BY <2>2
  <2> HIDE DEF p
  <2>19. QED
    BY <2>2, <2>3, <2>7, <2>15, <2>16, <2>17, <2>18, DoneIsLinked DEF ChunkInv
<1>2. QED
  BY <1>1, ScopeInvariant, TypeInvariant, TextInvariant, ChunkInvariant, DoneInvariant,
     ChunksBuildScopes, PTL
=============================================================================
