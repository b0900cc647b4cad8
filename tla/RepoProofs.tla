----------------------------- MODULE RepoProofs -----------------------------
(* Theorems about RepoLifecycle, for any users, repositories and requests.  *)
EXTENDS RepoLifecycle, TLAPS

\* A repository whose requests follow each other has a directory of its own.
PathsDiffer ==
  \A m, n \in Repos : PathOf[m] = PathOf[n] /\ PathOf[m] \notin Overlapping => m = n

\* A request that has arrived has a user, a repository and a path.
LEMMA AskedFacts ==
  ASSUME TypeOK, NEW c \in Requests, req[c] # NoRequest
  PROVE  UserOf(c) \in Users /\ RepoOf(c) \in Repos /\ PathFor(c) \in Paths
BY RepoAssumption DEF TypeOK, Asked, UserOf, RepoOf, PathFor

\* What every step has to keep, apart from the types.
Kept ==
  OneAtATime /\ PathIsFree /\ OwnFiles /\ FilesBelongToRow /\ OneCarefulRow /\ RowsAreDone

\* An arrival leaves the requests of others alone.
LEMMA ArrivalFacts ==
  ASSUME TypeOK,
         NEW c \in Requests, NEW kind \in {"create", "delete"}, NEW u \in Users, NEW n \in Repos,
         Arrive(c, kind, u, n)
  PROVE  /\ req' \in [Requests -> Asked \cup {NoRequest}]
         /\ req'[c].repo = n /\ req'[c] # NoRequest
         /\ \A d \in Requests \ {c} : req'[d] = req[d]
         /\ pc[c] = "new"
<1>1. req' = [req EXCEPT ![c] = [kind |-> kind, user |-> u, repo |-> n]]
  BY DEF Arrive
<1>2. [kind |-> kind, user |-> u, repo |-> n] \in Asked
  BY DEF Asked
<1>3. [kind |-> kind, user |-> u, repo |-> n] # NoRequest
  BY <1>2, RepoAssumption DEF Asked
<1>4. pc[c] = "new"
  BY DEF Arrive
<1>5. QED
  BY <1>1, <1>2, <1>3, <1>4 DEF TypeOK

\* It keeps the types if what it assigns has them.
LEMMA ArrivalTypes ==
  ASSUME TypeOK,
         NEW c \in Requests, NEW kind \in {"create", "delete"}, NEW u \in Users, NEW n \in Repos,
         Arrive(c, kind, u, n),
         NEW place \in {"done", "join", "clone", "rmclone"},
         pc' = [pc EXCEPT ![c] = place],
         rows' \subseteq rows, UNCHANGED <<accounts, clone, graph>>,
         stray' \subseteq Paths,
         members' \in [Requests -> SUBSET accounts],
         found' \in [Requests -> Requests \cup {NoRow}],
         answer' \in [Requests -> {"none", "ok", "error", "missing"}]
  PROVE  TypeOK'
<1>1. /\ req' \in [Requests -> Asked \cup {NoRequest}]
      /\ req'[c] # NoRequest
      /\ \A d \in Requests \ {c} : req'[d] = req[d]
  BY ONLY ArrivalFacts, TypeOK, Arrive(c, kind, u, n), c \in Requests,
          kind \in {"create", "delete"}, u \in Users, n \in Repos
<1>2. pc' \in [Requests -> {"new", "join", "clone", "cloning", "index", "save", "commit",
                         "cleanup", "rmclone", "rmgraph", "done", "lost"}]
  BY DEF TypeOK
<1>3. \A d \in Requests : pc'[d] # "new" => req'[d] # NoRequest
  BY <1>1 DEF TypeOK
<1>4. \A r \in rows' : req'[r] # NoRequest
  BY <1>1 DEF TypeOK
<1>5. QED
  BY <1>1, <1>2, <1>3, <1>4 DEF TypeOK

\* An arrival that leaves the disk alone, inserts no row and starts to index
\* or to remove files only on a path without a row keeps the invariant.
LEMMA ArrivalKeeps ==
  ASSUME RepoInv,
         NEW c \in Requests, NEW kind \in {"create", "delete"}, NEW u \in Users, NEW n \in Repos,
         Arrive(c, kind, u, n),
         NEW place \in {"done", "join", "clone", "rmclone"},
         pc' = [pc EXCEPT ![c] = place],
         rows' \subseteq rows, UNCHANGED <<clone, graph>>,
         place \in {"clone", "rmclone"} /\ PathOf[n] \notin Overlapping =>
           \A r \in rows' : RepoOf(r) # n,
         PathsDiffer
  PROVE  Kept'
<1>0. TypeOK BY DEF RepoInv
<1>1. /\ req'[c].repo = n
      /\ \A d \in Requests \ {c} : req'[d] = req[d]
      /\ \A d \in Requests : InFlight(d) =>
           d # c /\ (PathOf[n] \notin Overlapping => PathFor(d) # PathOf[n])
      /\ pc[c] = "new"
  <2>1. /\ req'[c].repo = n /\ pc[c] = "new"
        /\ \A d \in Requests \ {c} : req'[d] = req[d]
    BY <1>0 DEF Arrive, TypeOK
  <2>2. \A d \in Requests : InFlight(d) =>
          d # c /\ (PathOf[n] \notin Overlapping => PathFor(d) # PathOf[n])
    BY DEF Arrive, MayArrive, InFlight
  <2>3. QED BY <2>1, <2>2
<1>2. pc \in [Requests -> {"new", "join", "clone", "cloning", "index", "save", "commit",
                         "cleanup", "rmclone", "rmgraph", "done", "lost"}]
  BY DEF RepoInv, TypeOK
<1>3. \A d \in Requests \ {c} : /\ pc'[d] = pc[d]
                                /\ PathFor(d)' = PathFor(d) /\ RepoOf(d)' = RepoOf(d)
                                /\ Alone(d)' <=> Alone(d)
  BY <1>1, <1>2 DEF PathFor, RepoOf, Alone
<1>4. /\ pc'[c] = place /\ PathFor(c)' = PathOf[n] /\ RepoOf(c)' = n
      /\ Alone(c)' <=> PathOf[n] \notin Overlapping
  BY <1>1, <1>2 DEF PathFor, RepoOf, Alone
<1>5. rows \subseteq Requests \ {c}
  BY <1>1 DEF RepoInv, TypeOK, RowsAreDone
<1>6. OneAtATime'
  <2>1. ASSUME NEW d \in Requests, NEW e \in Requests,
               Alone(d)', InFlight(d)', InFlight(e)', PathFor(d)' = PathFor(e)'
        PROVE  d = e
    <3>1. Alone(e)' BY <2>1 DEF Alone
    <3>2. CASE d # c /\ e # c
      BY <1>3, <2>1, <3>2 DEF OneAtATime, InFlight, RepoInv
    <3>3. CASE d = c /\ e # c
      BY <1>1, <1>3, <1>4, <2>1, <3>3 DEF InFlight
    <3>4. CASE d # c /\ e = c
      BY <1>1, <1>3, <1>4, <2>1, <3>1, <3>4 DEF InFlight
    <3>5. QED BY <3>2, <3>3, <3>4
  <2>2. QED BY <2>1 DEF OneAtATime
<1>7. PathIsFree'
  <2>1. ASSUME NEW d \in Requests, Alone(d)', pc'[d] \in Indexing \cup Removing, NEW r \in rows'
        PROVE  PathFor(r)' # PathFor(d)'
    <3>1. PathFor(r)' = PathFor(r) /\ r \in Requests /\ r \in rows
      BY <1>3, <1>5
    <3>2. CASE d # c
      BY <1>3, <2>1, <3>1, <3>2 DEF RepoInv, PathIsFree
    <3>3. CASE d = c
      <4>1. RepoOf(r) # n /\ RepoOf(r) \in Repos /\ PathOf[n] \notin Overlapping
        BY <1>4, <2>1, <3>1, <3>3, AskedFacts DEF RepoInv, TypeOK, Indexing, Removing
      <4>2. PathFor(r) # PathOf[n]
        BY <4>1 DEF PathsDiffer, PathFor
      <4>3. QED
        BY <1>4, <3>1, <3>3, <4>2
    <3>4. QED BY <3>2, <3>3
  <2>2. QED BY <2>1 DEF PathIsFree
<1>8. OwnFiles'
  BY <1>3, <1>4 DEF OwnFiles, RepoInv
<1>9. FilesBelongToRow' /\ OneCarefulRow' /\ RowsAreDone'
  BY <1>3, <1>5 DEF FilesBelongToRow, OneCarefulRow, RowsAreDone, RepoInv, Careful
<1>10. QED
  BY <1>6, <1>7, <1>8, <1>9 DEF Kept

\* A request at work on a path without rows moves on and changes the disk
\* only there.
LEMMA WorkKeeps ==
  ASSUME RepoInv, NEW c \in Requests, pc[c] \in Indexing \cup Removing,
         NEW place \in Indexing \cup Removing \cup {"done"},
         pc' = [pc EXCEPT ![c] = place],
         UNCHANGED <<rows, req>>,
         \A p \in Paths \ {PathFor(c)} : clone'[p] = clone[p] /\ graph'[p] = graph[p],
         Alone(c) /\ place \in {"index", "save", "commit"} => clone'[PathFor(c)] = <<"full", c>>,
         Alone(c) /\ place = "commit" => graph'[PathFor(c)] = <<"full", c>>
  PROVE  Kept'
<1>1. pc'[c] = place /\ \A d \in Requests \ {c} : pc'[d] = pc[d]
  BY DEF RepoInv, TypeOK
<1>2. \A d \in Requests : PathFor(d)' = PathFor(d) /\ RepoOf(d)' = RepoOf(d)
  BY DEF PathFor, RepoOf
<1>3. \A d \in Requests : pc[d] # "new" => PathFor(d) \in Paths
  BY AskedFacts DEF RepoInv, TypeOK
<1>4. InFlight(c)
  BY DEF InFlight, Indexing, Removing
<1>5. \A d \in Requests \ {c} : Alone(d) /\ InFlight(d) =>
        PathFor(d) # PathFor(c) /\ PathFor(d) \in Paths
  BY <1>3, <1>4 DEF RepoInv, OneAtATime, InFlight
<1>6. \A r \in rows : /\ r \in Requests /\ r # c /\ PathFor(r) \in Paths
                      /\ Alone(r) \/ Alone(c) => PathFor(r) # PathFor(c)
  <2>1. \A r \in rows : r \in Requests /\ r # c /\ PathFor(r) \in Paths
    BY <1>3, <1>4 DEF RepoInv, TypeOK, RowsAreDone, InFlight
  <2>2. \A r \in rows : Alone(c) => PathFor(r) # PathFor(c)
    BY DEF RepoInv, PathIsFree
  <2>3. QED BY <2>1, <2>2 DEF Alone
<1>7. OneAtATime'
  BY <1>1, <1>2, <1>4 DEF OneAtATime, InFlight, RepoInv, Alone
<1>8. PathIsFree'
  BY <1>1, <1>2, <1>6 DEF PathIsFree, RepoInv, Alone
<1>9. OwnFiles'
  <2>1. ASSUME NEW d \in Requests, d # c, Alone(d), pc'[d] \in {"index", "save", "commit"}
        PROVE  clone'[PathFor(d)] = clone[PathFor(d)] /\ graph'[PathFor(d)] = graph[PathFor(d)]
    BY <1>1, <1>5, <2>1 DEF InFlight
  <2>2. QED BY <1>1, <1>2, <2>1 DEF OwnFiles, RepoInv, Alone
<1>10. FilesBelongToRow' /\ OneCarefulRow' /\ RowsAreDone'
  BY <1>1, <1>2, <1>6 DEF FilesBelongToRow, OneCarefulRow, RowsAreDone, RepoInv, Careful, Alone
<1>11. QED
  BY <1>7, <1>8, <1>9, <1>10 DEF Kept

\* What an arriving creation or deletion assigns, for the lemmas above.
LEMMA ArrivalShape ==
  ASSUME NEW c \in Requests, Lookup(c) \/ Delete(c)
  PROVE  \E kind \in {"create", "delete"}, u \in Users, n \in Repos,
            place \in {"done", "join", "clone", "rmclone"} :
           /\ Arrive(c, kind, u, n)
           /\ pc' = [pc EXCEPT ![c] = place]
           /\ \/ answer' = answer
              \/ \E what \in {"ok", "error", "missing"} : answer' = [answer EXCEPT ![c] = what]
           /\ UNCHANGED <<accounts, clone, graph>>
           /\ stray' = stray \/ stray' = stray \cup {PathOf[n]}
           /\ \/ UNCHANGED <<rows, members, found>>
              \/ /\ UNCHANGED <<rows, members>>
                 /\ \E r \in rows : found' = [found EXCEPT ![c] = r]
              \/ /\ UNCHANGED found
                 /\ \E r \in rows : rows' = rows \ {r} /\ members' = [members EXCEPT ![r] = {}]
<1>1. CASE LookupRaises(c)
  BY <1>1 DEF LookupRaises, Reply
<1>2. CASE LookupFinds(c)
  BY <1>2 DEF LookupFinds, Reply, Goto
<1>3. CASE LookupMisses(c)
  BY <1>3 DEF LookupMisses, Reply, Goto
<1>4. CASE DeleteRaises(c)
  BY <1>4 DEF DeleteRaises, Reply
<1>5. CASE DeleteRow(c)
  BY <1>5 DEF DeleteRow, Reply, Goto
<1>6. QED
  BY <1>1, <1>2, <1>3, <1>4, <1>5 DEF Lookup, Delete

\* A removal leaves no file or what was there in part.
LEMMA RemovalTypes ==
  ASSUME TypeOK, NEW p \in Paths, Removes(p) \/ RemovesInPart(p)
  PROVE  /\ clone' \in [Paths -> {Absent} \cup ({"partial", "full"} \X Requests)]
         /\ stray' \subseteq Paths
         /\ \A q \in Paths \ {p} : clone'[q] = clone[q]
<1>1. CASE Removes(p)
  BY <1>1 DEF Removes, TypeOK
<1>2. CASE RemovesInPart(p)
  <2>1. clone[p] \in {"partial", "full"} \X Requests
    BY <1>2 DEF RemovesInPart, TypeOK
  <2>2. <<"partial", clone[p][2]>> \in {"partial", "full"} \X Requests
    BY <2>1
  <2>3. QED BY <1>2, <2>2 DEF RemovesInPart, TypeOK
<1>3. QED BY <1>1, <1>2

LEMMA TypeStep ==
  ASSUME TypeOK, [Next]_vars
  PROVE  TypeOK'
<1>1. ASSUME NEW c \in Requests, Lookup(c) \/ Delete(c) PROVE TypeOK'
  <2>1. PICK kind \in {"create", "delete"}, u \in Users, n \in Repos,
             place \in {"done", "join", "clone", "rmclone"} :
          /\ Arrive(c, kind, u, n)
          /\ pc' = [pc EXCEPT ![c] = place]
          /\ \/ answer' = answer
             \/ \E what \in {"ok", "error", "missing"} : answer' = [answer EXCEPT ![c] = what]
          /\ UNCHANGED <<accounts, clone, graph>>
          /\ stray' = stray \/ stray' = stray \cup {PathOf[n]}
          /\ \/ UNCHANGED <<rows, members, found>>
             \/ /\ UNCHANGED <<rows, members>>
                /\ \E r \in rows : found' = [found EXCEPT ![c] = r]
             \/ /\ UNCHANGED found
                /\ \E r \in rows : rows' = rows \ {r} /\ members' = [members EXCEPT ![r] = {}]
    BY <1>1, ArrivalShape
  <2>2. answer' \in [Requests -> {"none", "ok", "error", "missing"}]
    BY <2>1 DEF TypeOK
  <2>3. /\ rows' \subseteq rows
        /\ members' \in [Requests -> SUBSET accounts]
        /\ found' \in [Requests -> Requests \cup {NoRow}]
        /\ stray' \subseteq Paths
    BY <2>1, RepoAssumption DEF TypeOK
  <2>4. QED BY <2>1, <2>2, <2>3, ArrivalTypes
<1>2. ASSUME NEW c \in Requests, Proceed(c) PROVE TypeOK'
  <2>0. pc[c] # "new" => PathFor(c) \in Paths /\ UserOf(c) \in Users
    BY AskedFacts DEF TypeOK
  <2> USE <2>0 DEF TypeOK, Goto, Reply
  <2>1. CASE Join(c)
    <3>1. UNCHANGED <<accounts, rows, clone, graph, req, found, stray>> /\ pc[c] = "join"
      BY <2>1 DEF Join
    <3>2. pc' = [pc EXCEPT ![c] = "done"]
      BY ONLY <2>1 DEF Join, Reply
    <3>3. members' \in [Requests -> SUBSET accounts']
      <4>1. CASE UNCHANGED members BY <3>1, <4>1
      <4>2. CASE /\ found[c] \in rows /\ UserOf(c) \in accounts
                 /\ members' = [members EXCEPT ![found[c]] = @ \cup {UserOf(c)}]
        BY <3>1, <4>2
      <4>3. QED BY ONLY <2>1, <4>1, <4>2 DEF Join
    <3>4. answer' \in [Requests -> {"none", "ok", "error", "missing"}]
      <4>1. PICK what \in {"ok", "error"} : answer' = [answer EXCEPT ![c] = what]
        BY ONLY <2>1 DEF Join, Reply
      <4>2. QED BY <4>1
    <3>5. QED BY <3>1, <3>2, <3>3, <3>4
  <2>2. CASE BeginClone(c)
    <3>1. PICK place \in {"cloning", "cleanup"}, what \in {clone[PathFor(c)], <<"partial", c>>} :
            /\ pc' = [pc EXCEPT ![c] = place]
            /\ clone' = [clone EXCEPT ![PathFor(c)] = what]
      BY <2>2 DEF BeginClone
    <3>2. pc[c] = "clone" /\ UNCHANGED <<accounts, rows, members, graph, req, found, answer, stray>>
      BY <2>2 DEF BeginClone
    <3>3. QED BY <3>1, <3>2
  <2>3. CASE EndClone(c)
    BY <2>3 DEF EndClone
  <2>4. CASE Index(c)
    BY <2>4 DEF Index
  <2>5. CASE SaveGraph(c)
    BY <2>5 DEF SaveGraph
  <2>6. CASE Commit(c)
    BY <2>6 DEF Commit
  <2>7. CASE CleanUp(c)
    BY <2>7, RemovalTypes DEF CleanUp
  <2>8. CASE RemoveClone(c)
    <3>1. /\ clone' \in [Paths -> {Absent} \cup ({"partial", "full"} \X Requests)]
          /\ stray' \subseteq Paths
      BY <2>8, RemovalTypes DEF RemoveClone
    <3>2. /\ pc[c] = "rmclone" /\ UNCHANGED <<accounts, rows, members, graph, req, found>>
          /\ \/ pc' = [pc EXCEPT ![c] = "rmgraph"] /\ answer' = answer
             \/ pc' = [pc EXCEPT ![c] = "done"] /\ answer' = [answer EXCEPT ![c] = "error"]
      BY <2>8 DEF RemoveClone
    <3>3. QED BY <3>1, <3>2
  <2>9. CASE RemoveGraph(c)
    BY <2>9 DEF RemoveGraph
  <2>10. QED
    BY <1>2, <2>1, <2>2, <2>3, <2>4, <2>5, <2>6, <2>7, <2>8, <2>9 DEF Proceed
<1>3. ASSUME NEW u \in Users, DeleteUser(u) PROVE TypeOK'
  BY <1>3 DEF DeleteUser, TypeOK
<1>4. CASE Restart
  <2>1. pc' \in [Requests -> {"new", "join", "clone", "cloning", "index", "save", "commit",
                         "cleanup", "rmclone", "rmgraph", "done", "lost"}]
    BY <1>4 DEF Restart, TypeOK
  <2>2. \A c \in Requests : pc'[c] # "new" => pc[c] # "new"
    BY <1>4 DEF Restart, InFlight
  <2>3. {PathFor(c) : c \in {d \in Requests : pc[d] \in Holding}} \subseteq Paths
    <3>1. \A d \in Requests : pc[d] \in Holding => PathFor(d) \in Paths
      BY AskedFacts DEF TypeOK, Holding
    <3>2. QED BY <3>1
  <2>4. QED BY <1>4, <2>1, <2>2, <2>3 DEF Restart, TypeOK
<1>5. CASE UNCHANGED vars
  BY <1>5 DEF vars, TypeOK
<1>6. QED
  BY <1>1, <1>2, <1>3, <1>4, <1>5 DEF Next

LEMMA RepoInvStep ==
  ASSUME PathsDiffer, RepoInv, [Next]_vars
  PROVE  RepoInv'
<1>0. TypeOK /\ Kept
  BY DEF RepoInv, Kept
<1>1. ASSUME NEW c \in Requests, Lookup(c) PROVE Kept'
  <2>1. CASE LookupRaises(c)
    BY <2>1, ArrivalKeeps DEF LookupRaises, Reply
  <2>2. CASE LookupFinds(c)
    BY <2>2, ArrivalKeeps DEF LookupFinds, Reply, Goto
  <2>3. CASE LookupMisses(c)
    BY <2>3, ArrivalKeeps DEF LookupMisses, Reply, Goto, RowsOf
  <2>4. QED BY <1>1, <2>1, <2>2, <2>3 DEF Lookup
<1>2. ASSUME NEW c \in Requests, Delete(c) PROVE Kept'
  <2>1. CASE DeleteRaises(c)
    BY <2>1, ArrivalKeeps DEF DeleteRaises, Reply
  <2>2. CASE DeleteRow(c)
    <3>1. PICK u \in Users, n \in Repos, r \in rows, place \in {"rmclone", "done"} :
            /\ Arrive(c, "delete", u, n)
            /\ Finds(n, u, r)
            /\ rows' = rows \ {r}
            /\ pc' = [pc EXCEPT ![c] = place]
            /\ UNCHANGED <<clone, graph>>
      BY <2>2 DEF DeleteRow, Reply, Goto
    <3>2. RepoOf(r) = n
      BY <3>1 DEF Finds, OwnRowsOf, RowsOf
    <3>3. PathOf[n] \notin Overlapping => \A s \in rows' : RepoOf(s) # n
      BY <1>0, <3>1, <3>2 DEF Kept, OneCarefulRow, Careful, Alone, PathFor
    <3>4. QED BY <3>1, <3>3, ArrivalKeeps
  <2>3. QED BY <1>2, <2>1, <2>2 DEF Delete
<1>3. ASSUME NEW c \in Requests, Proceed(c) PROVE Kept'
  <2>0. pc[c] # "new" => PathFor(c) \in Paths /\ UserOf(c) \in Users /\ RepoOf(c) \in Repos
    BY <1>0, AskedFacts DEF TypeOK
  <2> USE <1>0, <2>0 DEF TypeOK, Goto, Reply, Indexing, Removing
  <2>1. CASE Join(c)
    <3>1. UNCHANGED <<accounts, rows, clone, graph, req, found>> /\ pc[c] = "join"
      BY <2>1 DEF Join
    <3>2. pc' = [pc EXCEPT ![c] = "done"]
      BY ONLY <2>1 DEF Join, Reply
    <3>3. OneAtATime' /\ PathIsFree'
      BY <3>1, <3>2 DEF Kept, OneAtATime, PathIsFree, InFlight, PathFor, RepoOf, Alone
    <3>4. OwnFiles' /\ FilesBelongToRow'
      BY <3>1, <3>2 DEF Kept, OwnFiles, FilesBelongToRow, PathFor, RepoOf, Careful, Alone
    <3>5. OneCarefulRow' /\ RowsAreDone'
      BY <3>1, <3>2 DEF Kept, OneCarefulRow, RowsAreDone, RepoOf, PathFor, Careful, Alone
    <3>6. QED BY ONLY <3>3, <3>4, <3>5 DEF Kept
  <2>2. CASE BeginClone(c)
    <3>1. PICK place \in {"cloning", "cleanup"}, what \in {clone[PathFor(c)], <<"partial", c>>} :
            /\ pc' = [pc EXCEPT ![c] = place]
            /\ clone' = [clone EXCEPT ![PathFor(c)] = what]
      BY <2>2 DEF BeginClone
    <3>2. pc[c] = "clone" /\ UNCHANGED <<rows, graph, req>>
      BY <2>2 DEF BeginClone
    <3>3. QED BY <3>1, <3>2, WorkKeeps
  <2>3. CASE EndClone(c)
    <3>1. pc[c] = "cloning" /\ UNCHANGED <<rows, graph, req>>
      BY <2>3 DEF EndClone
    <3>2. CASE clone' = [clone EXCEPT ![PathFor(c)] = <<"full", c>>] /\ pc' = [pc EXCEPT ![c] = "index"]
      BY <3>1, <3>2, WorkKeeps
    <3>3. CASE UNCHANGED clone /\ pc' = [pc EXCEPT ![c] = "cleanup"]
      BY <3>1, <3>3, WorkKeeps
    <3>4. QED BY <2>3, <3>2, <3>3 DEF EndClone
  <2>4. CASE Index(c)
    <3>1. PICK place \in {"save", "cleanup"} : pc' = [pc EXCEPT ![c] = place]
      BY <2>4 DEF Index
    <3>2. pc[c] = "index" /\ UNCHANGED <<rows, clone, graph, req>>
      BY <2>4 DEF Index
    <3>3. QED BY <3>1, <3>2, WorkKeeps DEF Kept, OwnFiles
  <2>5. CASE SaveGraph(c)
    <3>1. PICK what \in {"partial", "full"}, place \in {"commit", "cleanup"} :
            /\ pc' = [pc EXCEPT ![c] = place]
            /\ graph' = [graph EXCEPT ![PathFor(c)] = <<what, c>>]
            /\ place = "commit" => what = "full"
      BY <2>5 DEF SaveGraph
    <3>2. pc[c] = "save" /\ UNCHANGED <<rows, clone, req>>
      BY <2>5 DEF SaveGraph
    <3>3. Alone(c) => clone[PathFor(c)] = <<"full", c>>
      BY <3>2 DEF Kept, OwnFiles
    <3>4. QED BY <3>1, <3>2, <3>3, WorkKeeps
  <2>6. CASE Commit(c)
    <3>1. CASE pc' = [pc EXCEPT ![c] = "cleanup"] /\ UNCHANGED <<rows, members, answer>>
      <4>1. pc[c] = "commit" /\ UNCHANGED <<accounts, clone, graph, req, found>>
        BY <2>6 DEF Commit
      <4>2. QED BY <3>1, <4>1, WorkKeeps
    <3>2. CASE /\ rows' = rows \cup {c}
               /\ members' = [members EXCEPT ![c] = {UserOf(c)}]
               /\ pc' = [pc EXCEPT ![c] = "done"]
               /\ answer' = [answer EXCEPT ![c] = "ok"]
      <4>1. pc[c] = "commit" /\ UNCHANGED <<accounts, clone, graph, req, found>>
        BY <2>6 DEF Commit
      <4>2. Alone(c) => clone[PathFor(c)] = <<"full", c>> /\ graph[PathFor(c)] = <<"full", c>>
        BY <4>1 DEF Kept, OwnFiles
      <4>3. Alone(c) => \A r \in rows : RepoOf(r) # RepoOf(c)
        BY <4>1 DEF Kept, PathIsFree, PathFor
      <4>4. \A d \in Requests : Alone(d) /\ pc'[d] \in Indexing \cup Removing => PathFor(d) # PathFor(c)
        BY <3>2, <4>1 DEF Kept, OneAtATime, InFlight
      <4>a. OneAtATime' /\ RowsAreDone'
        BY <3>2, <4>1 DEF Kept, OneAtATime, RowsAreDone, InFlight, PathFor, RepoOf, Alone
      <4>b. OwnFiles'
        BY <3>2, <4>1 DEF Kept, OwnFiles, PathFor, RepoOf, Alone
      <4>5. OneAtATime' /\ OwnFiles' /\ RowsAreDone'
        BY <4>a, <4>b
      <4>6. PathIsFree'
        BY <3>2, <4>1, <4>4 DEF Kept, PathIsFree, PathFor, RepoOf, Alone
      <4>7. FilesBelongToRow' /\ OneCarefulRow'
        BY <3>2, <4>1, <4>2, <4>3 DEF Kept, FilesBelongToRow, OneCarefulRow, PathFor, RepoOf, Careful, Alone
      <4>8. QED BY ONLY <4>5, <4>6, <4>7 DEF Kept
    <3>3. QED BY ONLY <2>6, <3>1, <3>2 DEF Commit, Reply, Goto
  <2>7. CASE CleanUp(c)
    <3>1. \A p \in Paths \ {PathFor(c)} : clone'[p] = clone[p]
      BY <2>7, RemovalTypes DEF CleanUp
    <3>2. /\ pc[c] = "cleanup" /\ pc' = [pc EXCEPT ![c] = "done"]
          /\ UNCHANGED <<rows, req, graph>>
      BY <2>7 DEF CleanUp
    <3>3. QED BY <3>1, <3>2, WorkKeeps
  <2>8. CASE RemoveClone(c)
    <3>1. \A p \in Paths \ {PathFor(c)} : clone'[p] = clone[p]
      BY <2>8, RemovalTypes DEF RemoveClone
    <3>2. PICK place \in {"rmgraph", "done"} : pc' = [pc EXCEPT ![c] = place]
      BY <2>8 DEF RemoveClone
    <3>3. pc[c] = "rmclone" /\ UNCHANGED <<rows, req, graph>>
      BY <2>8 DEF RemoveClone
    <3>4. QED BY <3>1, <3>2, <3>3, WorkKeeps
  <2>9. CASE RemoveGraph(c)
    BY <2>9, WorkKeeps DEF RemoveGraph
  <2>10. QED
    BY <1>3, <2>1, <2>2, <2>3, <2>4, <2>5, <2>6, <2>7, <2>8, <2>9 DEF Proceed
<1>4. ASSUME NEW u \in Users, DeleteUser(u) PROVE Kept'
  <2>1. UNCHANGED <<rows, clone, graph, req, found, pc, answer>>
    BY <1>4 DEF DeleteUser
  <2>2. OneAtATime' /\ PathIsFree' /\ OwnFiles'
    BY <1>0, <2>1 DEF Kept, OneAtATime, PathIsFree, OwnFiles, InFlight, PathFor, RepoOf, Alone
  <2>3. FilesBelongToRow' /\ OneCarefulRow' /\ RowsAreDone'
    BY <1>0, <2>1 DEF Kept, FilesBelongToRow, OneCarefulRow, RowsAreDone, PathFor, RepoOf, Careful, Alone
  <2>4. QED BY <2>2, <2>3 DEF Kept
<1>5. ASSUME Restart PROVE Kept'
  <2>1. \A c \in Requests : /\ ~InFlight(c)' /\ pc'[c] \notin Indexing \cup Removing
                            /\ pc[c] = "done" => pc'[c] = "done"
    BY <1>5 DEF Restart, InFlight, Indexing, Removing
  <2>2. OneAtATime' /\ PathIsFree' /\ OwnFiles'
    BY <2>1 DEF OneAtATime, PathIsFree, OwnFiles, Indexing, Removing
  <2>3. FilesBelongToRow' /\ OneCarefulRow' /\ RowsAreDone'
    BY <1>0, <1>5, <2>1 DEF Restart, Kept, FilesBelongToRow, OneCarefulRow, RowsAreDone,
                            PathFor, RepoOf, TypeOK, Careful, Alone
  <2>4. QED BY <2>2, <2>3 DEF Kept
<1>6. ASSUME UNCHANGED vars PROVE Kept'
  BY <1>0, <1>6 DEF vars, Kept, OneAtATime, PathIsFree, OwnFiles, FilesBelongToRow,
              OneCarefulRow, RowsAreDone, InFlight, PathFor, RepoOf, Careful, Alone
<1>7. Kept'
  BY <1>1, <1>2, <1>3, <1>4, <1>5, <1>6 DEF Next
<1>8. QED
  BY <1>0, <1>7, TypeStep DEF RepoInv, Kept

\* If no other repository shares its directory, the row of a repository whose
\* requests come one after the other has the files it was indexed from, and no
\* such repository has two rows, whatever requests for other repositories
\* overlap or share directories, whatever fails and whenever the server
\* restarts (repo/service.py:40-61, repo/tasks.py:112-171, repo/views.py:124-184).
THEOREM RepositoriesConsistent ==
  ASSUME PathsDiffer
  PROVE  Spec => [](TypeOK /\ FilesBelongToRow /\ OneCarefulRow)
<1>1. Init => RepoInv
  BY DEF Init, RepoInv, TypeOK, OneAtATime, PathIsFree, OwnFiles, FilesBelongToRow,
         OneCarefulRow, RowsAreDone, InFlight, Indexing, Removing, Careful
<1>2. RepoInv /\ [Next]_vars => RepoInv'
  BY RepoInvStep
<1>3. RepoInv => TypeOK /\ FilesBelongToRow /\ OneCarefulRow
  BY DEF RepoInv
<1>4. QED
  BY <1>1, <1>2, <1>3, PTL DEF Spec

\* Every request stays at a place of its handler, and every row, file and
\* association is of a known request, also when different repositories share a
\* directory (repo/views.py:124-184, repo/service.py:40-61).
THEOREM RepoTypes == Spec => []TypeOK
<1>1. Init => TypeOK
  BY DEF Init, TypeOK
<1>2. TypeOK /\ [Next]_vars => TypeOK'
  BY TypeStep
<1>3. QED
  BY <1>1, <1>2, PTL DEF Spec

-----------------------------------------------------------------------------
(* Rows, also where repositories share a directory. *)

\* A creation that found no row of its repository inserts the first one.
RepoIsFree ==
  \A c \in Requests : Alone(c) /\ pc[c] \in Indexing =>
    \A r \in rows : RepoOf(r) # RepoOf(c)

RowInv == TypeOK /\ OneAtATime /\ RowsAreDone /\ OneCarefulRow /\ RepoIsFree

\* A request arrives, which keeps it if it takes rows away only and starts a
\* creation only where there are none.
LEMMA ArrivalKeepsRows ==
  ASSUME RowInv,
         NEW c \in Requests, NEW kind \in {"create", "delete"}, NEW u \in Users, NEW n \in Repos,
         Arrive(c, kind, u, n),
         NEW place \in {"done", "join", "clone", "rmclone"},
         pc' = [pc EXCEPT ![c] = place],
         rows' \subseteq rows,
         place = "clone" => \A r \in rows : RepoOf(r) # n
  PROVE  OneAtATime' /\ RowsAreDone' /\ OneCarefulRow' /\ RepoIsFree'
<1>1. /\ req'[c].repo = n /\ pc[c] = "new"
      /\ \A d \in Requests \ {c} : req'[d] = req[d]
  BY ArrivalFacts DEF RowInv
<1>2. \A d \in Requests : InFlight(d) =>
        d # c /\ (PathOf[n] \notin Overlapping => PathFor(d) # PathOf[n])
  BY <1>1 DEF Arrive, MayArrive, InFlight
<1>3. pc'[c] = place /\ \A d \in Requests \ {c} : pc'[d] = pc[d]
  BY DEF RowInv, TypeOK
<1>4. \A d \in Requests \ {c} : /\ PathFor(d)' = PathFor(d) /\ RepoOf(d)' = RepoOf(d)
                                /\ Alone(d)' <=> Alone(d)
  BY <1>1 DEF PathFor, RepoOf, Alone
<1>5. PathFor(c)' = PathOf[n] /\ RepoOf(c)' = n /\ (Alone(c)' <=> PathOf[n] \notin Overlapping)
  BY <1>1 DEF PathFor, RepoOf, Alone
<1>6. rows \subseteq Requests \ {c}
  BY <1>1 DEF RowInv, TypeOK, RowsAreDone
<1>7. OneAtATime'
  <2>1. ASSUME NEW d \in Requests, NEW e \in Requests,
               Alone(d)', InFlight(d)', InFlight(e)', PathFor(d)' = PathFor(e)'
        PROVE  d = e
    <3>1. Alone(e)' BY <2>1 DEF Alone
    <3>2. CASE d # c /\ e # c
      BY <1>3, <1>4, <2>1, <3>2 DEF OneAtATime, InFlight, RowInv
    <3>3. CASE d = c /\ e # c
      BY <1>2, <1>3, <1>4, <1>5, <2>1, <3>3 DEF InFlight
    <3>4. CASE d # c /\ e = c
      BY <1>2, <1>3, <1>4, <1>5, <2>1, <3>1, <3>4 DEF InFlight
    <3>5. QED BY <3>2, <3>3, <3>4
  <2>2. QED BY <2>1 DEF OneAtATime
<1>8. RowsAreDone' /\ OneCarefulRow'
  <2>1. \A r \in rows' : r \in rows /\ r \in Requests \ {c} BY <1>6
  <2>2. RowsAreDone' BY <1>3, <2>1 DEF RowsAreDone, RowInv
  <2>3. \A r \in Careful' : r \in Careful /\ RepoOf(r)' = RepoOf(r)
    BY <1>4, <2>1 DEF Careful
  <2>4. OneCarefulRow' BY <2>3 DEF OneCarefulRow, RowInv
  <2>5. QED BY <2>2, <2>4
<1>9. RepoIsFree'
  <2>1. ASSUME NEW d \in Requests, Alone(d)', pc'[d] \in Indexing, NEW r \in rows'
        PROVE  RepoOf(r)' # RepoOf(d)'
    <3>1. r \in rows /\ r \in Requests \ {c} /\ RepoOf(r)' = RepoOf(r) BY <1>4, <1>6
    <3>2. CASE d = c
      <4>1. place = "clone" BY <1>3, <2>1, <3>2 DEF Indexing
      <4>2. QED BY <1>5, <3>1, <3>2, <4>1
    <3>3. CASE d # c
      <4>1. Alone(d) /\ pc[d] \in Indexing /\ RepoOf(d)' = RepoOf(d) BY <1>3, <1>4, <2>1, <3>3
      <4>2. QED BY <3>1, <4>1 DEF RepoIsFree, RowInv
    <3>4. QED BY <3>2, <3>3
  <2>2. QED BY <2>1 DEF RepoIsFree
<1>10. QED
  BY <1>7, <1>8, <1>9

\* A request goes on without a row, and begins to create nothing.
LEMMA WorkKeepsRows ==
  ASSUME RowInv, NEW c \in Requests, NEW place, pc' = [pc EXCEPT ![c] = place],
         InFlight(c), pc[c] \notin Indexing => place \notin Indexing,
         UNCHANGED <<rows, req>>
  PROVE  OneAtATime' /\ RowsAreDone' /\ OneCarefulRow' /\ RepoIsFree'
<1>1. pc'[c] = place /\ \A d \in Requests \ {c} : pc'[d] = pc[d]
  BY DEF RowInv, TypeOK
<1>2. \A d \in Requests : /\ PathFor(d)' = PathFor(d) /\ RepoOf(d)' = RepoOf(d)
                          /\ Alone(d)' <=> Alone(d)
  BY DEF PathFor, RepoOf, Alone
<1>3. OneAtATime'
  BY <1>1, <1>2 DEF OneAtATime, InFlight, RowInv
<1>4. rows \subseteq Requests
  BY DEF RowInv, TypeOK
<1>5. RowsAreDone' /\ OneCarefulRow' /\ RepoIsFree'
  <2>1. RowsAreDone' BY <1>1, <1>4 DEF RowsAreDone, InFlight, RowInv
  <2>2. OneCarefulRow' BY <1>2, <1>4 DEF OneCarefulRow, Careful, RowInv
  <2>3. RepoIsFree' BY <1>1, <1>2, <1>4 DEF RepoIsFree, RowInv
  <2>4. QED BY <2>1, <2>2, <2>3
<1>6. QED
  BY <1>3, <1>5

LEMMA RowInvStep ==
  ASSUME RowInv, [Next]_vars
  PROVE  RowInv'
<1> DEFINE RowsKept == OneAtATime /\ RowsAreDone /\ OneCarefulRow /\ RepoIsFree
<1>0. TypeOK /\ TypeOK' /\ RowsKept
  BY TypeStep DEF RowInv
<1>1. ASSUME NEW c \in Requests, Lookup(c) PROVE RowsKept'
  <2>1. CASE LookupRaises(c)
    BY <2>1, ArrivalKeepsRows DEF LookupRaises, Reply
  <2>2. CASE LookupFinds(c)
    BY <2>2, ArrivalKeepsRows DEF LookupFinds, Reply, Goto
  <2>3. CASE LookupMisses(c)
    BY <2>3, ArrivalKeepsRows DEF LookupMisses, Reply, Goto, RowsOf
  <2>4. QED BY <1>1, <2>1, <2>2, <2>3 DEF Lookup
<1>2. ASSUME NEW c \in Requests, Delete(c) PROVE RowsKept'
  <2>1. CASE DeleteRaises(c)
    BY <2>1, ArrivalKeepsRows DEF DeleteRaises, Reply
  <2>2. CASE DeleteRow(c)
    BY <2>2, ArrivalKeepsRows DEF DeleteRow, Reply, Goto
  <2>3. QED BY <1>2, <2>1, <2>2 DEF Delete
<1>3. ASSUME NEW c \in Requests, Proceed(c), ~Commit(c) PROVE RowsKept'
  <2>1. PICK place : pc' = [pc EXCEPT ![c] = place] /\ (pc[c] \notin Indexing => place \notin Indexing)
    BY <1>3 DEF Proceed, Join, BeginClone, EndClone, Index, SaveGraph, CleanUp, RemoveClone,
                RemoveGraph, Goto, Reply, Indexing
  <2>2. InFlight(c) /\ UNCHANGED <<rows, req>>
    BY <1>3 DEF Proceed, Join, BeginClone, EndClone, Index, SaveGraph, CleanUp, RemoveClone,
                RemoveGraph, InFlight
  <2>3. QED BY <2>1, <2>2, WorkKeepsRows
<1>4. ASSUME NEW c \in Requests, Commit(c) PROVE RowsKept'
  <2>1. pc[c] = "commit" /\ UNCHANGED req
    BY <1>4 DEF Commit
  <2>2. CASE pc' = [pc EXCEPT ![c] = "cleanup"] /\ UNCHANGED rows
    BY <2>1, <2>2, WorkKeepsRows DEF InFlight, Indexing
  <2>3. CASE rows' = rows \cup {c} /\ pc' = [pc EXCEPT ![c] = "done"]
    <3>1. pc'[c] = "done" /\ \A d \in Requests \ {c} : pc'[d] = pc[d]
      BY <1>0, <2>3 DEF TypeOK
    <3>2. \A d \in Requests : /\ PathFor(d)' = PathFor(d) /\ RepoOf(d)' = RepoOf(d)
                              /\ Alone(d)' <=> Alone(d)
      BY <2>1 DEF PathFor, RepoOf, Alone
    <3>3. OneAtATime' /\ RowsAreDone'
      BY <1>0, <2>3, <3>1, <3>2 DEF OneAtATime, RowsAreDone, InFlight
    <3>4. Alone(c) => \A r \in rows : RepoOf(r) # RepoOf(c)
      BY <1>0, <2>1 DEF RepoIsFree, Indexing
    <3>5. \A r \in rows : r \in Requests /\ RepoOf(r) = RepoOf(c) => (Alone(r) <=> Alone(c))
      BY DEF Alone, PathFor
    <3>6. OneCarefulRow'
      BY <1>0, <2>3, <3>2, <3>4, <3>5 DEF OneCarefulRow, Careful, TypeOK
    <3>7. ASSUME NEW d \in Requests, Alone(d), pc'[d] \in Indexing PROVE RepoOf(c) # RepoOf(d)
      <4>1. d # c /\ InFlight(d) /\ InFlight(c)
        BY <2>1, <3>1, <3>7 DEF InFlight, Indexing
      <4>2. PathFor(d) # PathFor(c) BY <1>0, <3>7, <4>1 DEF OneAtATime
      <4>3. QED BY <4>2 DEF PathFor
    <3>8. RepoIsFree'
      BY <1>0, <2>3, <3>1, <3>2, <3>7 DEF RepoIsFree, Indexing, TypeOK
    <3>9. QED BY <3>3, <3>6, <3>8
  <2>4. QED BY <1>4, <2>2, <2>3 DEF Commit, Goto, Reply
<1>5. ASSUME NEW u \in Users, DeleteUser(u) PROVE RowsKept'
  BY <1>0, <1>5 DEF DeleteUser, OneAtATime, RowsAreDone, OneCarefulRow, RepoIsFree, InFlight,
                    PathFor, RepoOf, Careful, Alone
<1>6. ASSUME Restart PROVE RowsKept'
  <2>1. \A c \in Requests : /\ ~InFlight(c)' /\ pc'[c] \notin Indexing
                            /\ pc[c] = "done" => pc'[c] = "done"
    BY <1>6 DEF Restart, InFlight, Indexing
  <2>2. UNCHANGED <<rows, req>> BY <1>6 DEF Restart
  <2>3. OneAtATime' /\ RepoIsFree'
    BY <2>1 DEF OneAtATime, RepoIsFree
  <2>4. RowsAreDone' /\ OneCarefulRow'
    BY <1>0, <2>1, <2>2 DEF RowsAreDone, OneCarefulRow, PathFor, RepoOf, TypeOK, Careful, Alone
  <2>5. QED BY <2>3, <2>4
<1>7. ASSUME UNCHANGED vars PROVE RowsKept'
  BY <1>0, <1>7 DEF vars, OneAtATime, RowsAreDone, OneCarefulRow, RepoIsFree, InFlight, PathFor,
                    RepoOf, Careful, Alone
<1>8. RowsKept'
  BY <1>1, <1>2, <1>3, <1>4, <1>5, <1>6, <1>7 DEF Next
<1>9. QED
  BY <1>0, <1>8 DEF RowInv

\* A repository whose requests follow each other never has a second row, so
\* that get_repo's one_or_none does not raise for it, though another repository
\* may share its directory (service.py:20-36, repo/utils.py:53).
THEOREM OneRowEach == Spec => []OneCarefulRow
<1>1. Init => RowInv
  BY DEF Init, RowInv, TypeOK, OneAtATime, OneCarefulRow, RowsAreDone, RepoIsFree, InFlight,
         Indexing, Careful
<1>2. RowInv /\ [Next]_vars => RowInv'
  BY RowInvStep
<1>3. RowInv => OneCarefulRow
  BY DEF RowInv
<1>4. QED
  BY <1>1, <1>2, <1>3, PTL DEF Spec

-----------------------------------------------------------------------------
\* An arriving request changes neither the others' places nor what they ask.
LEMMA ArrivalKeepsMemberInv ==
  ASSUME MemberInv, TypeOK',
         NEW c \in Requests, NEW kind \in {"create", "delete"}, NEW u \in Users, NEW n \in Repos,
         Arrive(c, kind, u, n),
         NEW place \in {"done", "join", "clone", "rmclone"},
         pc' = [pc EXCEPT ![c] = place],
         rows' \subseteq rows,
         \A d \in Requests \ {c} : found'[d] = found[d],
         place = "join" => \E r \in rows : RepoOf(r) = n /\ found'[c] = r,
         place = "rmclone" => kind = "delete"
  PROVE  MemberInv'
<1>1. /\ req'[c].repo = n /\ req'[c].kind = kind /\ pc[c] = "new"
      /\ \A d \in Requests \ {c} : req'[d] = req[d]
  BY DEF Arrive, MemberInv, TypeOK
<1>2. pc'[c] = place /\ \A d \in Requests \ {c} : pc'[d] = pc[d]
  BY DEF MemberInv, TypeOK
<1>3. rows \subseteq Requests \ {c} /\ \A r \in rows : pc[r] = "done"
  BY <1>1 DEF MemberInv, TypeOK, RowsAreDone
<1>4. RowsAreDone'
  BY <1>2, <1>3 DEF RowsAreDone
<1>5. OnlyDeletionsRemove'
  BY <1>1, <1>2 DEF OnlyDeletionsRemove, MemberInv, Removing
<1>6. JoinersKnowTheirRow'
  <2>1. ASSUME NEW d \in Requests, pc'[d] = "join"
        PROVE  /\ found'[d] \in Requests /\ pc'[found'[d]] = "done"
               /\ RepoOf(found[d])' = RepoOf(d)'
    <3>1. CASE d = c
      BY <1>1, <1>2, <1>3, <2>1, <3>1 DEF RepoOf
    <3>2. CASE d # c
      <4>1. /\ found'[d] = found[d] /\ pc[d] = "join" /\ found[d] \in Requests
            /\ pc[found[d]] = "done" /\ RepoOf(found[d]) = RepoOf(d)
        BY <1>2, <2>1, <3>2 DEF MemberInv, JoinersKnowTheirRow
      <4>2. QED BY <1>1, <1>2, <3>2, <4>1 DEF RepoOf
    <3>3. QED BY <3>1, <3>2
  <2>2. QED BY <2>1 DEF JoinersKnowTheirRow
<1>7. QED
  BY <1>4, <1>5, <1>6 DEF MemberInv

LEMMA MemberInvStep ==
  ASSUME MemberInv, [Next]_vars
  PROVE  MemberInv'
<1>0. TypeOK /\ TypeOK'
  BY TypeStep DEF MemberInv
<1>1. ASSUME NEW c \in Requests, Lookup(c) PROVE MemberInv'
  <2>1. CASE LookupRaises(c)
    BY <1>0, <2>1, ArrivalKeepsMemberInv DEF LookupRaises, Reply
  <2>2. CASE LookupFinds(c)
    <3>1. PICK u \in Users, n \in Repos, r \in rows, place \in {"done", "join"} :
            /\ Arrive(c, "create", u, n)
            /\ Finds(n, u, r)
            /\ found' = [found EXCEPT ![c] = r]
            /\ pc' = [pc EXCEPT ![c] = place]
            /\ UNCHANGED rows
      BY <2>2 DEF LookupFinds, Reply, Goto
    <3>2. RepoOf(r) = n /\ found'[c] = r /\ \A d \in Requests \ {c} : found'[d] = found[d]
      BY <1>0, <3>1 DEF Finds, OwnRowsOf, RowsOf, TypeOK
    <3>3. QED BY <1>0, <3>1, <3>2, ArrivalKeepsMemberInv
  <2>3. CASE LookupMisses(c)
    BY <1>0, <2>3, ArrivalKeepsMemberInv DEF LookupMisses, Reply, Goto
  <2>4. QED BY <1>1, <2>1, <2>2, <2>3 DEF Lookup
<1>2. ASSUME NEW c \in Requests, Delete(c) PROVE MemberInv'
  <2>1. CASE DeleteRaises(c)
    BY <1>0, <2>1, ArrivalKeepsMemberInv DEF DeleteRaises, Reply
  <2>2. CASE DeleteRow(c)
    <3>1. PICK u \in Users, n \in Repos, r \in rows, place \in {"done", "rmclone"} :
            /\ Arrive(c, "delete", u, n)
            /\ rows' = rows \ {r}
            /\ pc' = [pc EXCEPT ![c] = place]
            /\ UNCHANGED found
      BY <2>2 DEF DeleteRow, Reply, Goto
    <3>2. QED BY <1>0, <3>1, ArrivalKeepsMemberInv
  <2>3. QED BY <1>2, <2>1, <2>2 DEF Delete
<1>3. ASSUME NEW c \in Requests, Proceed(c) PROVE MemberInv'
  <2> DEFINE To(place) == /\ pc' = [pc EXCEPT ![c] = place]
                          /\ place \notin {"join", "new"} /\ pc[c] \notin {"done", "new"}
                          /\ place \in Removing => pc[c] \in Removing
                          /\ UNCHANGED <<req, found>>
                          /\ \/ rows' = rows
                             \/ rows' = rows \cup {c} /\ place = "done"
  <2>1. \E place : To(place)
    <3>1. CASE Join(c)
      <4>1. To("done") BY <3>1 DEF Join, Reply, Removing
      <4>2. QED BY <4>1
    <3>2. CASE BeginClone(c)
      <4>1. To("cloning") \/ To("cleanup") BY <3>2 DEF BeginClone, Goto, Removing
      <4>2. QED BY <4>1
    <3>3. CASE EndClone(c)
      <4>1. To("index") \/ To("cleanup") BY <3>3 DEF EndClone, Goto, Removing
      <4>2. QED BY <4>1
    <3>4. CASE Index(c)
      <4>1. To("save") \/ To("cleanup") BY <3>4 DEF Index, Goto, Removing
      <4>2. QED BY <4>1
    <3>5. CASE SaveGraph(c)
      <4>1. To("commit") \/ To("cleanup") BY <3>5 DEF SaveGraph, Goto, Removing
      <4>2. QED BY <4>1
    <3>6. CASE Commit(c)
      <4>1. To("done") \/ To("cleanup") BY <3>6 DEF Commit, Goto, Reply, Removing
      <4>2. QED BY <4>1
    <3>7. CASE CleanUp(c)
      <4>1. To("done") BY <3>7 DEF CleanUp, Reply, Removing
      <4>2. QED BY <4>1
    <3>8. CASE RemoveClone(c)
      <4>1. To("rmgraph") \/ To("done") BY <3>8 DEF RemoveClone, Goto, Reply, Removing
      <4>2. QED BY <4>1
    <3>9. CASE RemoveGraph(c)
      <4>1. To("done") BY <3>9 DEF RemoveGraph, Reply, Removing
      <4>2. QED BY <4>1
    <3>10. QED
      BY <1>3, <3>1, <3>2, <3>3, <3>4, <3>5, <3>6, <3>7, <3>8, <3>9 DEF Proceed
  <2>2. PICK place : To(place) BY <2>1
  <2> HIDE DEF To
  <2>3. /\ pc' = [pc EXCEPT ![c] = place]
        /\ place \notin {"join", "new"} /\ pc[c] \notin {"done", "new"}
        /\ place \in Removing => pc[c] \in Removing
        /\ UNCHANGED <<req, found>>
        /\ \/ rows' = rows
           \/ rows' = rows \cup {c} /\ place = "done"
    BY <2>2 DEF To
  <2>4. pc'[c] = place /\ \A d \in Requests \ {c} : pc'[d] = pc[d]
    BY <1>0, <2>3 DEF TypeOK
  <2>5. \A d \in Requests : req'[d] = req[d] /\ found'[d] = found[d] /\ RepoOf(d)' = RepoOf(d)
    BY <2>3 DEF RepoOf
  <2>6. RowsAreDone'
    BY <2>3, <2>4 DEF MemberInv, RowsAreDone
  <2>7. OnlyDeletionsRemove'
    BY <2>3, <2>4, <2>5 DEF MemberInv, OnlyDeletionsRemove
  <2>8. JoinersKnowTheirRow'
    <3>1. ASSUME NEW d \in Requests, pc'[d] = "join"
          PROVE  /\ found'[d] \in Requests /\ pc'[found'[d]] = "done"
                 /\ RepoOf(found[d])' = RepoOf(d)'
      <4>1. /\ d # c /\ found[d] \in Requests /\ pc[found[d]] = "done"
            /\ RepoOf(found[d]) = RepoOf(d) /\ found'[d] = found[d]
        BY <2>3, <2>4, <2>5, <3>1 DEF MemberInv, JoinersKnowTheirRow
      <4>2. QED BY <2>3, <2>4, <4>1 DEF RepoOf
    <3>2. QED BY <3>1 DEF JoinersKnowTheirRow
  <2>9. QED BY <1>0, <2>6, <2>7, <2>8 DEF MemberInv
<1>4. ASSUME NEW u \in Users, DeleteUser(u) PROVE MemberInv'
  BY <1>0, <1>4 DEF DeleteUser, MemberInv, RowsAreDone, JoinersKnowTheirRow, OnlyDeletionsRemove, RepoOf
<1>5. ASSUME Restart PROVE MemberInv'
  <2>1. \A c \in Requests : /\ pc'[c] \notin Removing \cup {"join"}
                            /\ pc[c] = "done" => pc'[c] = "done"
    BY <1>5 DEF Restart, InFlight, Removing
  <2>2. UNCHANGED rows
    BY <1>5 DEF Restart
  <2>3. QED
    BY <1>0, <2>1, <2>2 DEF MemberInv, RowsAreDone, JoinersKnowTheirRow, OnlyDeletionsRemove, TypeOK
<1>6. ASSUME UNCHANGED vars PROVE MemberInv'
  BY <1>0, <1>6 DEF vars, MemberInv, RowsAreDone, JoinersKnowTheirRow, OnlyDeletionsRemove, RepoOf
<1>7. QED
  BY <1>1, <1>2, <1>3, <1>4, <1>5, <1>6 DEF Next

LEMMA MemberInvAlways == Spec => []MemberInv
<1>1. Init => MemberInv
  BY DEF Init, MemberInv, TypeOK, RowsAreDone, JoinersKnowTheirRow, OnlyDeletionsRemove, Removing
<1>2. QED
  BY <1>1, MemberInvStep, PTL DEF Spec

\* One step answers a creation with success only when its user has the repository.
LEMMA SuccessStep ==
  ASSUME MemberInv, [Next]_vars, NEW q \in Requests,
         answer[q] = "none", answer'[q] = "ok", req'[q].kind = "create"
  PROVE  \E r \in rows' : req'[r].repo = req'[q].repo /\ req'[q].user \in members'[r]
<1>0. TypeOK
  BY DEF MemberInv
<1>1. ASSUME NEW c \in Requests, Lookup(c)
      PROVE  \E r \in rows' : req'[r].repo = req'[q].repo /\ req'[q].user \in members'[r]
  <2>1. ~LookupRaises(c) /\ ~LookupMisses(c)
    BY <1>0 DEF LookupRaises, LookupMisses, Reply, TypeOK
  <2>2. PICK u \in Users, n \in Repos, r \in rows :
          /\ Arrive(c, "create", u, n) /\ Finds(n, u, r)
          /\ \/ u \in members[r] /\ Reply(c, "ok")
             \/ UNCHANGED answer
          /\ UNCHANGED <<rows, members>>
    BY <1>1, <2>1 DEF Lookup, LookupFinds
  <2>3. u \in members[r] /\ c = q
    BY <1>0, <2>2 DEF Reply, TypeOK
  <2>4. r # c /\ r \in Requests /\ RepoOf(r) = n
    BY <1>0, <2>2 DEF Arrive, Finds, OwnRowsOf, RowsOf, MemberInv, RowsAreDone, TypeOK
  <2>5. req'[r] = req[r] /\ req'[q].repo = n /\ req'[q].user = u
    BY <1>0, <2>2, <2>3, <2>4 DEF Arrive, TypeOK
  <2>6. QED BY <2>2, <2>3, <2>4, <2>5 DEF RepoOf
<1>2. ASSUME NEW c \in Requests, Delete(c) PROVE FALSE
  <2>1. CASE DeleteRaises(c)
    BY <1>0, <2>1 DEF DeleteRaises, Reply, TypeOK
  <2>2. CASE DeleteRow(c)
    <3>1. PICK u \in Users, n \in Repos :
            /\ Arrive(c, "delete", u, n)
            /\ answer' = answer \/ answer' = [answer EXCEPT ![c] = "ok"]
      BY <2>2 DEF DeleteRow, Reply
    <3>2. q = c /\ req'[c].kind = "delete"
      BY <1>0, <3>1 DEF Arrive, TypeOK
    <3>3. QED BY <3>2
  <2>3. QED BY <1>2, <2>1, <2>2 DEF Delete
<1>3. ASSUME NEW c \in Requests, Proceed(c)
      PROVE  \E r \in rows' : req'[r].repo = req'[q].repo /\ req'[q].user \in members'[r]
  <2>1. CASE Join(c)
    <3>1. /\ found[c] \in rows /\ c = q /\ UNCHANGED <<rows, req>> /\ pc[c] = "join"
          /\ members' = [members EXCEPT ![found[c]] = @ \cup {UserOf(c)}]
      BY <1>0, <2>1 DEF Join, Reply, TypeOK
    <3>2. RepoOf(found[c]) = RepoOf(c) /\ found[c] \in Requests
      BY <3>1 DEF MemberInv, JoinersKnowTheirRow
    <3>3. req'[q].user \in members'[found[c]]
      BY <1>0, <3>1, <3>2 DEF UserOf, TypeOK
    <3>4. QED BY <3>1, <3>2, <3>3 DEF RepoOf
  <2>2. CASE Commit(c)
    <3>1. /\ c = q /\ rows' = rows \cup {c} /\ UNCHANGED req
          /\ members' = [members EXCEPT ![c] = {UserOf(c)}]
      BY <1>0, <2>2 DEF Commit, Reply, Goto, TypeOK
    <3>2. QED BY <1>0, <3>1 DEF UserOf, TypeOK
  <2>3. CASE RemoveGraph(c)
    BY <1>0, <2>3 DEF RemoveGraph, Reply, MemberInv, OnlyDeletionsRemove, Removing, TypeOK
  <2>4. CASE CleanUp(c)
    BY <1>0, <2>4 DEF CleanUp, Reply, TypeOK
  <2>5. CASE RemoveClone(c)
    BY <1>0, <2>5 DEF RemoveClone, Reply, TypeOK
  <2>6. CASE ~Join(c) /\ ~Commit(c) /\ ~RemoveGraph(c) /\ ~CleanUp(c) /\ ~RemoveClone(c)
    BY <1>3, <2>6 DEF Proceed, BeginClone, EndClone, Index, SaveGraph
  <2>7. QED BY <2>1, <2>2, <2>3, <2>4, <2>5, <2>6
<1>4. ASSUME (\E u \in Users : DeleteUser(u)) \/ Restart \/ UNCHANGED vars PROVE FALSE
  BY <1>4 DEF DeleteUser, Restart, vars
<1>5. QED
  BY <1>1, <1>2, <1>3, <1>4 DEF Next

\* However requests overlap, a creation that reports success leaves its user
\* associated with a row of the repository (repo/views.py:132-147,
\* repo/tasks.py:147-160).
THEOREM SuccessIsMembership == Spec => SuccessMeansMember
<1>1. MemberInv /\ [Next]_vars =>
        [\A c \in Requests :
           answer[c] = "none" /\ answer'[c] = "ok" /\ req'[c].kind = "create" =>
             \E r \in rows' : /\ req'[r].repo = req'[c].repo
                              /\ req'[c].user \in members'[r]]_vars
  BY SuccessStep
<1>2. QED
  BY <1>1, MemberInvAlways, PTL DEF Spec, SuccessMeansMember

-----------------------------------------------------------------------------
(* Clones. *)

\* A path is accounted for by what is there.
Accounted(p) ==
  \/ p \in stray
  \/ \E r \in rows : PathFor(r) = p
  \/ \E c \in Requests : pc[c] \in Holding /\ PathFor(c) = p

\* A step that changes one request only leaves the paths accounted for that it
\* does not move away from.
LEMMA AccountKept ==
  ASSUME TypeOK, ClonesAccountedFor, NEW c \in Requests,
         \A d \in Requests \ {c} : pc'[d] = pc[d] /\ req'[d] = req[d],
         c \notin rows, rows \subseteq rows',
         \A p \in Paths : clone'[p] # Absent =>
           \/ p \in stray'
           \/ pc'[c] \in Holding /\ PathFor(c)' = p
           \/ c \in rows' /\ PathFor(c)' = p
           \/ /\ clone[p] # Absent /\ (p \in stray => p \in stray')
              /\ ~(pc[c] \in Holding /\ PathFor(c) = p)
  PROVE  ClonesAccountedFor'
<1>1. SUFFICES ASSUME NEW p \in Paths, clone'[p] # Absent,
                      clone[p] # Absent, p \in stray => p \in stray',
                      ~(pc[c] \in Holding /\ PathFor(c) = p)
               PROVE  Accounted(p)'
  BY DEF ClonesAccountedFor, Accounted
<1>2. \A d \in Requests \ {c} : pc'[d] = pc[d] /\ PathFor(d)' = PathFor(d)
  BY DEF PathFor, RepoOf
<1>3. rows \subseteq Requests
  BY DEF TypeOK
<1>4. Accounted(p)
  BY <1>1 DEF ClonesAccountedFor, Accounted
<1>5. QED BY <1>1, <1>2, <1>3, <1>4 DEF Accounted

LEMMA ClonesStep ==
  ASSUME TypeOK, RowsAreDone, ClonesAccountedFor, [Next]_vars
  PROVE  ClonesAccountedFor'
<1>1. ASSUME NEW c \in Requests, Lookup(c) \/ DeleteRaises(c) PROVE ClonesAccountedFor'
  <2>1. /\ pc[c] = "new" /\ UNCHANGED <<rows, clone, stray>>
        /\ \A d \in Requests \ {c} : pc'[d] = pc[d] /\ req'[d] = req[d]
    BY <1>1 DEF Lookup, LookupRaises, LookupFinds, LookupMisses, DeleteRaises, Arrive, Goto, Reply, TypeOK
  <2>2. c \notin rows BY <2>1 DEF RowsAreDone
  <2>3. pc[c] \notin Holding BY <2>1 DEF Holding
  <2>4. QED BY <2>1, <2>2, <2>3, AccountKept
<1>2. ASSUME NEW c \in Requests, DeleteRow(c) PROVE ClonesAccountedFor'
  <2>1. PICK u \in Users, n \in Repos, r \in rows :
          /\ Arrive(c, "delete", u, n) /\ Finds(n, u, r)
          /\ rows' = rows \ {r}
          /\ \/ pc' = [pc EXCEPT ![c] = "rmclone"] /\ UNCHANGED stray
             \/ pc' = [pc EXCEPT ![c] = "done"] /\ stray' = stray \cup {PathOf[n]}
          /\ UNCHANGED clone
    BY <1>2 DEF DeleteRow, Goto, Reply
  <2>2. /\ pc[c] = "new" /\ req'[c].repo = n
        /\ \A d \in Requests \ {c} : pc'[d] = pc[d] /\ req'[d] = req[d]
    BY <2>1 DEF Arrive, TypeOK
  <2>3. /\ PathFor(c)' = PathOf[n] /\ PathFor(r) = PathOf[n]
        /\ \A d \in Requests \ {c} : PathFor(d)' = PathFor(d)
    BY <2>1, <2>2 DEF PathFor, RepoOf, Finds, OwnRowsOf, RowsOf
  <2>4. rows \subseteq Requests \ {c} BY <2>2 DEF RowsAreDone, TypeOK
  <2>5. ASSUME NEW p \in Paths, clone'[p] # Absent PROVE Accounted(p)'
    <3>1. CASE p = PathOf[n]
      <4>1. p \in stray' \/ (pc'[c] \in Holding /\ PathFor(c)' = p)
        BY <2>1, <2>3, <3>1 DEF Holding, TypeOK
      <4>2. QED BY <4>1 DEF Accounted
    <3>2. CASE p # PathOf[n]
      <4>1. Accounted(p) BY <2>1, <2>5 DEF ClonesAccountedFor, Accounted
      <4>2. CASE p \in stray BY <2>1, <4>2 DEF Accounted
      <4>3. CASE \E s \in rows : PathFor(s) = p
        <5>1. PICK s \in rows : PathFor(s) = p BY <4>3
        <5>2. s \in rows' /\ PathFor(s)' = p BY <2>1, <2>3, <2>4, <3>2, <5>1
        <5>3. QED BY <5>2 DEF Accounted
      <4>4. CASE \E d \in Requests : pc[d] \in Holding /\ PathFor(d) = p
        <5>1. PICK d \in Requests : pc[d] \in Holding /\ PathFor(d) = p BY <4>4
        <5>2. d # c BY <2>2, <5>1 DEF Holding
        <5>3. pc'[d] \in Holding /\ PathFor(d)' = p BY <2>2, <2>3, <5>1, <5>2
        <5>4. QED BY <5>3 DEF Accounted
      <4>5. QED BY <4>1, <4>2, <4>3, <4>4 DEF Accounted
    <3>3. QED BY <3>1, <3>2
  <2>6. QED BY <2>5 DEF ClonesAccountedFor, Accounted
<1>3. ASSUME NEW c \in Requests, Proceed(c) PROVE ClonesAccountedFor'
  <2>1. /\ pc[c] \notin {"new", "done"} /\ UNCHANGED req
        /\ \A d \in Requests \ {c} : pc'[d] = pc[d]
        /\ rows \subseteq rows'
    BY <1>3 DEF Proceed, Join, BeginClone, EndClone, Index, SaveGraph, Commit, CleanUp, RemoveClone,
                RemoveGraph, Goto, Reply, TypeOK
  <2>2. c \notin rows BY <2>1 DEF RowsAreDone
  <2>3. PathFor(c)' = PathFor(c) /\ PathFor(c) \in Paths
    BY <2>1, AskedFacts DEF PathFor, RepoOf, TypeOK
  <2>4. CASE Join(c) \/ RemoveGraph(c)
    <3>1. pc[c] \notin Holding /\ UNCHANGED <<clone, stray>>
      BY <2>4 DEF Join, RemoveGraph, Holding
    <3>2. QED BY <2>1, <2>2, <3>1, AccountKept
  <2>5. CASE BeginClone(c)
    <3>1. /\ pc'[c] \in Holding /\ UNCHANGED stray /\ pc[c] \notin Holding
          /\ \A p \in Paths \ {PathFor(c)} : clone'[p] = clone[p]
      BY <2>3, <2>5 DEF BeginClone, Goto, Holding, TypeOK
    <3>2. QED BY <2>1, <2>2, <2>3, <3>1, AccountKept
  <2>6. CASE EndClone(c) \/ Index(c) \/ SaveGraph(c)
    <3>1. /\ pc'[c] \in Holding /\ UNCHANGED stray
          /\ \A p \in Paths \ {PathFor(c)} : clone'[p] = clone[p]
      BY <2>3, <2>6 DEF EndClone, Index, SaveGraph, Goto, Holding, TypeOK
    <3>2. QED BY <2>1, <2>2, <2>3, <3>1, AccountKept
  <2>7. CASE Commit(c)
    <3>1. pc'[c] \in Holding \/ c \in rows'
      BY <2>7 DEF Commit, Goto, Reply, Holding, TypeOK
    <3>2. UNCHANGED <<stray, clone>> BY <2>7 DEF Commit
    <3>3. QED BY <2>1, <2>2, <2>3, <3>1, <3>2, AccountKept
  <2>8. CASE CleanUp(c) \/ RemoveClone(c)
    <3>1. Removes(PathFor(c)) \/ RemovesInPart(PathFor(c))
      BY <2>8 DEF CleanUp, RemoveClone
    <3>2. /\ clone'[PathFor(c)] = Absent \/ PathFor(c) \in stray'
          /\ \A p \in Paths \ {PathFor(c)} : clone'[p] = clone[p] /\ (p \in stray => p \in stray')
      BY <2>3, <3>1 DEF Removes, RemovesInPart, TypeOK
    <3>3. QED BY <2>1, <2>2, <2>3, <3>2, AccountKept
  <2>9. QED BY <1>3, <2>4, <2>5, <2>6, <2>7, <2>8 DEF Proceed
<1>4. ASSUME NEW u \in Users, DeleteUser(u) PROVE ClonesAccountedFor'
  BY <1>4 DEF DeleteUser, ClonesAccountedFor, PathFor, RepoOf
<1>5. CASE Restart
  <2>1. /\ UNCHANGED <<rows, req, clone>>
        /\ stray' = stray \cup {PathFor(c) : c \in {d \in Requests : pc[d] \in Holding}}
    BY <1>5 DEF Restart
  <2>2. QED BY <2>1 DEF ClonesAccountedFor, PathFor, RepoOf
<1>6. CASE UNCHANGED vars
  BY <1>6 DEF vars, ClonesAccountedFor, PathFor, RepoOf
<1>7. QED
  BY <1>1, <1>2, <1>3, <1>4, <1>5, <1>6 DEF Next, Delete

\* Whatever fails, overlaps or stops, a clone that belongs to no row and that no
\* request works on was left by a deletion that keeps the files, by a removal
\* that failed or by a stop of the server (repo/tasks.py:162-171,
\* repo/service.py:47-58).
THEOREM NoOtherClones == Spec => []ClonesAccountedFor
<1>1. Init => ClonesAccountedFor
  BY DEF Init, ClonesAccountedFor
<1>2. MemberInv /\ ClonesAccountedFor /\ [Next]_vars => ClonesAccountedFor'
  BY ClonesStep DEF MemberInv
<1>3. QED
  BY <1>1, <1>2, MemberInvAlways, PTL DEF Spec
=============================================================================
