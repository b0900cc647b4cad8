---------------------------- MODULE RepoLifecycle ----------------------------
(***************************************************************************)
(* The life of an indexed repository (src/src/repo): a row with its users  *)
(* in the database, a clone and a cluster graph on disk, three stores with *)
(* no transaction across them.  A creation runs for minutes in a thread of *)
(* the task queue; deletions run on the event loop, one at a time; the     *)
(* server may stop and start again between any two steps.                  *)
(*                                                                         *)
(* A step is one database transaction, one git or file-system operation,   *)
(* or the indexing of a clone.  The task queue itself is module TaskQueue. *)
(***************************************************************************)
EXTENDS Naturals, FiniteSets

CONSTANTS
  Users,        \* user ids
  Repos,        \* pairs of an owner and a repository name
  Paths,        \* directory names, the same under REPOS_ROOT and GRAPH_ROOT
  PathOf,       \* owner + "_" + repo_name
  Requests,     \* requests to create or to delete a repository
  Overlapping,  \* paths for which requests may overlap
  NoRequest,    \* the request has not arrived
  NoRow,        \* get_repo found nothing
  Absent        \* no such file or directory

ASSUME RepoAssumption ==
  /\ PathOf \in [Repos -> Paths]
  /\ Overlapping \subseteq Paths
  /\ NoRow \notin Requests
  /\ Absent \notin Requests \cup ({"partial", "full"} \X Requests)
  /\ NoRequest \notin [kind : {"create", "delete"}, user : Users, repo : Repos]

VARIABLES
  accounts,  \* users with a row in the user table
  rows,      \* rows of repos; a row is named by the request that inserted it
  members,   \* row -> the users associated with it
  clone,     \* path -> the clone there and the request that made it
  graph,     \* path -> the graph file there and the request that wrote it
  req,       \* request -> what it asks for
  found,     \* request -> the row its get_repo returned
  pc,        \* request -> where it is
  answer,    \* request -> its response
  stray      \* history: paths where a deletion, a failed removal or a stop left a clone

vars == <<accounts, rows, members, clone, graph, req, found, pc, answer, stray>>

Asked == [kind : {"create", "delete"}, user : Users, repo : Repos]

UserOf(c) == req[c].user
RepoOf(c) == req[c].repo
PathFor(c) == PathOf[RepoOf(c)]

InFlight(c) == pc[c] \notin {"new", "done", "lost"}

\* The places of a request that made, or is to remove, the clone at its path.
Holding == {"cloning", "index", "save", "commit", "cleanup", "rmclone"}

\* The event loop runs one handler at a time.
LoopFree == \A c \in Requests : pc[c] \notin {"rmclone", "rmgraph"}

\* Clients that wait for each other's answers before they ask again.
MayArrive(n) ==
  PathOf[n] \in Overlapping \/ \A c \in Requests : InFlight(c) => PathFor(c) # PathOf[n]

Goto(c, place) == pc' = [pc EXCEPT ![c] = place]
Reply(c, what) ==
  /\ pc' = [pc EXCEPT ![c] = "done"]
  /\ answer' = [answer EXCEPT ![c] = what]

-----------------------------------------------------------------------------
(* get_repo: first among the user's rows, then among all; one_or_none      *)
(* raises when there are several.                                          *)

RowsOf(n) == {r \in rows : RepoOf(r) = n}
OwnRowsOf(n, u) == {r \in RowsOf(n) : u \in members[r]}

GetRepoRaises(n, u) ==
  LET own == OwnRowsOf(n, u)
  IN  Cardinality(own) > 1 \/ (own = {} /\ Cardinality(RowsOf(n)) > 1)

Finds(n, u, r) ==
  r \in IF OwnRowsOf(n, u) # {} THEN OwnRowsOf(n, u) ELSE RowsOf(n)

-----------------------------------------------------------------------------
(* create_repo_sync and the task it enqueues *)

Arrive(c, kind, u, n) ==
  /\ pc[c] = "new" /\ u \in accounts
  /\ MayArrive(n)
  /\ req' = [req EXCEPT ![c] = [kind |-> kind, user |-> u, repo |-> n]]

LookupRaises(c) ==
  \E u \in Users, n \in Repos :
    /\ Arrive(c, "create", u, n)
    /\ GetRepoRaises(n, u)
    /\ Reply(c, "error")
    /\ UNCHANGED <<accounts, rows, members, clone, graph, found, stray>>

\* The repository is there: a member is answered, another user is added.
LookupFinds(c) ==
  \E u \in Users, n \in Repos, r \in rows :
    /\ Arrive(c, "create", u, n)
    /\ ~GetRepoRaises(n, u) /\ Finds(n, u, r)
    /\ found' = [found EXCEPT ![c] = r]
    /\ \/ u \in members[r] /\ Reply(c, "ok")
       \/ u \notin members[r] /\ Goto(c, "join") /\ UNCHANGED answer
    /\ UNCHANGED <<accounts, rows, members, clone, graph, stray>>

LookupMissesOwn(c) ==
  \E u \in Users, n \in Repos :
    /\ Arrive(c, "create", u, n)
    /\ OwnRowsOf(n, u) = {}
    /\ \/ Goto(c, "clone") /\ UNCHANGED answer
       \/ Reply(c, "error")
    /\ UNCHANGED <<accounts, rows, members, clone, graph, found, stray>>

\* It is not: the size GitHub reports decides whether a task is enqueued.
LookupMisses(c) ==
  \E u \in Users, n \in Repos :
    /\ Arrive(c, "create", u, n)
    /\ RowsOf(n) = {}
    /\ \/ Goto(c, "clone") /\ UNCHANGED answer
       \/ Reply(c, "error")
    /\ UNCHANGED <<accounts, rows, members, clone, graph, found, stray>>

\* Mutant of Join: the association is not checked.
JoinUnchecked(c) ==
  /\ pc[c] = "join"
  /\ members' = [members EXCEPT ![found[c]] = @ \cup {UserOf(c)}]
  /\ Reply(c, "ok")
  /\ UNCHANGED <<accounts, rows, clone, graph, req, found, stray>>

\* The association's foreign keys refuse a row or a user that is gone.
Join(c) ==
  /\ pc[c] = "join"
  /\ IF found[c] \in rows /\ UserOf(c) \in accounts
     THEN /\ members' = [members EXCEPT ![found[c]] = @ \cup {UserOf(c)}]
          /\ Reply(c, "ok")
     ELSE Reply(c, "error") /\ UNCHANGED members
  /\ UNCHANGED <<accounts, rows, clone, graph, req, found, stray>>

\* clone_repo: git refuses a directory that is not empty.
BeginClone(c) ==
  /\ pc[c] = "clone"
  /\ IF clone[PathFor(c)] = Absent
     THEN /\ clone' = [clone EXCEPT ![PathFor(c)] = <<"partial", c>>]
          /\ Goto(c, "cloning")
     ELSE Goto(c, "cleanup") /\ UNCHANGED clone
  /\ UNCHANGED <<accounts, rows, members, graph, req, found, answer, stray>>

\* git ends, or fails by itself or because its directory was taken away.
EndClone(c) ==
  /\ pc[c] = "cloning"
  /\ \/ /\ clone[PathFor(c)] = <<"partial", c>>
        /\ clone' = [clone EXCEPT ![PathFor(c)] = <<"full", c>>]
        /\ Goto(c, "index")
     \/ Goto(c, "cleanup") /\ UNCHANGED clone
  /\ UNCHANGED <<accounts, rows, members, graph, req, found, answer, stray>>

\* Chunk and cluster what is in the directory now; without one it fails.
Index(c) ==
  /\ pc[c] = "index"
  /\ \/ clone[PathFor(c)] # Absent /\ Goto(c, "save")
     \/ Goto(c, "cleanup")
  /\ UNCHANGED <<accounts, rows, members, clone, graph, req, found, answer, stray>>

\* The file is emptied before the graph is written, which may fail.
SaveGraph(c) ==
  /\ pc[c] = "save"
  /\ \/ graph' = [graph EXCEPT ![PathFor(c)] = <<"full", c>>] /\ Goto(c, "commit")
     \/ graph' = [graph EXCEPT ![PathFor(c)] = <<"partial", c>>] /\ Goto(c, "cleanup")
  /\ UNCHANGED <<accounts, rows, members, clone, req, found, answer, stray>>

\* users=[None] cannot be flushed, and a commit may fail.
Commit(c) ==
  /\ pc[c] = "commit"
  /\ \/ /\ UserOf(c) \in accounts
        /\ rows' = rows \cup {c}
        /\ members' = [members EXCEPT ![c] = {UserOf(c)}]
        /\ Reply(c, "ok")
     \/ Goto(c, "cleanup") /\ UNCHANGED <<rows, members, answer>>
  /\ UNCHANGED <<accounts, clone, graph, req, found, stray>>

\* delete_repo: rmtree, which raises when it cannot remove a file.
Removes(p) ==
  /\ clone' = [clone EXCEPT ![p] = Absent]
  /\ stray' = stray \ {p}
RemovesInPart(p) ==
  /\ clone[p] # Absent
  /\ clone' = [clone EXCEPT ![p] = <<"partial", clone[p][2]>>]
  /\ stray' = stray \cup {p}

\* Mutant of CleanUp: the directory of a failed creation is not removed.
CleanUpKeeps(c) ==
  /\ pc[c] = "cleanup"
  /\ Reply(c, "error")
  /\ UNCHANGED <<accounts, rows, members, clone, graph, req, found, stray>>

\* The task's except clause removes the directory, whoever filled it, and
\* leaves the graph file.
CleanUp(c) ==
  /\ pc[c] = "cleanup"
  /\ Removes(PathFor(c)) \/ RemovesInPart(PathFor(c))
  /\ Reply(c, "error")
  /\ UNCHANGED <<accounts, rows, members, graph, req, found>>

-----------------------------------------------------------------------------
(* delete: the row goes in any case, the files only with the last user.    *)

\* The row's associations go with it, but one that is made meanwhile keeps it.
DeleteRaises(c) ==
  /\ LoopFree
  /\ \E u \in Users, n \in Repos :
       /\ Arrive(c, "delete", u, n)
       /\ \/ GetRepoRaises(n, u) /\ Reply(c, "error")
          \/ RowsOf(n) = {} /\ Reply(c, "missing")
          \/ /\ \E d \in Requests : pc[d] = "join" /\ RepoOf(d) = n /\ Finds(n, u, found[d])
             /\ Reply(c, "error")
  /\ UNCHANGED <<accounts, rows, members, clone, graph, found, stray>>

\* Mutant of DeleteRow: the files go with the first user, the row with the last.
DeleteFilesAnyway(c) ==
  /\ LoopFree
  /\ \E u \in Users, n \in Repos, r \in rows :
       /\ Arrive(c, "delete", u, n)
       /\ ~GetRepoRaises(n, u) /\ Finds(n, u, r)
       /\ rows' = IF members[r] \subseteq {u} THEN rows \ {r} ELSE rows
       /\ members' = [members EXCEPT ![r] = @ \ {u}]
       /\ Goto(c, "rmclone")
  /\ UNCHANGED <<accounts, clone, graph, found, answer, stray>>

\* The files stay unless the row had exactly one user.
DeleteRow(c) ==
  /\ LoopFree
  /\ \E u \in Users, n \in Repos, r \in rows :
       /\ Arrive(c, "delete", u, n)
       /\ ~GetRepoRaises(n, u) /\ Finds(n, u, r)
       /\ rows' = rows \ {r}
       /\ members' = [members EXCEPT ![r] = {}]
       /\ IF Cardinality(members[r]) = 1
          THEN Goto(c, "rmclone") /\ UNCHANGED <<answer, stray>>
          ELSE Reply(c, "ok") /\ stray' = stray \cup {PathOf[n]}
  /\ UNCHANGED <<accounts, clone, graph, found>>

\* What rmtree raises leaves the handler before it comes to the graph.
RemoveClone(c) ==
  /\ pc[c] = "rmclone"
  /\ \/ Removes(PathFor(c)) /\ Goto(c, "rmgraph") /\ UNCHANGED answer
     \/ RemovesInPart(PathFor(c)) /\ Reply(c, "error")
  /\ UNCHANGED <<accounts, rows, members, graph, req, found>>

\* rm_tree reports nothing: a graph that cannot be removed stays.
RemoveGraph(c) ==
  /\ pc[c] = "rmgraph"
  /\ graph' = [graph EXCEPT ![PathFor(c)] = Absent] \/ UNCHANGED graph
  /\ Reply(c, "ok")
  /\ UNCHANGED <<accounts, rows, members, clone, req, found, stray>>

-----------------------------------------------------------------------------
(* delete_user and restarts.                                               *)

\* Mutant of DeleteUser: the user's associations stay behind.
DeleteUserKeeps(u) ==
  /\ LoopFree /\ u \in accounts
  /\ accounts' = accounts \ {u}
  /\ UNCHANGED <<rows, members, clone, graph, req, found, pc, answer, stray>>

\* delete_user takes the associations with it, the repositories stay.
DeleteUser(u) ==
  /\ LoopFree /\ u \in accounts
  /\ accounts' = accounts \ {u}
  /\ members' = [r \in Requests |-> members[r] \ {u}]
  /\ UNCHANGED <<rows, clone, graph, req, found, pc, answer, stray>>

\* The server stops and starts again: disk and database stay.
Restart ==
  /\ \E c \in Requests : InFlight(c)
  /\ pc' = [c \in Requests |-> IF InFlight(c) THEN "lost" ELSE pc[c]]
  /\ stray' = stray \cup {PathFor(c) : c \in {d \in Requests : pc[d] \in Holding}}
  /\ UNCHANGED <<accounts, rows, members, clone, graph, req, found, answer>>

-----------------------------------------------------------------------------
Init ==
  /\ accounts = Users
  /\ rows = {}
  /\ members = [r \in Requests |-> {}]
  /\ clone = [p \in Paths |-> Absent]
  /\ graph = [p \in Paths |-> Absent]
  /\ req = [c \in Requests |-> NoRequest]
  /\ found = [c \in Requests |-> NoRow]
  /\ pc = [c \in Requests |-> "new"]
  /\ answer = [c \in Requests |-> "none"]
  /\ stray = {}

Lookup(c) == LookupRaises(c) \/ LookupFinds(c) \/ LookupMisses(c)
Delete(c) == DeleteRaises(c) \/ DeleteRow(c)

\* What a request that has arrived does next.
Proceed(c) ==
  \/ Join(c) \/ BeginClone(c) \/ EndClone(c) \/ Index(c) \/ SaveGraph(c)
  \/ Commit(c) \/ CleanUp(c) \/ RemoveClone(c) \/ RemoveGraph(c)

Next ==
  \/ \E c \in Requests : Lookup(c) \/ Delete(c) \/ Proceed(c)
  \/ \E u \in Users : DeleteUser(u)
  \/ Restart

Spec == Init /\ [][Next]_vars

-----------------------------------------------------------------------------
(* Properties *)

\* Every variable keeps to the values the code can give it; whoever is associated
\* with a row has an account (auth/views.py:35-51, model_relations.py).
TypeOK ==
  /\ accounts \subseteq Users
  /\ rows \subseteq Requests
  /\ members \in [Requests -> SUBSET accounts]
  /\ clone \in [Paths -> {Absent} \cup ({"partial", "full"} \X Requests)]
  /\ graph \in [Paths -> {Absent} \cup ({"partial", "full"} \X Requests)]
  /\ req \in [Requests -> Asked \cup {NoRequest}]
  /\ found \in [Requests -> Requests \cup {NoRow}]
  /\ pc \in [Requests -> {"new", "join", "clone", "cloning", "index", "save", "commit",
                         "cleanup", "rmclone", "rmgraph", "done", "lost"}]
  /\ answer \in [Requests -> {"none", "ok", "error", "missing"}]
  /\ stray \subseteq Paths
  /\ \A c \in Requests : pc[c] # "new" => req[c] # NoRequest
  /\ \A r \in rows : req[r] # NoRequest

\* The repositories whose requests follow each other, and their rows.
Alone(c) == PathFor(c) \notin Overlapping
Careful  == {r \in rows : Alone(r)}

\* Such a repository that users see has on disk the very clone and graph it was
\* indexed from, through deletions, failed creations and restarts: a clean-up
\* or a deletion never takes the files of a row, whatever overlaps elsewhere
\* (tasks.py:162-163, service.py:51-58).
FilesBelongToRow ==
  \A r \in Careful : clone[PathFor(r)] = <<"full", r>> /\ graph[PathFor(r)] = <<"full", r>>

\* get_repo reads rows with one_or_none, which raises when an owner and a name
\* have two (service.py:20-36): no creation inserts a second one.
OneRowPerRepo == \A r1, r2 \in rows : RepoOf(r1) = RepoOf(r2) => r1 = r2

\* The same for repositories whose requests follow each other
\* (service.py:20-36, tasks.py:147-160).
OneCarefulRow == \A r1, r2 \in Careful : RepoOf(r1) = RepoOf(r2) => r1 = r2

\* A clone on disk belongs to a row, or to a request that is at work on it, or it
\* was left by one of the causes that stray records: a deletion of a row with
\* several users or with none, a removal that failed, a stop of the server.
\* Nothing else leaks a clone, however requests overlap: a creation that fails
\* anywhere, and a user who is deleted meanwhile, leave none (tasks.py:162-171,
\* service.py:47-58).
ClonesAccountedFor ==
  \A p \in Paths : clone[p] # Absent =>
    \/ p \in stray
    \/ \E r \in rows : PathFor(r) = p
    \/ \E c \in Requests : pc[c] \in Holding /\ PathFor(c) = p

\* A creation is answered with success only if its user is then associated
\* with a row of the repository, though the row it found may be gone by the
\* time it is joined (views.py:132-147, tasks.py:147-160).
SuccessMeansMember ==
  [][\A c \in Requests :
       answer[c] = "none" /\ answer'[c] = "ok" /\ req'[c].kind = "create" =>
         \E r \in rows' : /\ req'[r].repo = req'[c].repo
                          /\ req'[c].user \in members'[r]]_vars

-----------------------------------------------------------------------------
(* The invariant that is inductive for paths whose requests do not overlap. *)

\* The places of a creation that found no row, and of a deletion that has
\* already removed it.
Indexing == {"clone", "cloning", "index", "save", "commit", "cleanup"}
Removing == {"rmclone", "rmgraph"}

OneAtATime ==
  \A c, d \in Requests :
    Alone(c) /\ InFlight(c) /\ InFlight(d) /\ PathFor(c) = PathFor(d) => c = d

\* While one of these is in flight its path has no row, its own least of all.
PathIsFree ==
  \A c \in Requests : Alone(c) /\ pc[c] \in Indexing \cup Removing =>
    \A r \in rows : PathFor(r) # PathFor(c)

\* What a creation has on disk when it is about to insert its row.
OwnFiles ==
  \A c \in Requests : Alone(c) =>
    /\ pc[c] \in {"index", "save", "commit"} => clone[PathFor(c)] = <<"full", c>>
    /\ pc[c] = "commit" => graph[PathFor(c)] = <<"full", c>>

\* The request that inserted a row has been answered.
RowsAreDone == \A r \in rows : pc[r] = "done"

RepoInv ==
  /\ TypeOK
  /\ OneAtATime
  /\ PathIsFree
  /\ OwnFiles
  /\ FilesBelongToRow
  /\ OneCarefulRow
  /\ RowsAreDone

\* What a request that is to join knows, and which requests remove files; true
\* however requests overlap.
JoinersKnowTheirRow ==
  \A c \in Requests : pc[c] = "join" =>
    /\ found[c] \in Requests /\ pc[found[c]] = "done"
    /\ RepoOf(found[c]) = RepoOf(c)

OnlyDeletionsRemove == \A c \in Requests : pc[c] \in Removing => req[c].kind = "delete"

MemberInv == TypeOK /\ RowsAreDone /\ JoinersKnowTheirRow /\ OnlyDeletionsRemove
=============================================================================
