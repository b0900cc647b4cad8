# Verification of codesearch-backend

codesearch-backend is a FastAPI service.  A user registers a GitHub repository; the service
clones it, cuts the Python files into chunks, asks a language model to cluster the chunks,
stores the resulting graph as JSON, and serves summaries, clusters and code walkthroughs from it.
This directory holds TLA+ models of the parts of it that carry its own logic, the TLC instances
that check them, and theorems that TLAPS checks.  `src/` below is the root of the repository.

## 1. Inventory

| component | source | state it keeps | operations | talks to |
|---|---|---|---|---|
| task queue | `src/src/queue/core.py`, `models.py` | per user a list of tasks and a lock, an executor of five threads, each task's status | `put`, `put_and_wait`, `get`, `get_all`, `peak` | called by repository endpoints; runs `Task.task` |
| task poll | `src/src/queue/views.py` | none | `/task/get`, `/task/list` | reads the queue without its locks |
| request sessions | `src/src/middleware/db.py`, `src/src/database/core.py` | the engine's connection pool, one session per request | open, commit, expire, refresh, close | every endpoint; the executor's tasks borrow the request's session |
| repository lifecycle | `src/src/repo/` | rows of `repos`, the user association, clones and graph files on disk | create (task), join, delete, delete all, summarise, list files | task queue, git, database, disk |
| accounts | `src/src/auth/` | rows of `users` | register, login, delete | its association rows end with it |
| cluster graph | `src/rtfs/cluster/`, `src/rtfs/graph.py` | a `networkx` multigraph of clusters, chunks and their edges | Infomap, split, regroup, move / adopt / create, hierarchy, JSON round trip | LLM proposals, the graph file |
| chunk graph, repo graph | `src/rtfs/chunk_resolution/`, `src/rtfs/repo_resolution/`, `src/rtfs/fs.py` | chunks, files and import edges | match imports with files, name resolution between chunks | scope graph |
| scope graph | `src/rtfs/scope_resolution/` | scopes, definitions, references, imports | insertions in source order, lookup by range | tree-sitter captures |
| chunker | `src/src/chunk/`, and `src/moatless/index/epic_split.py`, which it calls | none | cut files into chunks, write the text of each, name them | chunk graph, vector store |
| vector store | `src/src/index/` | document store, FAISS index and id tables, each also a file | open, upsert, delete, add, persist, query | the indexer (the server's task has its call commented out), the embedding model |
| LLM access | `src/llm/`, `src/src/llm/` | a cache of responses | invoke, invoke in threads | model providers |
| cluster strategies | `src/src/cluster/cluster.py` (`cluster_v1.py` beside it cannot be imported) | chunks left, topics so far | rounds until few chunks are left | LLM access |
| walkthrough chat | `src/src/chat/` | chain of chapters | generation, streaming | graph file, LLM access |
| vendored and dead code | `src/moatless/` but for its splitter, `src/rtfs_rewrite/`, `src/new_rtfs/`, `src/notebooks/`, `src/src/search/` | | | not modelled |

What is hard in it.

* *Concurrency.*  Synchronous endpoints run in threads of a thread pool, asynchronous ones on the
  event loop, tasks on the queue's executor.  They share the queue's dictionaries and lists, the
  connections of the pool, and through the request's session one database connection.
* *Long gaps.*  A repository is looked up minutes before its row is inserted; the row found may
  be deleted before a user is associated with it; an object is read after the commit that expired it.
* *Three stores without a transaction.*  Row, clone and graph file are written and removed one
  after the other; a task can fail, and the server can stop, between any two.
* *An unreliable partner.*  The cluster graph is rewritten by operations a language model
  proposes, which may name nodes that do not exist, repeat themselves or contradict each other; the
  strategies sort chunks into topics by names that may be no chunk's, or several chunks'.
* *Conventions that meet.*  Rows count from 0 and from 1, and in a file or in a chunk's text, which repeats the headers of
  the blocks around it; intervals are closed and half open, an
  id is a path's end and a number, a vector's id is the largest one in use: each is local to a file, and
  the chunk graph and the vector store are where they meet.

What makes each part correct:

| component | what has to hold |
|---|---|
| task queue | the `with` blocks of a user exclude each other; a user's list holds exactly the unfinished submissions; a caller gets its own task's outcome, after the task has ended; every call comes back |
| request sessions | an answered request keeps nothing; a running task never waits for a connection; every request is answered |
| repository lifecycle | a row has its own clone and graph on disk; a repository has one row; a clone without a row has a known cause; success is reported only to a user who has the repository |
| task poll | a poll that reports an end carries that run's outcome; it misses a task only because the lists moved under it |
| scope graph, chunk graph | parents nest as the text does; only top-level classes and functions are exported; every edge stands for a reference in a chunk's text to what its file imports, and every such reference has its edge or a known reason |
| vector store | index and tables hold the same ids; each document is found under its present text; a vector leads to its own document |
| cluster strategies | what an answer sorts leaves the inputs, what leaves the inputs is in a topic, or a chunk of the same id is |
| cluster graph | no chunk leaves the clustering; edges end at clusters; clusters partition the chunks; the hierarchy is two-tiered, with a summary on every cluster |

`PROJECT.json` lists every hazard at the line where it bites, with the properties aimed at it.

## 2. Modules

| module | models | extends / composes |
|---|---|---|
| `TaskLifecycle` | what the queue promises one call: accepted or refused, run once, ended, reported | abstract specification |
| `TaskQueue` | `TaskQueue` of `queue/core.py`, step by step of each thread | implements `TaskLifecycle` |
| `TaskPoll` | `/task/get` and `/task/list`, step by step beside the queue's threads | composes itself with `TaskQueue` |
| `RequestSessions` | `DBMiddleware`, the pool, the thread pool, the event loop, and every endpoint as a user of them | uses `TaskLifecycle` in place of the queue |
| `RepoLifecycle` | `create_repo_sync`, `InitIndexGraphTaskLocal`, `delete`, `delete_user`, restarts | a task's run, seen from the three stores |
| `ScopeGraph` | `build_scope_graph`, the interval tree with the root in it, `_get_exports` | one file after the other |
| `ChunkGraph` | `RepoGraph`, `RepoFs.match_file`, the chunks' ids, lines and texts, `ChunkGraph.from_chunks` | composes itself with `ScopeGraph` |
| `ChunkCover` | what the clustering promises of the chunks: each keeps its one cluster | abstract specification |
| `ClusterGraph` | `ClusterGraph.cluster` and the graph operations | implements `ChunkCover`; the indexing step of `RepoLifecycle`, in detail |
| `IndexDirectory` | what the indexer promises of a directory: a run leaves the chunks it was given, or torn files | abstract specification |
| `FaissStore` | `FaissVectorStore`, `SimpleFaissVectorStore`, runs of the `Indexer` | implements `IndexDirectory` |
| `TopicRounds` | `ClusterStrategy.run` in its three modes | alone |
| `TaskQueueProofs`, `TaskPollProofs`, `SessionProofs`, `RepoProofs`, `ClusterProofs`, `ChunkProofs`, `StoreProofs`, `TopicProofs` | theorems | the module they are about |
| `MC*` | model values and bounds for TLC | one for each |

The modules meet at four interfaces.  `RequestSessions` takes the queue by its abstract lifecycle
(`Queue == INSTANCE TaskLifecycle`), so that what is shown of `TaskQueue` is what `RequestSessions`
assumes of it.  `TaskPoll` adds a reader to the very steps of `TaskQueue`.  `ChunkGraph` continues the
states that `ScopeGraph` builds.  And one step of `RepoLifecycle` (`Index`, followed by `SaveGraph`) is
a whole behaviour of `ChunkGraph` and then of `ClusterGraph`, which ends in "done", after which the graph
is saved, or in "failed", after which it is not.

### TaskQueue

A call of `put` or `put_and_wait` is a member of `Calls` and has two threads: the request's
(`Client(c)`) and, once the executor takes the call, the executor's (`Worker(c)`).  `pc` says where
each is.  A step goes from one point of interference to the next: a dictionary operation, a lock
acquisition, a list operation.  So `_acquire_lock` is three steps (`Lookup`, `CreateLock`,
`FetchLock`), the `with` block of a submission three (`Enter` or `Reject`, `Enqueue`, `Submit`), and
the removal loop in the `finally` clause one for its bound (`BeginRemoval`), one for each comparison
(`Compare`), one for `pop` (`Pop`), and its two other ends (`NotFound`, `IndexError`).  A `with` block
of one assignment (`Start`) is one step.  `Worker(c)`'s second `_acquire_lock` can never create a lock,
since the client's did, and is one step.

`Warm` is the set of users whose lock exists before the behaviour starts: the ordinary state of a
user who made an earlier call.  The others are where two first calls can race.  A waiter's event
and future are both needed, as in the code: `Ended` is the event *and* the executor's `set_result`.

### TaskPoll

A poll is one variable `at` and what `TaskQueue.get` holds in its locals: the size of the dictionary when
the iteration began, the row and column of the search.  Its steps are the dictionary's and the list's
iterators, one element at a time, and the two reads of the answer.  `QueueStep` is a step of `TaskQueue`
with the two things a poll can see besides: the keys of the dictionary, which is a `defaultdict`, and
`task.result`.  `since` is a history variable: whether the wanted task was in no list, or moved towards the
front, since the poll began; `MissesExplained` says that nothing else makes a poll miss it.

### RequestSessions

A request has a `kind` (its endpoint) and a `place`.  `conns` are the requests whose session holds a
connection, `threads` those for which a thread of the thread pool works, `loop` is the request in
whose handler the event loop is blocked.  A session takes a connection at its first query, gives
it back at a commit, takes one again when it reads an object the commit expired (`Refresh`,
`DeleteRow`, `ReportRow`), and gives it back for good when the middleware closes it.  A request whose
session has no connection waits until the pool has room, or until the pool's timeout
(`TimeoutInThread`, `TimeoutOnLoop`).  One without a good token is refused before its session
wants any (`RejectToken`).  Left out: the trivial synchronous dependencies (`get_db`,
`get_queue`), which take a thread for an instant and never wait; database errors other than the pool's
timeout; clients that disconnect; `chat` and `/task/list`, which use what "read" uses.

### RepoLifecycle

`Overlapping` is the set of paths for which requests may overlap; the others are those of clients that
wait for an answer before they send a request for the same path (`MayArrive`).  The properties that need this
speak of the rows of such paths (`Careful`), so that overlapping requests run beside them in one model.

A row is named by the request that inserted it, and so are the contents of a clone and of a graph
file, which is how `FilesBelongToRow` can say that a row's files are its own.  `get_repo` is
`GetRepoRaises` and `Finds`, with its two queries and its `one_or_none`.
Deletions run on the event loop (`LoopFree`), creations in threads.
`Restart` stops every request and keeps disk and database.  `found` is the row a request holds
across the time in which another session can delete it.  Every step that can fail has its failing outcome:
`SaveGraph` leaves an emptied file, because it is opened before the graph is written; `DeleteRaises` covers the foreign
key of an association made meanwhile; a clone is removed by `shutil.rmtree`, which raises half-way (`RemovesInPart`),
and a graph by `rm_tree`, which swallows the exception, so that the file may stay.
`stray` is a history variable: the paths where a deletion of a row with several users or none, a failed removal or a
restart left a clone.  `ClonesAccountedFor` says that nothing else leaves one.  What users lose by each other is not
stated as a property, since they do: `service.py:47-48` deletes the row for all of them.

### ClusterGraph

`member` counts the edges from a chunk to a cluster, because the graph is a multigraph and a move
removes one edge.  Each question to the language model is an action (`AskSplit`, `AskMoves`, `AskTree`)
whose answer is any member of a set of answers the response type allows; the operations of an
answer are applied one at a time, `SkipOp` being what `MoveOp.apply` and `AdoptCluster.apply` do with
nodes that do not exist.  `faithful` is a history variable: whether every answer so far kept to its
prompt.  Properties that need a faithful model say so (`OneClusterEach`, `TwoTier`); the others hold
for every answer.  A random id may be any member of `SplitIds`, that of an existing node included.
`Cover` reads the graph as `ChunkCover` does: a chunk is covered by the clusters it has an edge to (`In`), and
`faithful` is what `ChunkCover` calls trusted.  The operations become four: a chunk is moved or copied, and a
cluster is introduced, or dropped when it is empty.

### ScopeGraph and ChunkGraph

The text of a file is what its captures are: `InsertScope`, `InsertImport`, `InsertDef` and `InsertRef` take
any capture that may come next by the grammar (`MayFollow`), in the code's order of kinds; a name may be imported more
than once.  Intervals are in tenths of a row, so that a one-row scope is the interval of length epsilon = 0.1 that the
tree holds.  Scope 0 is the root, with the interval of the module node, which ends on the last row of the text or,
if a newline ends the file, below it (`Root`).  `ScopesAt` is `scope_by_range`: all smallest scopes around a row,
because a set's iteration order decides between equals, the root being one of them if a scope spans the file.

`ChunkGraph` matches imports with files by the end of the path and joins scopes.  A chunk is what `EpicSplitter`
makes of a file and `PythonChunker` keeps: its first and last line, its number, in which skipped chunks leave gaps, and
its text.  The text is not those lines: `_to_context_string` writes the headers of the blocks around
the chunk's own, wherever they stand, leaves blocks out, and puts blank rows and placeholders between.  So `shows` are
any references of the file on any rows of the text, in the order of the file, and nothing is assumed of where they
stand in it.  Where the splitter cuts depends on token counts and is any place; ranges may overlap.  Every reference
of a node's text is looked up with the row arithmetic of the code: `LookupRow` adds its row in the
text, counted from 0, to the chunk's first line, counted from 1.  Of several edges of a scope for one name, any may be the
first.  `TrueParent` and `Depends` are the reference definitions: what the text says.

### FaissStore

`files` is the directory, the other variables a run of the indexer in memory.  A run opens, upserts, adds and
saves in three steps; `Stop` may come before any of them.  `Upsert` is the external ingestion pipeline as
the code configures it (`UPSERTS_AND_DELETE`), with the calls of `delete` it makes.  A snapshot is a function from
documents to texts, so a batch in which two nodes share an id, as `python.py:162` allows, is outside the model.  `past` is history: the
documents that lost their vector to a batch (`lost`), those with a vector that outlived its entry
(`kept`), and whether the files were written by one run (`torn`).  They make the properties say exactly
when a document is not found, or a vector leads elsewhere.
`given` is history too: the chunks of the present run.  `Directory` maps all this to `IndexDirectory`: the three
files are none, torn or whole, a run that opened torn files is spoilt (`Spoilt`), and the rest of the document store,
the index and the tables is left out, so that an upsert, with its deletions and additions, is nothing but the
choice of what the run is to leave (`Aim`).

### TopicRounds

A chunk is a position in `Chunks`, which gives its id; nothing says that ids differ.  One round is one action: the
answer is any set of topics, a topic any set of names, with one that is no chunk's (`Ghost`).  A name leads to the
last chunk that has it (`IsTarget`, because `name_to_chunk` is a dictionary), and takes away all that have it (`Called`).
The three modes are the arguments of `run`: "removing" is the default, "anonymous" is `use_anon_chunks`, "keeping" is
`remove_classified=False`.

## 3. What is checked

| run | instance | properties | what it shows |
|---|---|---|---|
| `queue_no_race` | 3 calls of 2 users, 2 waiting, 2 executor threads, only the second user's lock in the table, `get_all` for the second user; no step replaces a lock in the table | `TypeOK`, `OneInside`, `AnswerIsOutcome`, `ImplementsLifecycle`, `EveryCallEnds` | no overlap of `with` blocks, own outcomes, every call comes back, refinement with its liveness: first calls may overlap in any way but the race of finding 1 |
| `queue_cold` | 3 first calls of one user, up to 3 Lock objects, two calls submit one `Task` object | `AnswerAfterEnd`, `NobodyStuck` | no caller goes on before its task has ended, and none is left waiting, even then |
| `queue_polls` | 3 calls, two of which submit one `Task` object, `get_all`, a poll | `PollTypeOK`, `QueueTracksCalls`, `NoLateEnqueue`, `PollReportsOutcome`, `MissesExplained` | the list is exactly the unfinished submissions; what a poll can and cannot see of them |
| `queue_first_use` | 2 first calls | `AnswerIsOutcome`, violated | finding 1 |
| `sessions_shared` | 3 requests of any kind, 2 connections, 2 threads, 1 worker, up to 3 rows for `delete_all` | `TypeOK`, `NothingKept`, `TasksKeepConnection`, `EveryRequestAnswered` | no deadlock of loop, threads, workers and pool outlasts the pool's timeout |
| `repo_stores` | 4 requests, 2 users, 2 repositories, overlapping on one of two paths | `TypeOK`, `FilesBelongToRow`, `OneCarefulRow`, `ClonesAccountedFor`, `SuccessMeansMember` | failures, deletions and restarts leave a row made without overlap with its own files; clones without a row have a named cause and success is true, overlap or not |
| `repo_two_rows` | 3 overlapping requests | `OneRowPerRepo`, violated | finding 2 |
| `cluster_any_answer` | 3 chunks, 4 ids, answers of up to 2 topics, 2 moves and 2 tree operations | `TypeOK`, `NoChunkLost`, `EdgesHaveEnds`, `OneClusterEach`, `TwoTier`, `ImplementsCover` | any answer; `OneClusterEach` and `TwoTier` while answers are faithful; refinement |
| `cluster_twice` | as before, fewer ids | `Partitioned`, violated | finding 3 |
| `chunk_edges` | 2 files of 3 rows, one without a last newline, up to 3 scopes, 2 imports and 2 references, texts of up to 2 rows, up to 3 chunks, overlapping or left out | `TypeOK`, `ParentsNest`, `ExportsAreTopLevel`, `LinksAreImports`, `MissingLinksExplained` | the graph against what the text says |
| `faiss_batches` | 3 documents, 2 texts, 5 snapshots of the repository, any number of runs up to id 3 | `TypeOK`, `IdsAgree`, `CurrentAreFound`, `OthersAreExplained`, `ImplementsDirectory` | what is found, and what a stray vector comes from; refinement |
| `topic_rounds` | 5 chunks, two of one id, every answer of up to 2 topics, 3 rounds, 3 modes | `OfferedUntilSorted`, `NothingLost`, `SortedInOneRound` | what becomes of every chunk, whatever the answers name |

`CHECK_DEADLOCK FALSE` stands where the calls, requests, files or rounds of an instance are finite and a
behaviour ends when all are dealt with.  That nobody waits for ever is what `EveryCallEnds`, `NobodyStuck` and
`EveryRequestAnswered` say.  `FaissStore` never stops, and its run checks for deadlock.

**Bounds.**  Queue: two executor threads and three calls let one call wait in the FIFO, one run and
one submit; a list of two entries is needed for a removal loop to meet a shortened list, one of
three for it to run to its end without a match (`NotFound`), which takes three locks; with `get_all` on top
that instance has more than ten million states, so `get_all` runs where no lock is replaced, with one call of its user
and two of another that share the two threads, and in `queue_polls`.  Sessions: two of everything and three
requests let any pair exclude the third; `delete_all` blocks the loop only from its second row on,
and three rows let a timeout be followed by another row.  Repositories: two users are a first and a
joining one, two repositories make one path's steps interfere with another's, four requests allow
creation, join, deletion and a new creation in one behaviour, and two rows of one repository followed
by a lookup that raises.  Cluster graph: three chunks and a threshold of two give a split that leaves a chunk
behind; two moves are a chain, a contradiction or a repetition; two tree operations are a creation
and an adoption, or two adoptions.  Chunk graph: three rows hold a scope that ends another on one row, three
scopes a method beside a function; the importing file has no last newline, so that a scope can span it, and the other
has one; two rows of a chunk's text shift a reference by none or one, and the offset by one more; lines of chunks
(`SomeLines`) overlap in the second file, and any of them may be left out; both paths end in one part, so that an import can match
the wrong file.  The two files' chunks have different ids: that shared ones do no harm is proved, not checked.  Vector
store: the three documents let a batch of two take over the id of a third; ids up to 3 are reached by four
batches.  Topics: with five chunks three tenths are passed when one is left, so a run can end early;
one id of two chunks lets the first be taken away for the second, and three rounds let a chunk be named after it was sorted.

**Constraints.**  `NoRace` (queue_no_race) leaves out the steps that replace a lock in the table: it is the premise
`LocksStay(Users)` of section 5.  `Unanswered` (queue_polls) ends a behaviour when its poll ended: a poll changes nothing
the queue reads, and what follows is in the behaviours without a poll.  `Interesting` (chunk_edges) follows a
repository beyond its first file only if that file uses what it imports, and joins it only if the second file
defines it: the others have no edges, and their scope graphs are checked all the same.  It also keeps the files together
to two scopes, or to three while nothing is joined, imports to one name, and chunks of the first file to those that
mention it.  `Followed`
(faiss_batches) stops at runs on files not written by one run, of which nothing is promised, except those that find
a file missing; `StoreImplementsDirectory` covers all of them.  The vector ids of `FaissStore` are bounded by `MaxId` in the guard of `Add`.

**Symmetry** is used where only invariants are checked, or action properties that do not tell the
permuted values apart: requests and users in the repository runs, chunks in the cluster runs, calls
that submit one task in `queue_cold` and `queue_polls`, names in `chunk_edges`.

**Fairness.**  `TaskQueue!Fairness`: a thread that has started is scheduled (CPython's and the
operating system's job), locks are contended finitely often, and the body of a task ends; a caller
need not call.  In `queue_no_race` a thread that has seen no lock where there is one by now can never go on, so that
by this fairness its behaviours are left out: those of the race.  `RequestSessions!FairSpec`: a request that has arrived goes on when it can, which
includes that the pool's timeout (30 seconds, SQLAlchemy's default, which `database/core.py` does not
change) elapses; nobody has to send a request.  No fairness is needed between the waiters of a pool,
because each of them gets a connection or its timeout.

## 4. Findings

1. **Two first calls of one user hold two locks** (`queue/core.py:41-43`).  `_acquire_lock` tests and
   assigns without a lock of its own.  Both removal loops then run on one list, an index goes past
   the shortened list, and the `IndexError` that leaves the `finally` clause replaces the outcome of a
   task that succeeded.
2. **Two rows of one repository** (`repo/views.py:132`).  Two creations look it up before either
   inserts; no unique constraint stops the second; from then on `one_or_none` raises for everyone.
3. **A chunk in two clusters** (`graph_ops.py:38-48`).  A move whose source is a cluster that does not
   hold the chunk removes nothing and adds an edge all the same.

What the properties had to except, and is therefore shown to happen (without the exception TLC finds a
counterexample):

* `MissesExplained`: a poll misses a task that is queued all the time when a task ahead of it is removed
  during the search; the client gets an error for it, because `None` has no `task_id` (`queue/views.py:69`).
* `ParentsNest`, `ExportsAreTopLevel`: a one-row method on the last row of its class is not found inside it,
  because the interval is half open (`interval_tree.py:23-26`), and is exported as a function of the module.  A class that
  spans a file without a last newline has the root's interval, which is in the tree too (`:16-18`); `min` may take the
  root, and then all its methods are exported.
* `MissingLinksExplained`: a reference is looked up one row below its own (`chunk_graph.py:136-138`), and further off
  where its chunk's text has rows that the file does not have there, or lacks some (`epic_split.py:400-453`), so it looks
  for edges of another scope; a name imported in a `try` and again in its `except` has two edges, and one is
  taken (`repo_graph.py:140-152`); and `def f(): return [x for x in y]` on one row defines `f` in the comprehension.
* `LinksAreImports`: files whose paths end in the same two parts share chunk ids, and one node replaces the
  other (`python.py:161-162`; the check for it is commented out, `chunk_graph.py:93-94`).
* `CurrentAreFound`, `OthersAreExplained`: every batch after the first takes over the largest id
  (`faiss.py:122-137`), so that the document which had it is lost; its vector stays and leads to the wrong text; and a document that
  changed twice keeps an old vector (`faiss.py:264-267`).
* `NothingLost`: of two chunks with one id, the earlier one is taken away with the other and is in no topic
  (`cluster.py:47-49, 77-78`).
* `OfferedUntilSorted`: anonymous chunks are offered again after they were sorted, because they are not called by
  their ids any more (`cluster.py:97-110`).
* `ClonesAccountedFor`: `shutil.rmtree` may stop half-way, a row deleted for several users leaves its clone, and so
  does a restart.

Met while modelling and not made into runs, because each follows from a single line:
polls do take a connection, against `queue/views.py:24-31`, because the registration of the token is
commented out (`:46-56`) and the middleware's set is never filled (`middleware/db.py:26, 62`);
`repo/service.py:50` speaks of the last user, but lines 47-48 have deleted the row for all of them;
`get_repo` (`service.py:17`) finds rows of other users, so `delete` takes away a repository the caller
never had; `graph_ops.py:50` and `cluster_graph.py:174` compare a list with 0, so emptied clusters stay
and the clusters nobody adopted stay on top; a cluster may adopt itself (`graph_ops.py:69`);
with
`use_anon_chunks` all inputs get one id and nothing matches after the first round (`cluster.py:97-110`); with
`remove_classified=False` the message of `cluster.py:80` raises `NameError`; files left by an interrupted
`add_all` are repaired by nothing but `overwrite`.

## 5. What is proved

TLAPS checks these for every value of the constants, under the named `ASSUME` of each module, which only
says that functions have their domains, counts are positive where the code's are, and model values
are distinct from the values they stand beside.

| theorem | further assumptions | statement |
|---|---|---|
| `TypeCorrect` | | `TaskQueue`: `Spec => []TypeOK` |
| `MutualExclusion` | `LocksStay(Users)` | `[]OneInside` |
| `CallersGetTheirOutcome` | `LocksStay(Users)` | `[]AnswerIsOutcome` |
| `NobodyGoesOnEarly` | | `[]AnswerAfterEnd` |
| `AcceptedArePending` | `LocksStay(Users)` | `NoLateEnqueue`: a task is appended only while its tested status still holds |
| `ListsTrackCalls` | `LocksStay(Users)` | `[]QueueTracksCalls` |
| `SomebodyCanGo` | | `[]Progress`: `NobodyStuck` by guards in place of `ENABLED` |
| `QueueImplementsLifecycle` | `LocksStay(Users)` | `Spec => Lifecycle!SafeSpec` |
| `WarmUsersAreSafe` | | for the users in `Warm`, of whichever first calls of others: `OneInside`, `AnswerIsOutcome` and `QueueTracksCalls` |
| `PollTypes` | finitely many users | `TaskPoll`: `PollSpec => []PollTypeOK` |
| `PollCarriesOutcome` | finitely many calls | `[]PollReportsOutcome` |
| `MissesHaveReasons` | finitely many users, each `Task` object submitted for one user | `[]MissesExplained` |
| `SessionTypes`, `SessionsReturn`, `AnsweredKeepNothing` | | `RequestSessions`: `[](TypeOK /\ NothingKept /\ TasksKeepConnection)` |
| `RepoTypes` | | `RepoLifecycle`: `[]TypeOK` |
| `SomeRequestCanGo` | | `[]Progress`: while a request is unanswered, some request has the guard of a step |
| `SessionsUseTheQueue` | | `Spec => Queue!SafeSpec`, of `RequestSessions` |
| `OneRowEach` | | `RepoLifecycle`: `[]OneCarefulRow` |
| `RepositoriesConsistent` | `PathsDiffer` | `[](FilesBelongToRow /\ OneCarefulRow)` |
| `NoOtherClones` | | `[]ClonesAccountedFor` |
| `SuccessIsMembership` | | `SuccessMeansMember` |
| `TypeCorrect`, `ClusteringKeepsChunks`, `EdgesStay` | | `ClusterGraph`: `[](TypeOK /\ NoChunkLost /\ EdgesHaveEnds)` |
| `FaithfulMovesPartition`, `FaithfulTreesHaveTwoTiers` | | `[](OneClusterEach /\ TwoTier)`, whose premise is the history variable `faithful` |
| `ClusteringImplementsCover` | | `Spec => ImplementsCover` |
| `ScopesNest`, `MethodsStayInside` | | `ScopeGraph`: `[](ParentsNest /\ ExportsAreTopLevel)` |
| `ChunksBuildScopes`, `ScopesAreKnown` | | `ChunkSpec => Spec`, and `ChunkSpec => []TypeOK` |
| `LinksStandForImports`, `DependenciesAreLinked` | | `ChunkSpec => [](LinksAreImports /\ MissingLinksExplained)` |
| `FilesAgree`, `StoreTypes` | | `FaissStore`: `[](IdsAgree /\ TypeOK)` |
| `DocumentsAreFound`, `VectorsAreExplained` | | `[](CurrentAreFound /\ OthersAreExplained)` |
| `StoreImplementsDirectory` | | `Spec => ImplementsDirectory` |
| `RoundTypes`, `ChunksAccountedFor`, `OfferedWhileUnsorted` | | `TopicRounds`: `[](TypeOK /\ OfferedUntilSorted /\ NothingLost)` |
| `SortedOnce` | | `[]SortedInOneRound` |

Where these assumptions come from.  `LocksStay(Users)` is about the steps of a behaviour: none replaces a lock in the
table, which is to say that no two first calls of one user race.  Without it finding 1 contradicts the statement;
`queue_no_race` checks the same premise, in which first calls may overlap in every other way.  A user whose lock an earlier call has
created needs no such premise (`WarmLocksStay`), and `WarmUsersAreSafe` makes none.  `NoFileAssumption` says that
what stands for a missing file is no file's content.  `PathsDiffer` gives a repository whose
requests follow each other its directory for itself: a restriction on names, see below.  Where directories
are shared they can be put into `Overlapping`, and the theorem then speaks of the other repositories.  Users
and calls are finitely many because the dictionary and the lists of a process are; `StoreAssumption` says
the same of the chunks of one snapshot, because ids are counted up and `max` is taken of them.  That a
`Task` object is submitted for one user is what the endpoints do: `repo/views.py:165-175` makes the object
for the request and submits it for the request's user.

Along which arguments:

* `OneInside` is not inductive: nothing in it says that two threads inside hold the *same* lock.  `LockInv`, which holds
  however the first calls race, says that a thread is inside exactly when it owns the lock it refers to
  (`HoldersAreInside`), and that who needs a lock refers to one (`RefsAreLocks`).  `OneLock` adds that this lock is the
  table's.  It is what a race breaks: the thread that looked its lock up goes on with it when another puts a
  second one in its place.  As long as no step does, it is inductive, user by user, and that is how
  `WarmUsersAreSafe` follows: each invariant of the queue is stated for the users of a set, and needs the locks of no
  other user.
* `AnswerIsOutcome` needs three more facts.  `PhaseInv`: a waiter that is back has a worker that is
  done, and the answer is the worker's verdict.  `ScanInv`: the bound a removal loop computed is still
  the length of its list, because by `OneInside` no other thread changes the list meanwhile; hence no
  `IndexError`.  `VerdictInv`: after the body, verdict and status agree for a call that is `Alone` with its
  task.  `MarkInv` says why nobody else marks it: what `get_all` finds in a user's list is a task that a call of
  that user submitted.
* `AnswerAfterEnd` holds however the locks are, because its invariant `EndInv` does not mention them: an
  `IndexError` replaces an outcome, but not before there is one.
* `NoLateEnqueue` looks back from the append to the test of the status.  `PendingInv` says that while a call of a
  user is between the two, no worker of that user's calls for the task has begun it: the worker would need the lock,
  which by `LockInv` the call has.
* `QueueTracksCalls` counts: a list holds a task once for each unfinished call that submitted it.  In the middle of
  a removal loop this depends on where the loop is, so `TrackInv` adds that the entries a loop has passed are not its
  task and that the one it is about to pop is (`Searched`); `OneInside` keeps the list still meanwhile.
  Nothing bounds how often one `Task` object is submitted.
* `SomebodyCanGo` holds however the locks are: with `LockInv`, `NobodyForgotten` says that a queued worker is in the
  FIFO and that one past its `finally` clause has set its event.  So of the threads that are not
  done one has its guard.
* `ResultInv` follows the two reads of a poll: a final status, whether still in the task or already in the poll's
  hands, has its result beside it, since the worker sets both, the result first, and the poll reads the
  result last.  `MissInv` keeps the wanted task ahead of the search while `since` is empty; `KeysInv` says
  that a list with entries has its key in the dictionary, so that the search does come to it.
* The refinement needs the first two only.  `Local` says that a step of a call is invisible to the
  phases of the others; `Same` or `Advances` says what it does to its own; `AdvancesIsStep` turns that
  into an action of the lifecycle.
* `SessionInv` adds to the properties where a session certainly holds a connection
  (`HeldFromTheStart`: from its authentication to its handler's first commit) and that a task is in the
  queue only while its request waits for it (`TaskHasWaiter`).
* `SomeRequestCanGo` takes the resources one after the other.  Who blocks the event loop has a step, if only by the
  pool's timeout, because a row is reported without a connection (`ExpectedInv`).  So the loop is free, the tasks go
  on, the threads are given back, and then no place is left to wait at but the beginning and the end.
* `SessionsUseTheQueue` is what entitles `RequestSessions` to have `TaskLifecycle` in the queue's place: together with
  `QueueImplementsLifecycle`, what one assumes of the queue is what the other shows of it.
* `RepoInv` adds, for the paths whose requests do not overlap, that they follow each other (`OneAtATime`),
  that the path of a creation which found no row still has none (`PathIsFree`), and what a creation has on disk
  just before it commits (`OwnFiles`).  `PathsDiffer` is a real restriction: `owner + "_" + repo_name` maps `a_b/c`
  and `a/b_c` to one directory.  Rows do not need it: `RowInv` says of the repository itself what `PathIsFree` says of
  the path (`RepoIsFree`), and `OneRowEach` follows for any names.  `SuccessMeansMember` needs no assumption: `MemberInv` says that the row a joining
  request found was a row of its repository (`JoinersKnowTheirRow`).  Nor does `ClonesAccountedFor`, which is inductive
  beside the types: a path's clone changes hands from a request to its row, or to `stray`.
* `ClusterInv` adds `LoopsHaveNodes`: the cluster being split and the one being filled are nodes while
  the loop runs.
* `OneClusterEach` and `TwoTier` speak of faithful answers, also of one that is half applied.  `FaithfulInv`
  therefore says that a move still to be applied finds its chunk where the model was shown it (`MovesFit`), that an
  adoption is of a cluster of the first tier by a parent the same answer has created before it
  (`TreeFits`), and which clusters have a summary in which phase (`TiersFit`).
* `ClusteringImplementsCover` rests on both.  `ClusterInv` is why a chunk only goes to a cluster that is there.
  `FaithfulInv` is why a move is a move: that a chunk stays where it was, because it has two edges to one cluster or its
  source does not hold it, happens only after an answer that was not faithful, and then `ChunkCover` allows the copy.
  A cluster goes only in `EndSplit`, and only when no chunk has an edge to it.
* `ScopeInv` is about the text and the tree together: each scope may follow those before it (`Ordered`), lies in the
  root's rows (`Within`), in its parent and, but for the exceptions, in no scope between the two (`Nested`), and a
  definition lies where the search finds the row of its name (`Placed`).  `ExportedIsFound` then says that an exported
  definition lies in the scope that it names, or in one that begins on the same row if that one spans the file and the
  root was taken for its parent; and `ScopesNest` carries over to `ChunkSpec` by `ChunksBuildScopes`.
* `ChunkInv` says what the steps in between stand for: an edge between scopes for an import and an exported
  definition (`EdgeFits`), an edge between chunks for a mention in its source's text (`LinkHasSource`); `StageInv` that
  each stage begins when the one before has ended, so that what a lookup has read stays so.
  `NodeIsUnique` is where colliding ids are dealt with: of the chunks behind an id, one is the node.  Of the text of a chunk
  nothing is used but that its references are of the file.
* `MissingLinksExplained` is the converse, and goes through every stage.  `TextInv` says what has been
  read of a file: a definition for each scope, a reference node where a name is used.
  `JoinedInv` says that the edges of a joined file are all there, `DoneInv` that a reference which was looked up
  has found what `Done` describes.  `TopLevelIsExported` makes the text's top level the exported one, and
  what is left is that all edges a lookup may choose from lead to one scope (`DoneIsLinked`), but for the exceptions.
* `IdsAgree` speaks of files after a run.  Its invariant speaks of memory at each point of a run: index and table
  hold the same ids before the save, between the two halves of the save they differ by the marked ids, and
  the file of the index is the memory's index at that point.
* `FindInv` says for `CurrentAreFound` and `OthersAreExplained` where the vector of a document is at each stage of a run:
  in the index under the id in the table, lost to a batch, or still to come with a node that waits to be embedded; and
  which vectors are marked, to leave the index before it is written (`OpenedFits` to `SavedFits`).
* `StoreImplementsDirectory` needs, besides `Inv` and `FindInv`, what `Complete` says: of whole files none is missing, a run
  that did not open torn files has a vector store, and after its upsert its documents are those it was given.  The last
  needs the second: without a vector store the pipeline drops no document, and an earlier run's would stay.
* `SortedInOneRound` counts rounds; the invariant `OneRoundEach` names the round instead, and is kept because of
  `OfferedUntilSorted`: what is offered, and only that can be sorted, shares its id with nothing in a topic.  `NothingLost`
  rests on the last of the chunks that share an id being taken away with the others, and sorted.

Only model-checked: liveness (`EveryCallEnds`, `EveryRequestAnswered`, the fairness part of
`ImplementsLifecycle`) and `NobodyStuck` in the form with `ENABLED`, of which the provers know nothing: the two
`Progress` spell the guards out.  That each of its guards is the guard of an action is what a reader has to see.
The three properties of `src/`'s comments that the findings contradict are shown violated by TLC, and are no theorems.
Every other property that a passing run checks has a theorem.

## 6. Plan

Done, most important first: the queue and its polls, the repository's three stores, the clustering, the
resources that requests share, the way from text to chunk edges, the vector store, and the topic strategies; the
queue, the clustering and the vector store with an abstract specification each.
What could follow:

1. The JSON round trip of the cluster graph, between `SaveGraph` and the readers.
2. `__init__.py` re-exports and whole-module imports in `ChunkGraph`.

## 7. What is not modelled, and why

* Vendored code but for the splitter that the chunker calls (`src/moatless/index/epic_split.py`, of which the
  texts it writes are modelled, and the token counts that decide where it cuts are not), rewrites nothing imports,
  notebooks, evaluations and scripts: most of the repository's lines.
* `cluster_v1.py`: it cannot be imported, since `chunk/models.py` has no `ClusterInputType` (line 12) and there is no
  `chunk_repo` (line 21).
* Prompts, formatting, logging, and the texts of summaries: no property is about them.  What matters of
  a prompt is what it asks for, and that is in `HonestMoves`, `HonestTree` and `Answers`.
* `src/llm`: its cache is on for one function (`llm/cache.yaml`), whose answer has a structured type and whose
  callers do not retry, so a retry never meets a cached answer; `invoke_multithread` puts results where
  their arguments were.
* The walkthrough chat: chains of prompts, run by hand, and endpoints that read the file they leave.
* Calls in the scope graph (`insert_local_call`), hoisted and global definitions: nothing reads the first,
  and the Python grammar's captures have none of the others.
* Infomap, git, GitHub's size check, the database, the embedding model and the model providers are
  external: each is a choice among the outcomes the code distinguishes.
* The enrich operations of the strategies: they are passed in by scripts.
* `alembic`, start-up and command line: single-threaded glue without state of its own.
