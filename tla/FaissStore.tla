------------------------------ MODULE FaissStore ------------------------------
(***************************************************************************)
(* One index directory of src/src/index/stores/faiss.py: a document store, *)
(* a FAISS index and the tables that lead from a vector's id to its        *)
(* document, loaded by FaissVectorStore, changed by add_all and written    *)
(* back as three files, one after the other.  Every run of the Indexer     *)
(* (src/src/index/core.py) opens the directory and adds the present chunks *)
(* of the repository once; the program may stop between any two steps.     *)
(***************************************************************************)
EXTENDS Integers, Sequences, FiniteSets, SequencesExt, FiniteSetsExt, Functions

CONSTANTS
  Documents,  \* the node ids of a repository's chunks
  Versions,   \* what a chunk's text can be
  Snapshots,  \* what the repository's chunks can be when a run begins
  MaxId,      \* bound on the vector ids
  NoFile      \* a file that does not exist, a vector store that is None


VARIABLES
  at,      \* where the run is
  docs,    \* the document store: document -> version
  index,   \* the FAISS index: vectors, each with its id
  text,    \* vector_id_to_text_id
  refs,    \* the keys of text_id_to_ref_doc_id
  marked,  \* _vector_ids_to_delete
  todo,    \* the nodes the pipeline embeds
  given,   \* history: the chunks the run was given
  past,    \* history of the store in memory, see NoPast
  files    \* the three files, the tables in one record with their history

memory == <<docs, index, text, refs, marked, todo, given, past>>
vars   == <<at, memory, files>>

Ids     == 0..MaxId
Vectors == [id : Ids, doc : Documents, version : Versions]
Some(D, V) == UNION {[E -> V] : E \in SUBSET D}
Tables  == [text : Some(Ids, Documents), refs : SUBSET Documents]

ASSUME StoreAssumption ==
  /\ MaxId \in Nat \ {0}
  /\ Snapshots \subseteq Some(Documents, Versions)
  /\ \A chunks \in Snapshots : IsFiniteSet(DOMAIN chunks)

\* What is not there is not taken for the content of a file.
ASSUME NoFileAssumption ==
  /\ NoFile \notin Some(Documents, Versions) \cup Tables
  /\ \A vectors \in SUBSET Vectors : vectors # NoFile

\* lost: documents an added batch left without a vector that leads to them;
\* kept: documents with a vector that outlived its entry in the tables;
\* torn: the files were not written by one run.
Pasts  == [lost : SUBSET Documents, kept : SUBSET Documents, torn : BOOLEAN]
NoPast == [lost |-> {}, kept |-> {}, torn |-> FALSE]

Nothing == [docs |-> NoFile, index |-> NoFile, tables |-> NoFile, past |-> NoPast]

Init ==
  /\ at = "out" /\ files = Nothing
  /\ docs = <<>> /\ index = {} /\ text = <<>> /\ refs = {}
  /\ marked = {} /\ todo = <<>> /\ given = <<>> /\ past = NoPast

Forget ==
  /\ docs' = <<>> /\ index' = {} /\ text' = <<>> /\ refs' = {}
  /\ marked' = {} /\ todo' = <<>> /\ given' = <<>> /\ past' = NoPast

-----------------------------------------------------------------------------
(* FaissVectorStore.__init__ *)

Fresh ==
  /\ docs' = <<>> /\ index' = {} /\ text' = <<>> /\ refs' = {} /\ past' = NoPast

\* from_persist_dir returns None when one of its two files is not there.
Load ==
  /\ docs' = files.docs /\ past' = files.past
  /\ IF NoFile \in {files.index, files.tables}
     THEN index' = NoFile /\ text' = <<>> /\ refs' = {}
     ELSE /\ index' = files.index
          /\ text' = files.tables.text /\ refs' = files.tables.refs

\* The directory exists once the document store was written to it.
Open(overwrite) ==
  /\ at = "out"
  /\ IF files.docs # NoFile /\ ~overwrite THEN Load ELSE Fresh
  /\ at' = "opened"
  /\ UNCHANGED <<marked, todo, given, files>>

-----------------------------------------------------------------------------
(* FaissVectorStore.add_all *)

\* Mutant of IdsOf: the ids of the texts instead of the ids of their vectors.
MarkedTexts(D) == {text[i] : i \in {j \in DOMAIN text : text[j] \in D \cap refs}}

\* Mutant of IdsOf: each call of delete starts its list of ids anew.
MarkedLast(D) == LET ids == {i \in DOMAIN text : text[i] \in D \cap refs}
                 IN  IF ids = {} THEN {} ELSE {Max(ids)}

\* SimpleFaissVectorStore.delete, for each document of a set.
IdsOf(D) == {i \in DOMAIN text : text[i] \in D \cap refs}

\* Mutant of Gone: the strategy is UPSERTS.
GoneNever(chunks) == {}

\* Without a vector store the pipeline drops no document.
Gone(chunks) == IF index = NoFile THEN {} ELSE DOMAIN docs \ DOMAIN chunks

\* The pipeline with UPSERTS_AND_DELETE: documents it has not seen are added,
\* those with another text are replaced, those not in the batch dropped.
Upsert(chunks) ==
  LET changed == {d \in DOMAIN chunks \cap DOMAIN docs : chunks[d] # docs[d]}
      new     == DOMAIN chunks \ DOMAIN docs
      out     == changed \cup Gone(chunks)
  IN  /\ at = "opened"
      /\ \E order \in SetToSeqs(changed \cup new) :
           todo' = [i \in DOMAIN order |-> [doc |-> order[i], version |-> chunks[order[i]]]]
      /\ docs' = [d \in (DOMAIN docs \ Gone(chunks)) \cup new |->
                    IF d \in DOMAIN chunks THEN chunks[d] ELSE docs[d]]
      /\ marked' = IdsOf(out)
      /\ given' = chunks
      /\ past' = [past EXCEPT !.kept = @ \cup (out \ refs)]
      /\ at' = "upserted"
      /\ UNCHANGED <<index, text, refs, files>>

\* A batch begins at the largest id in use.
FirstId == IF text = <<>> THEN 0 ELSE Max(DOMAIN text)

\* Mutant of IdOf: the id is not advanced.
IdOfFirst(i) == FirstId

IdOf(i) == FirstId + i - 1

Vector(i) == [id |-> IdOf(i), doc |-> todo[i].doc, version |-> todo[i].version]

\* SimpleFaissVectorStore.add, called with the embedded nodes.
Add ==
  LET ids   == {IdOf(i) : i \in DOMAIN todo}
      added == {todo[i].doc : i \in DOMAIN todo}
      taken == {text[i] : i \in ids \cap DOMAIN text} \ added
      waste == {todo[i].doc : i \in {j \in DOMAIN todo : IdOf(j) \in marked}}
  IN  /\ at = "upserted"
      /\ ids \subseteq Ids
      /\ IF index = NoFile
         THEN UNCHANGED <<index, text, refs, past>>
         ELSE /\ index' = index \cup {Vector(i) : i \in DOMAIN todo}
              /\ text' = [x \in DOMAIN text \cup ids |->
                IF x \in ids THEN todo[Max({i \in DOMAIN todo : IdOf(i) = x})].doc ELSE text[x]]
              /\ refs' = refs \cup added
              /\ past' = [past EXCEPT !.lost = (@ \ added) \cup taken \cup waste,
                                      !.kept = @ \cup taken]
      /\ at' = "added"
      /\ UNCHANGED <<docs, marked, todo, given, files>>

SaveDocuments ==
  /\ at = "added"
  /\ files' = [files EXCEPT !.docs = docs, !.past.torn = TRUE]
  /\ at' = "docsSaved"
  /\ UNCHANGED memory

\* Mutant of SaveIndex: the marked ids stay in the index.
SaveIndexWhole ==
  /\ at = "docsSaved" /\ index # NoFile
  /\ files' = [files EXCEPT !.index = index]
  /\ at' = "indexSaved"
  /\ UNCHANGED memory

\* The first half of persist: the marked ids leave the index.
SaveIndex ==
  /\ at = "docsSaved" /\ index # NoFile
  /\ index' = {v \in index : v.id \notin marked}
  /\ files' = [files EXCEPT !.index = index']
  /\ at' = "indexSaved"
  /\ UNCHANGED <<docs, text, refs, marked, todo, given, past>>

\* The second half: they leave the tables.  The run ends, and with it the memory.
SaveTables ==
  /\ at = "indexSaved"
  /\ files' = [files EXCEPT
       !.tables = [text |-> Restrict(text, DOMAIN text \ marked),
                   refs |-> refs \ {text[i] : i \in marked \cap DOMAIN text}],
       !.past = past]
  /\ at' = "out"
  /\ Forget

\* The program stops: it is interrupted, the embedding raises, or persist is
\* called on no vector store.
Stop ==
  /\ at # "out"
  /\ at' = "out"
  /\ Forget
  /\ UNCHANGED files

Next ==
  \/ \E overwrite \in BOOLEAN : Open(overwrite)
  \/ \E chunks \in Snapshots : Upsert(chunks)
  \/ Add \/ SaveDocuments \/ SaveIndex \/ SaveTables \/ Stop

Spec == Init /\ [][Next]_vars

-----------------------------------------------------------------------------
(* What holds of the files between the runs *)

TypeOK ==
  /\ at \in {"out", "opened", "upserted", "added", "docsSaved", "indexSaved"}
  /\ docs \in Some(Documents, Versions) /\ given \in Some(Documents, Versions)
  /\ index \in (SUBSET Vectors) \cup {NoFile}
  /\ text \in Some(Ids, Documents)
  /\ refs \subseteq Documents
  /\ marked \subseteq Ids
  /\ todo \in Seq([doc : Documents, version : Versions])
  /\ past \in Pasts
  /\ files \in [docs   : Some(Documents, Versions) \cup {NoFile},
                index  : (SUBSET Vectors) \cup {NoFile},
                tables : Tables \cup {NoFile},
                past   : Pasts]

Whole == files.docs # NoFile /\ ~files.past.torn

\* What a query makes of a vector it found.
LeadsTo(v) ==
  IF v.id \in DOMAIN files.tables.text THEN files.tables.text[v.id] ELSE NoFile

\* The index and the tables are written by two steps, from two copies of the
\* marked ids, after a batch that may reuse an id: they still hold the same
\* ids (a vector without an entry makes a query count it as "not found").
IdsAgree ==
  Whole => {v.id : v \in files.index} = DOMAIN files.tables.text

\* A query can find each document under its present text, except those that
\* lost their vector to an added batch.
CurrentAreFound ==
  Whole => \A d \in DOMAIN files.docs \ files.past.lost :
             \E v \in files.index : /\ v.doc = d /\ v.version = files.docs[d]
                                    /\ LeadsTo(v) = d

\* A vector leads to its own document in its present text, unless it is one
\* of those that outlived their entry: what a query answers is then the text
\* of another document, an old text, or an error for a document that is gone.
OthersAreExplained ==
  Whole => \A v \in files.index :
             \/ /\ LeadsTo(v) = v.doc /\ v.doc \in DOMAIN files.docs
                /\ v.version = files.docs[v.doc]
             \/ v.doc \in files.past.kept

\* A run that loaded torn files.
Spoilt == at # "out" /\ past.torn

Directory ==
  INSTANCE IndexDirectory WITH
    state <- IF files.docs = NoFile THEN "none" ELSE IF files.past.torn THEN "torn" ELSE "whole",
    held  <- IF Whole THEN files.docs ELSE <<>>,
    run   <- IF at = "out" THEN "none" ELSE IF Spoilt THEN "spoilt"
             ELSE IF at = "opened" THEN "begun" ELSE "aimed",
    goal  <- IF at \in {"out", "opened"} \/ Spoilt THEN <<>> ELSE given

\* Upserting against whatever an earlier run left, three writes and a stop
\* between any two of them come to one abstract step: the directory is as it
\* was, it is torn until it is overwritten, or it holds the chunks the run was
\* given, none of an earlier run among them (add_all, persist, Indexer.run).
ImplementsDirectory == Directory!Spec
=============================================================================
