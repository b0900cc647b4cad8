----------------------------- MODULE StoreProofs -----------------------------
(***************************************************************************)
(* Theorems about FaissStore, for any documents, any batches of finitely   *)
(* many chunks and any bound on the ids: the index and the tables hold the *)
(* same ids whenever no run of add_all was stopped between its writes,     *)
(* also when a batch reuses an id that is in use or marked, and what a     *)
(* query finds then is what the history of the store explains.             *)
(***************************************************************************)
EXTENDS FaissStore, FiniteSetTheorems, TLAPS

IdsIn(vectors) == {v.id : v \in vectors}

\* The files and the histories are records.
Shape ==
  /\ files = [docs |-> files.docs, index |-> files.index,
              tables |-> files.tables, past |-> files.past]
  /\ files.past = [lost |-> files.past.lost, kept |-> files.past.kept, torn |-> files.past.torn]
  /\ past = [lost |-> past.lost, kept |-> past.kept, torn |-> past.torn]
  /\ files.past.torn \in BOOLEAN /\ past.torn \in BOOLEAN

\* From the first write to the last the files count as torn.
TornWhileWriting == at \in {"docsSaved", "indexSaved"} => files.past.torn

\* The index and the tables in memory agree; once the index is written, the
\* tables still hold the marked ids, and nothing else.
MemoryAgrees ==
  /\ at \in {"opened", "upserted", "added", "docsSaved"} /\ ~past.torn /\ index # NoFile
       => IdsIn(index) = DOMAIN text
  /\ at = "indexSaved" /\ ~past.torn
       => files.index = index /\ IdsIn(index) = DOMAIN text \ marked

Inv == Shape /\ TornWhileWriting /\ MemoryAgrees /\ IdsAgree

LEMMA InvInit == Init => Inv
  <1> SUFFICES ASSUME Init PROVE Inv
    OBVIOUS
  <1>1. at = "out" /\ files = Nothing /\ past = NoPast
    BY DEF Init
  <1>2. Shape
    BY <1>1 DEF Shape, Nothing, NoPast
  <1>3. files.docs = NoFile
    BY <1>1 DEF Nothing
  <1> QED BY <1>1, <1>2, <1>3 DEF Inv, TornWhileWriting, MemoryAgrees, IdsAgree, Whole

\* IdsAgree speaks of the files only.
LEMMA SameFiles == ASSUME IdsAgree, files' = files PROVE IdsAgree'
  BY DEF IdsAgree, Whole

LEMMA InvNext == Inv /\ [Next]_vars => Inv'
  <1> SUFFICES ASSUME Inv, [Next]_vars PROVE Inv'
    OBVIOUS
  <1> USE DEF Inv
  <1>1. ASSUME NEW overwrite \in BOOLEAN, Open(overwrite) PROVE Inv'
    <2>1. at = "out" /\ at' = "opened" /\ files' = files
      BY <1>1 DEF Open
    <2>2. CASE Load /\ files.docs # NoFile
      <3>1. docs' = files.docs /\ past' = files.past
        BY <2>2 DEF Load
      <3>2. index' # NoFile => index' = files.index /\ text' = files.tables.text
        BY <2>2 DEF Load
      <3>3. ~past'.torn /\ index' # NoFile => IdsIn(index') = DOMAIN text'
        BY <3>1, <3>2, <2>2 DEF IdsAgree, Whole, IdsIn
      <3>4. Shape'
        BY <3>1, <2>1 DEF Shape
      <3> QED BY <2>1, <3>3, <3>4, SameFiles DEF TornWhileWriting, MemoryAgrees
    <2>3. CASE Fresh
      <3>1. index' = {} /\ text' = <<>> /\ past' = NoPast
        BY <2>3 DEF Fresh
      <3>2. IdsIn(index') = DOMAIN text'
        BY <3>1 DEF IdsIn
      <3>3. Shape'
        BY <3>1, <2>1 DEF Shape, NoPast
      <3> QED BY <2>1, <3>2, <3>3, SameFiles DEF TornWhileWriting, MemoryAgrees
    <2> QED BY <1>1, <2>2, <2>3 DEF Open
  <1>2. ASSUME NEW chunks \in Snapshots, Upsert(chunks) PROVE Inv'
    <2>1. /\ at = "opened" /\ at' = "upserted" /\ UNCHANGED <<index, text, files>>
      BY <1>2 DEF Upsert
    <2>2. PICK kept : past' = [past EXCEPT !.kept = kept]
      BY <1>2 DEF Upsert
    <2>3. past'.torn = past.torn /\ Shape'
      BY <2>1, <2>2 DEF Shape
    <2> QED BY <2>1, <2>3, SameFiles DEF TornWhileWriting, MemoryAgrees, IdsIn
  <1>3. CASE Add
    <2>1. at = "upserted" /\ at' = "added" /\ files' = files
      BY <1>3 DEF Add
    <2>2. CASE index = NoFile
      <3>1. UNCHANGED <<index, text, refs, past>>
        BY <1>3, <2>2 DEF Add
      <3> QED BY <2>1, <2>2, <3>1, SameFiles DEF TornWhileWriting, MemoryAgrees, Shape
    <2>3. CASE index # NoFile
      <3> DEFINE ids == {IdOf(i) : i \in DOMAIN todo}
      <3>1. /\ index' = index \cup {Vector(i) : i \in DOMAIN todo}
            /\ DOMAIN text' = DOMAIN text \cup ids
        BY <1>3, <2>3 DEF Add
      <3>2. PICK lost, kept : past' = [past EXCEPT !.lost = lost, !.kept = kept]
        BY <1>3, <2>3 DEF Add
      <3>3. past'.torn = past.torn /\ Shape'
        BY <2>1, <3>2 DEF Shape
      <3>4. \A i \in DOMAIN todo : Vector(i).id = IdOf(i)
        BY DEF Vector
      <3>5. IdsIn(index') = IdsIn(index) \cup ids
        BY <3>1, <3>4 DEF IdsIn
      <3>6. ~past.torn => IdsIn(index) = DOMAIN text
        BY <2>1, <2>3 DEF MemoryAgrees
      <3> HIDE DEF ids
      <3> QED BY <2>1, <3>1, <3>3, <3>5, <3>6, SameFiles DEF TornWhileWriting, MemoryAgrees
    <2> QED BY <2>2, <2>3
  <1>4. CASE SaveDocuments
    <2>1. /\ at = "added" /\ at' = "docsSaved"
          /\ files' = [files EXCEPT !.docs = docs, !.past.torn = TRUE]
          /\ index' = index /\ text' = text /\ past' = past
      BY <1>4 DEF SaveDocuments, memory
    <2>2. files'.past.torn = TRUE /\ Shape'
      BY <2>1 DEF Shape
    <2> QED BY <2>1, <2>2 DEF TornWhileWriting, MemoryAgrees, IdsAgree, Whole
  <1>5. CASE SaveIndex
    <2>1. /\ at = "docsSaved" /\ index # NoFile /\ at' = "indexSaved"
          /\ index' = {v \in index : v.id \notin marked}
          /\ files' = [files EXCEPT !.index = index']
          /\ text' = text /\ marked' = marked /\ past' = past
      BY <1>5 DEF SaveIndex
    <2>2. files'.past = files.past /\ files'.index = index' /\ Shape'
      BY <2>1 DEF Shape
    <2>3. IdsIn(index') = IdsIn(index) \ marked
      BY <2>1 DEF IdsIn
    <2>4. files.past.torn
      BY <2>1 DEF TornWhileWriting
    <2> QED BY <2>1, <2>2, <2>3, <2>4 DEF TornWhileWriting, MemoryAgrees, IdsAgree, Whole
  <1>6. CASE SaveTables
    <2>1. /\ at = "indexSaved" /\ at' = "out" /\ past' = NoPast
          /\ files' = [files EXCEPT
               !.tables = [text |-> Restrict(text, DOMAIN text \ marked),
                           refs |-> refs \ {text[i] : i \in marked \cap DOMAIN text}],
               !.past = past]
      BY <1>6 DEF SaveTables, Forget
    <2>2. /\ files'.past = past /\ files'.index = files.index
          /\ files'.tables.text = Restrict(text, DOMAIN text \ marked) /\ Shape'
      BY <2>1 DEF Shape, NoPast
    <2>3. DOMAIN files'.tables.text = DOMAIN text \ marked
      BY <2>2 DEF Restrict
    <2>4. IdsAgree'
      BY <2>1, <2>2, <2>3 DEF MemoryAgrees, IdsAgree, Whole, IdsIn
    <2> QED BY <2>1, <2>2, <2>4 DEF TornWhileWriting, MemoryAgrees
  <1>7. CASE Stop
    <2>1. at' = "out" /\ past' = NoPast /\ files' = files
      BY <1>7 DEF Stop, Forget
    <2>2. Shape'
      BY <2>1 DEF Shape, NoPast
    <2> QED BY <2>1, <2>2, SameFiles DEF TornWhileWriting, MemoryAgrees
  <1>8. CASE UNCHANGED vars
    BY <1>8 DEF vars, memory, Shape, TornWhileWriting, MemoryAgrees, IdsAgree, Whole
  <1> QED BY <1>1, <1>2, <1>3, <1>4, <1>5, <1>6, <1>7, <1>8 DEF Next

\* Whatever batches a directory has seen, its index and its tables hold the
\* same ids, unless a run was stopped between the writes of faiss.py.
THEOREM FilesAgree == Spec => []IdsAgree
  <1>1. Inv => IdsAgree
    BY DEF Inv
  <1> QED BY <1>1, InvInit, InvNext, PTL DEF Spec

-----------------------------------------------------------------------------
(* Types *)

\* The largest of a non-empty set of ids is one of them.
LEMMA MaxIsIn ==
  ASSUME NEW N \in Nat, NEW S \in SUBSET (0..N), S # {}
  PROVE  Max(S) \in S
<1> DEFINE T == {x..N : x \in S}
           O == StrictSubsetOrdering(0..N)
<1>1. IsFiniteSet(0..N)
  BY FS_Interval
<1>2. T \subseteq FiniteSubsetsOf(0..N) /\ T # {}
  <2>1. FiniteSubsetsOf(0..N) = SUBSET (0..N) BY <1>1, FS_FiniteSubsetsOfFinite
  <2>2. ASSUME NEW x \in S PROVE x..N \in SUBSET (0..N) OBVIOUS
  <2>3. T \subseteq SUBSET (0..N) /\ T # {} BY <2>2
  <2>4. QED BY <2>1, <2>3
<1>3. IsWellFoundedOn(O, FiniteSubsetsOf(0..N))
  BY <1>1, FS_StrictSubsetOrderingWellFounded
<1> HIDE DEF T, O
<1>4. PICK X \in T : \A Y \in T : <<Y, X>> \notin O
  BY <1>2, <1>3, WFMin
<1>5. PICK x \in S : X = x..N
  BY DEF T
<1>6. ASSUME NEW y \in S PROVE x >= y
  <2>1. SUFFICES ASSUME y > x PROVE FALSE OBVIOUS
  <2>2. y..N \in T BY DEF T
  <2>3. y..N \in SUBSET (0..N) /\ x..N \in SUBSET (0..N) OBVIOUS
  <2>4. y..N \subseteq x..N /\ y..N # x..N
    <3>1. x \in x..N /\ x \notin y..N BY <2>1
    <3>2. QED BY <2>1, <3>1
  <2>5. <<y..N, x..N>> \in O
    BY <2>3, <2>4 DEF O, StrictSubsetOrdering
  <2>6. QED BY <1>4, <1>5, <2>2, <2>5
<1>7. QED
  BY <1>6 DEF Max

\* A function on part of a set is one of the functions Some stands for.
LEMMA SomeFacts ==
  ASSUME NEW D, NEW V
  PROVE  /\ <<>> \in Some(D, V)
         /\ \A f \in Some(D, V) : DOMAIN f \subseteq D /\ \A x \in DOMAIN f : f[x] \in V
         /\ \A E \in SUBSET D : \A f \in [E -> V] : f \in Some(D, V)
<1>1. \A E \in SUBSET D : \A f \in [E -> V] : f \in Some(D, V)
  BY DEF Some
<1>2. <<>> \in [{} -> V]
  OBVIOUS
<1>3. <<>> \in Some(D, V)
  BY <1>1, <1>2
<1>4. ASSUME NEW f \in Some(D, V)
      PROVE  DOMAIN f \subseteq D /\ \A x \in DOMAIN f : f[x] \in V
  <2>1. PICK E \in SUBSET D : f \in [E -> V] BY DEF Some
  <2>2. QED BY <2>1
<1>5. QED
  BY <1>1, <1>3, <1>4

\* The ids of a batch are one for each of its nodes.
LEMMA IdFacts ==
  ASSUME TypeOK
  PROVE  /\ FirstId \in Nat
         /\ \A i \in DOMAIN todo : i \in Nat /\ IdOf(i) \in Int
         /\ \A i \in DOMAIN todo : \A x :
              IdOf(i) = x => Max({j \in DOMAIN todo : IdOf(j) = x}) = i
<1>1. FirstId \in Nat
  <2>1. DOMAIN text \subseteq Ids BY SomeFacts DEF TypeOK
  <2>2. CASE text = <<>> BY <2>2 DEF FirstId
  <2>3. CASE text # <<>>
    <3>1. DOMAIN text # {}
      <4>1. PICK E \in SUBSET Ids : text \in [E -> Documents] BY DEF TypeOK, Some
      <4>2. SUFFICES ASSUME DOMAIN text = {} PROVE text = <<>> BY <2>3
      <4>3. QED BY <4>1, <4>2
    <3>2. MaxId \in Nat BY StoreAssumption
    <3>3. Max(DOMAIN text) \in DOMAIN text BY <2>1, <3>1, <3>2, MaxIsIn DEF Ids
    <3>4. QED BY <2>1, <2>3, <3>2, <3>3 DEF FirstId, Ids
  <2>4. QED BY <2>2, <2>3
<1>2. \A i \in DOMAIN todo : i \in Nat
  BY DEF TypeOK
<1>3. \A i \in DOMAIN todo : IdOf(i) \in Int
  BY <1>1, <1>2 DEF IdOf
<1>4. ASSUME NEW i \in DOMAIN todo, NEW x, IdOf(i) = x
      PROVE  Max({j \in DOMAIN todo : IdOf(j) = x}) = i
  <2>1. \A j \in DOMAIN todo : IdOf(j) = x => j = i
    BY <1>1, <1>2, <1>4 DEF IdOf
  <2>2. {j \in DOMAIN todo : IdOf(j) = x} = {i} BY <1>4, <2>1
  <2>3. Max({i}) = i
    <3>1. i >= i BY <1>2
    <3>2. QED BY <3>1 DEF Max
  <2>4. QED BY <2>2, <2>3
<1>5. QED
  BY <1>1, <1>2, <1>3, <1>4

\* The nodes a pipeline embeds are documents in one of their versions.
LEMMA TodoFacts ==
  ASSUME TypeOK
  PROVE  \A i \in DOMAIN todo : todo[i].doc \in Documents /\ todo[i].version \in Versions
<1> DEFINE T == [doc : Documents, version : Versions]
<1>1. todo \in Seq(T)
  BY DEF TypeOK
<1>2. \A x \in T : x.doc \in Documents /\ x.version \in Versions
  OBVIOUS
<1> HIDE DEF T
<1>3. \A i \in DOMAIN todo : todo[i] \in T
  BY ONLY <1>1
<1>4. QED
  BY <1>2, <1>3

\* An order of a finite set's elements goes through each of them.
LEMMA OrderFacts ==
  ASSUME NEW S, IsFiniteSet(S), NEW order \in SetToSeqs(S)
  PROVE  /\ order \in Seq(S)
         /\ \A x \in S : \E i \in DOMAIN order : order[i] = x
<1> DEFINE n == Cardinality(S)
<1>1. n \in Nat
  BY FS_CardinalityType
<1>2. order \in [1..n -> S] /\ \A i, j \in 1..n : i # j => order[i] # order[j]
  BY DEF SetToSeqs
<1>3. order \in Seq(S)
  BY <1>1, <1>2
<1>4. order \in Injection(1..n, S)
  BY <1>2 DEF Injection, IsInjective
<1>5. Cardinality(1..n) = n
  <2>1. 1 \in Int /\ n \in Int BY <1>1
  <2>2. Cardinality(1..n) = IF 1 > n THEN 0 ELSE n - 1 + 1 BY ONLY <2>1, FS_Interval
  <2>3. QED BY ONLY <1>1, <2>2
<1>6. Cardinality(1..n) = Cardinality(S) <=> order \in Surjection(1..n, S)
  BY ONLY <1>4, FS_Injection, IsFiniteSet(S)
<1>7. order \in Surjection(1..n, S)
  BY <1>5, <1>6
<1>8. QED
  BY <1>2, <1>3, <1>7 DEF Surjection

\* The documents an upsert replaces, adds, and takes out of the index.
Changed(chunks) == {d \in DOMAIN chunks \cap DOMAIN docs : chunks[d] # docs[d]}
New(chunks)     == DOMAIN chunks \ DOMAIN docs
Out(chunks)     == Changed(chunks) \cup Gone(chunks)

\* What an upsert does, with the names above.
LEMMA UpsertFacts ==
  ASSUME TypeOK, NEW chunks \in Snapshots, Upsert(chunks)
  PROVE  /\ todo' \in Seq([doc : Documents, version : Versions])
         /\ \A i \in DOMAIN todo' : /\ todo'[i].doc \in Changed(chunks) \cup New(chunks)
                                    /\ todo'[i].version = chunks[todo'[i].doc]
         /\ \A d \in Changed(chunks) \cup New(chunks) : \E i \in DOMAIN todo' : todo'[i].doc = d
         /\ docs' = [d \in (DOMAIN docs \ Gone(chunks)) \cup New(chunks) |->
                       IF d \in DOMAIN chunks THEN chunks[d] ELSE docs[d]]
         /\ marked' = IdsOf(Out(chunks))
         /\ past' = [past EXCEPT !.kept = @ \cup (Out(chunks) \ refs)]
         /\ UNCHANGED <<index, text, refs, files>>
<1> DEFINE S == Changed(chunks) \cup New(chunks)
<1>1. PICK order \in SetToSeqs(S) :
        todo' = [i \in DOMAIN order |-> [doc |-> order[i], version |-> chunks[order[i]]]]
  BY DEF Upsert, Changed, New
<1>2. S \subseteq DOMAIN chunks /\ IsFiniteSet(DOMAIN chunks)
  BY StoreAssumption DEF Changed, New
<1>3. IsFiniteSet(S)
  BY ONLY <1>2, FS_Subset
<1>4. order \in Seq(S) /\ \A x \in S : \E i \in DOMAIN order : order[i] = x
  BY ONLY <1>1, <1>3, OrderFacts
<1>5. chunks \in Some(Documents, Versions)
  BY StoreAssumption
<1>6. DOMAIN chunks \subseteq Documents /\ \A d \in DOMAIN chunks : chunks[d] \in Versions
  BY <1>5, SomeFacts
<1> HIDE DEF S
<1>7. DOMAIN order = 1..Len(order) /\ Len(order) \in Nat /\ \A i \in DOMAIN order : order[i] \in S
  BY <1>4
<1>8. DOMAIN todo' = DOMAIN order
      /\ \A i \in DOMAIN order : todo'[i] = [doc |-> order[i], version |-> chunks[order[i]]]
  BY <1>1
<1>9. todo' \in Seq([doc : Documents, version : Versions])
  <2>1. \A i \in 1..Len(order) : todo'[i] \in [doc : Documents, version : Versions]
    BY <1>2, <1>6, <1>7, <1>8
  <2>2. todo' = [i \in 1..Len(order) |-> todo'[i]] BY <1>1, <1>7
  <2> DEFINE T == [doc : Documents, version : Versions]
  <2>3. \A i \in 1..Len(order) : todo'[i] \in T BY <2>1
  <2> HIDE DEF T
  <2>4. todo' \in [1..Len(order) -> T] BY ONLY <2>2, <2>3
  <2>5. todo' \in Seq(T) BY ONLY <1>7, <2>4
  <2>6. QED BY <2>5 DEF T
<1>10. /\ \A i \in DOMAIN todo' : todo'[i].doc \in S /\ todo'[i].version = chunks[todo'[i].doc]
       /\ \A d \in S : \E i \in DOMAIN todo' : todo'[i].doc = d
  BY ONLY <1>4, <1>7, <1>8
<1>11. /\ docs' = [d \in (DOMAIN docs \ Gone(chunks)) \cup New(chunks) |->
                      IF d \in DOMAIN chunks THEN chunks[d] ELSE docs[d]]
       /\ marked' = IdsOf(Out(chunks))
       /\ past' = [past EXCEPT !.kept = @ \cup (Out(chunks) \ refs)]
       /\ UNCHANGED <<index, text, refs, files>>
  BY DEF Upsert, Changed, New, Gone, Out
<1>12. QED
  BY ONLY <1>9, <1>10, <1>11 DEF S

\* What an added batch does to the index, the tables and the history.
Batch == {IdOf(i) : i \in DOMAIN todo}
Added == {todo[i].doc : i \in DOMAIN todo}
Taken == {text[i] : i \in Batch \cap DOMAIN text} \ Added
Waste == {todo[i].doc : i \in {j \in DOMAIN todo : IdOf(j) \in marked}}

LEMMA AddFacts ==
  ASSUME TypeOK, Add, index # NoFile
  PROVE  /\ Batch \subseteq Ids
         /\ index' = index \cup {Vector(i) : i \in DOMAIN todo}
         /\ DOMAIN text' = DOMAIN text \cup Batch /\ text' \in Some(Ids, Documents)
         /\ \A i \in DOMAIN todo : text'[IdOf(i)] = todo[i].doc
         /\ \A x \in DOMAIN text \ Batch : text'[x] = text[x]
         /\ refs' = refs \cup Added
         /\ past' = [past EXCEPT !.lost = (@ \ Added) \cup Taken \cup Waste, !.kept = @ \cup Taken]
         /\ UNCHANGED <<docs, marked, todo, files>>
<1>1. text' = [x \in DOMAIN text \cup Batch |->
        IF x \in Batch THEN todo[Max({i \in DOMAIN todo : IdOf(i) = x})].doc ELSE text[x]]
  BY DEF Add, Batch
<1>2. \A i \in DOMAIN todo : IdOf(i) \in Batch
  BY DEF Batch
<1>3. ASSUME NEW i \in DOMAIN todo PROVE text'[IdOf(i)] = todo[i].doc
  <2>1. Max({j \in DOMAIN todo : IdOf(j) = IdOf(i)}) = i BY IdFacts
  <2>2. IdOf(i) \in Batch BY <1>2
  <2>3. PICK x : x = IdOf(i) OBVIOUS
  <2>4. text'[x] = todo[Max({j \in DOMAIN todo : IdOf(j) = x})].doc BY <1>1, <2>2, <2>3
  <2>5. QED BY <2>1, <2>3, <2>4
<1>4. \A x \in DOMAIN text \ Batch : text'[x] = text[x]
  BY <1>1
<1>5. Batch \subseteq Ids
  BY DEF Add, Batch
<1>6. text' \in Some(Ids, Documents)
  <2>1. DOMAIN text \subseteq Ids /\ \A x \in DOMAIN text : text[x] \in Documents
    BY SomeFacts DEF TypeOK
  <2>2. \A i \in DOMAIN todo : todo[i].doc \in Documents BY TodoFacts
  <2>3. ASSUME NEW x \in DOMAIN text \cup Batch PROVE text'[x] \in Documents
    <3>1. CASE x \in Batch
      <4>1. PICK i \in DOMAIN todo : IdOf(i) = x BY <3>1 DEF Batch
      <4>2. QED BY <1>3, <2>2, <4>1
    <3>2. CASE x \notin Batch BY <1>4, <2>1, <2>3, <3>2
    <3>3. QED BY <3>1, <3>2
  <2>4. text' = [x \in DOMAIN text \cup Batch |-> text'[x]] BY ONLY <1>1
  <2>7. text' \in [DOMAIN text \cup Batch -> Documents] BY ONLY <2>3, <2>4
  <2>5. DOMAIN text \cup Batch \in SUBSET Ids BY <1>5, <2>1
  <2>6. QED BY ONLY <2>5, <2>7, SomeFacts
<1>7. /\ index' = index \cup {Vector(i) : i \in DOMAIN todo}
      /\ refs' = refs \cup Added
      /\ past' = [past EXCEPT !.lost = (@ \ Added) \cup Taken \cup Waste, !.kept = @ \cup Taken]
      /\ UNCHANGED <<docs, marked, todo, files>>
  BY DEF Add, Batch, Added, Taken, Waste
<1>8. QED
  BY <1>1, <1>3, <1>4, <1>5, <1>6, <1>7

\* The files' record, field by field.
FilesType ==
  [docs   : Some(Documents, Versions) \cup {NoFile},
   index  : (SUBSET Vectors) \cup {NoFile},
   tables : Tables \cup {NoFile},
   past   : Pasts]

LEMMA ForgetTypes ==
  ASSUME Forget, at' = "out", files' \in FilesType
  PROVE  TypeOK'
<1>1. <<>> \in Some(Documents, Versions) /\ <<>> \in Some(Ids, Documents)
  BY SomeFacts
<1>2. NoPast \in Pasts
  BY DEF NoPast, Pasts
<1>3. QED
  BY <1>1, <1>2 DEF Forget, TypeOK, FilesType

LEMMA TypeStep ==
  ASSUME TypeOK, [Next]_vars
  PROVE  TypeOK'
<1>0. /\ <<>> \in Some(Documents, Versions) /\ <<>> \in Some(Ids, Documents)
      /\ NoPast \in Pasts /\ files \in FilesType
  BY SomeFacts DEF NoPast, Pasts, TypeOK, FilesType
<1>1. ASSUME NEW overwrite \in BOOLEAN, Open(overwrite) PROVE TypeOK'
  <2>1. at' = "opened" /\ UNCHANGED <<marked, todo, given, files>> BY <1>1 DEF Open
  <2>2. CASE Fresh BY <1>0, <2>1, <2>2 DEF Fresh, TypeOK, FilesType
  <2>3. CASE Load /\ files.docs # NoFile
    <3>1. docs' \in Some(Documents, Versions) /\ past' \in Pasts
      BY <1>0, <2>3 DEF Load, FilesType
    <3>2. CASE NoFile \in {files.index, files.tables}
      <4>1. index' = NoFile /\ text' = <<>> /\ refs' = {} BY <2>3, <3>2 DEF Load
      <4>2. QED BY <1>0, <2>1, <3>1, <4>1 DEF TypeOK, FilesType
    <3>3. CASE NoFile \notin {files.index, files.tables}
      <4>1. index' = files.index /\ text' = files.tables.text /\ refs' = files.tables.refs
        BY <2>3, <3>3 DEF Load
      <4>2. files.tables \in Tables
        BY <1>0, <3>3 DEF FilesType
      <4>3. text' \in Some(Ids, Documents) /\ refs' \subseteq Documents BY <4>1, <4>2 DEF Tables
      <4>4. index' \in (SUBSET Vectors) \cup {NoFile} BY <1>0, <4>1 DEF FilesType
      <4>5. QED BY <1>0, <2>1, <3>1, <4>3, <4>4 DEF TypeOK, FilesType
    <3>4. QED BY <3>2, <3>3
  <2>4. QED BY <1>1, <2>2, <2>3 DEF Open
<1>2. ASSUME NEW chunks \in Snapshots, Upsert(chunks) PROVE TypeOK'
  <2>1. chunks \in Some(Documents, Versions) BY StoreAssumption
  <2>2. DOMAIN chunks \subseteq Documents /\ \A d \in DOMAIN chunks : chunks[d] \in Versions
    BY <2>1, SomeFacts
  <2>3. DOMAIN docs \subseteq Documents /\ \A d \in DOMAIN docs : docs[d] \in Versions
    BY SomeFacts DEF TypeOK
  <2> DEFINE E == (DOMAIN docs \ Gone(chunks)) \cup New(chunks)
  <2>4. docs' = [d \in E |-> IF d \in DOMAIN chunks THEN chunks[d] ELSE docs[d]]
    BY <1>2, UpsertFacts
  <2>5. E \in SUBSET Documents /\ \A d \in E : d \in DOMAIN chunks \/ d \in DOMAIN docs
    BY <2>2, <2>3 DEF New
  <2> HIDE DEF E
  <2>6. docs' \in [E -> Versions] BY <2>2, <2>3, <2>4, <2>5
  <2>7. docs' \in Some(Documents, Versions) BY ONLY <2>5, <2>6, SomeFacts
  <2>8. marked' \subseteq Ids
    <3>1. DOMAIN text \subseteq Ids BY SomeFacts DEF TypeOK
    <3>2. marked' = IdsOf(Out(chunks)) BY <1>2, UpsertFacts
    <3>3. QED BY <3>1, <3>2 DEF IdsOf
  <2>9. past' \in Pasts
    <3>1. Out(chunks) \subseteq Documents BY <2>3 DEF Out, Changed, Gone
    <3>2. past' = [past EXCEPT !.kept = @ \cup (Out(chunks) \ refs)] BY <1>2, UpsertFacts
    <3>3. past \in Pasts BY DEF TypeOK
    <3>4. QED BY <3>1, <3>2, <3>3 DEF Pasts
  <2>10. at' = "upserted" /\ given' \in Some(Documents, Versions) BY <1>2, <2>1 DEF Upsert
  <2>11. todo' \in Seq([doc : Documents, version : Versions])
         /\ UNCHANGED <<index, text, refs, files>>
    BY <1>2, UpsertFacts
  <2>12. QED BY <2>7, <2>8, <2>9, <2>10, <2>11 DEF TypeOK
<1>3. CASE Add
  <2>1. at' = "added" /\ UNCHANGED <<docs, marked, todo, given, files>> BY <1>3 DEF Add
  <2>2. CASE index = NoFile
    <3>1. UNCHANGED <<index, text, refs, past>> BY <1>3, <2>2 DEF Add
    <3>2. QED BY <2>1, <3>1 DEF TypeOK
  <2>3. CASE index # NoFile
    <3>1. /\ Batch \subseteq Ids
          /\ index' = index \cup {Vector(i) : i \in DOMAIN todo}
          /\ text' \in Some(Ids, Documents) /\ refs' = refs \cup Added
          /\ past' = [past EXCEPT !.lost = (@ \ Added) \cup Taken \cup Waste, !.kept = @ \cup Taken]
      BY <1>3, <2>3, AddFacts
    <3>2. Added \subseteq Documents BY TodoFacts DEF Added
    <3>3. Waste \subseteq Documents BY TodoFacts DEF Waste
    <3>4. Taken \subseteq Documents BY SomeFacts DEF Taken, TypeOK
    <3>5. past' \in Pasts
      <4>1. past \in Pasts BY DEF TypeOK
      <4>2. QED BY <3>1, <3>2, <3>3, <3>4, <4>1 DEF Pasts
    <3>6. index' \in SUBSET Vectors
      <4>1. index \in SUBSET Vectors BY <2>3 DEF TypeOK
      <4>2. ASSUME NEW i \in DOMAIN todo PROVE Vector(i) \in Vectors
        <5>1. IdOf(i) \in Ids BY <3>1 DEF Batch
        <5>2. todo[i].doc \in Documents /\ todo[i].version \in Versions BY TodoFacts
        <5>3. QED BY <5>1, <5>2 DEF Vector, Vectors
      <4>3. QED BY <3>1, <4>1, <4>2
    <3>7. refs' \subseteq Documents BY <3>1, <3>2 DEF TypeOK
    <3>8. QED BY <2>1, <3>1, <3>5, <3>6, <3>7 DEF TypeOK
  <2>4. QED BY <2>2, <2>3
<1>4. CASE SaveDocuments
  <2>1. at' = "docsSaved" /\ UNCHANGED <<docs, index, text, refs, marked, todo, given, past>>
        /\ files' = [files EXCEPT !.docs = docs, !.past.torn = TRUE]
    BY <1>4 DEF SaveDocuments, memory
  <2>2. docs \in Some(Documents, Versions) BY DEF TypeOK
  <2>3. files.past \in Pasts BY <1>0 DEF FilesType
  <2>4. [files.past EXCEPT !.torn = TRUE] \in Pasts BY <2>3 DEF Pasts
  <2>5. files' \in FilesType BY <1>0, <2>1, <2>2, <2>4 DEF FilesType
  <2>6. QED BY <2>1, <2>5 DEF TypeOK, FilesType
<1>5. CASE SaveIndex
  <2>1. /\ index # NoFile /\ index' = {v \in index : v.id \notin marked}
        /\ files' = [files EXCEPT !.index = index'] /\ at' = "indexSaved"
        /\ UNCHANGED <<docs, text, refs, marked, todo, given, past>>
    BY <1>5 DEF SaveIndex
  <2>2. index' \in SUBSET Vectors BY <2>1 DEF TypeOK
  <2>3. files' \in FilesType BY <1>0, <2>1, <2>2 DEF FilesType
  <2>4. QED BY <2>1, <2>2, <2>3 DEF TypeOK, FilesType
<1>6. CASE SaveTables
  <2> DEFINE left == Restrict(text, DOMAIN text \ marked)
             rest == refs \ {text[i] : i \in marked \cap DOMAIN text}
  <2>1. /\ at' = "out" /\ Forget
        /\ files' = [files EXCEPT !.tables = [text |-> left, refs |-> rest], !.past = past]
    BY <1>6 DEF SaveTables
  <2>2. DOMAIN text \subseteq Ids /\ \A x \in DOMAIN text : text[x] \in Documents
    BY SomeFacts DEF TypeOK
  <2>3. left \in [DOMAIN text \ marked -> Documents] /\ DOMAIN text \ marked \in SUBSET Ids
    BY <2>2 DEF Restrict
  <2>4. rest \subseteq Documents /\ past \in Pasts BY DEF TypeOK
  <2> HIDE DEF left, rest
  <2>5. left \in Some(Ids, Documents) BY ONLY <2>3, SomeFacts
  <2>6. files' \in FilesType BY <1>0, <2>1, <2>4, <2>5 DEF FilesType, Tables
  <2>7. QED BY <2>1, <2>6, ForgetTypes
<1>7. CASE Stop
  <2>1. Forget /\ at' = "out" /\ files' \in FilesType BY <1>0, <1>7 DEF Stop
  <2>2. QED BY <2>1, ForgetTypes
<1>8. CASE UNCHANGED vars
  BY <1>8 DEF vars, memory, TypeOK
<1>9. QED
  BY <1>1, <1>2, <1>3, <1>4, <1>5, <1>6, <1>7, <1>8 DEF Next

\* The store in memory and its files keep their types, for any documents, any
\* batches of finitely many chunks and any bound on the ids
\* (index/stores/faiss.py: __init__, add_all and persist).
THEOREM StoreTypes == Spec => []TypeOK
<1>1. Init => TypeOK
  <2>1. <<>> \in Some(Documents, Versions) /\ <<>> \in Some(Ids, Documents) BY SomeFacts
  <2>2. NoPast \in Pasts BY DEF NoPast, Pasts
  <2>3. QED BY <2>1, <2>2 DEF Init, TypeOK, Nothing
<1>2. QED
  BY <1>1, TypeStep, PTL DEF Spec

-----------------------------------------------------------------------------
(* What a query finds *)

\* The tables lead from the vector to its own document, in its present text.
Good(v) ==
  /\ v.id \in DOMAIN text /\ text[v.id] = v.doc
  /\ v.doc \in DOMAIN docs /\ v.version = docs[v.doc]

Queued(d) == \E i \in DOMAIN todo : todo[i].doc = d

\* A document is found, or lost; a vector is good, or of a document that
\* outlived its entry: in a store that was loaded or is empty,
OpenedFits ==
  /\ \A d \in DOMAIN docs \ past.lost : \E v \in index : v.doc = d /\ Good(v)
  /\ \A v \in index : Good(v) \/ v.doc \in past.kept

\* when the pipeline has replaced and dropped documents, whose vectors are
\* marked and whose new nodes wait to be embedded,
UpsertedFits ==
  /\ \A i \in DOMAIN todo : todo[i].doc \in DOMAIN docs /\ todo[i].version = docs[todo[i].doc]
  /\ \A d \in DOMAIN docs \ past.lost :
       Queued(d) \/ \E v \in index : v.doc = d /\ Good(v) /\ v.id \notin marked
  /\ \A v \in index : v.id \in marked \/ (Good(v) /\ ~Queued(v.doc)) \/ v.doc \in past.kept

\* when the new nodes are in the index,
AddedFits ==
  /\ \A d \in DOMAIN docs \ past.lost :
       \E v \in index : v.doc = d /\ Good(v) /\ v.id \notin marked
  /\ \A v \in index : v.id \in marked \/ Good(v) \/ v.doc \in past.kept

\* and when the marked vectors have left it.
SavedFits == AddedFits /\ \A v \in index : v.id \notin marked

MemoryFits ==
  ~past.torn =>
    /\ at = "opened" /\ index # NoFile => OpenedFits
    /\ at = "upserted" /\ index # NoFile => UpsertedFits
    /\ at \in {"added", "docsSaved"} /\ index # NoFile => AddedFits
    /\ at = "indexSaved" => SavedFits

\* What a run has written so far is what it has in memory.
WrittenFits == at \in {"docsSaved", "indexSaved"} => files.docs = docs

FindInv == MemoryFits /\ WrittenFits /\ CurrentAreFound /\ OthersAreExplained

\* A directory whose files were written by one run is loaded as it was found.
LEMMA LoadFits ==
  ASSUME Inv, FindInv, Load, files.docs # NoFile, ~past'.torn, index' # NoFile
  PROVE  OpenedFits'
<1>1. /\ docs' = files.docs /\ past' = files.past
      /\ index' = files.index /\ text' = files.tables.text
  BY DEF Load
<1>2. Whole
  BY <1>1 DEF Whole
<1>3. \A v \in files.index : v.id \in DOMAIN files.tables.text
  BY <1>2 DEF Inv, IdsAgree
<1>4. \A v \in files.index : LeadsTo(v) = text'[v.id] /\ v.id \in DOMAIN text'
  BY <1>1, <1>3 DEF LeadsTo
<1>5. ASSUME NEW d \in DOMAIN docs' \ past'.lost
      PROVE  \E v \in index' : v.doc = d /\ Good(v)'
  <2>1. PICK v \in files.index : v.doc = d /\ v.version = files.docs[d] /\ LeadsTo(v) = d
    BY <1>1, <1>2, <1>5 DEF FindInv, CurrentAreFound
  <2>2. Good(v)' BY <1>1, <1>4, <1>5, <2>1 DEF Good
  <2>3. QED BY <1>1, <2>1, <2>2
<1>6. ASSUME NEW v \in index' PROVE Good(v)' \/ v.doc \in past'.kept
  <2>1. \/ LeadsTo(v) = v.doc /\ v.doc \in DOMAIN files.docs /\ v.version = files.docs[v.doc]
        \/ v.doc \in files.past.kept
    BY <1>1, <1>2, <1>6 DEF FindInv, OthersAreExplained
  <2>2. QED BY <1>1, <1>4, <1>6, <2>1 DEF Good
<1>7. QED
  BY <1>5, <1>6 DEF OpenedFits

\* A document that the pipeline neither adds nor replaces nor drops keeps its
\* vector; the vectors of the others are marked, or outlive their entry.
LEMMA UpsertFits ==
  ASSUME TypeOK, Inv, OpenedFits, NEW chunks \in Snapshots, Upsert(chunks), index # NoFile
  PROVE  UpsertedFits'
<1> DEFINE S == Changed(chunks) \cup New(chunks)
<1>1. /\ \A i \in DOMAIN todo' : todo'[i].doc \in S /\ todo'[i].version = chunks[todo'[i].doc]
      /\ \A d \in S : \E i \in DOMAIN todo' : todo'[i].doc = d
      /\ docs' = [d \in (DOMAIN docs \ Gone(chunks)) \cup New(chunks) |->
                    IF d \in DOMAIN chunks THEN chunks[d] ELSE docs[d]]
      /\ marked' = IdsOf(Out(chunks))
      /\ past' = [past EXCEPT !.kept = @ \cup (Out(chunks) \ refs)]
      /\ UNCHANGED <<index, text, refs, files>>
  BY UpsertFacts
<1>2. past'.lost = past.lost /\ past'.kept = past.kept \cup (Out(chunks) \ refs)
  BY <1>1 DEF Inv, Shape
<1>3. Gone(chunks) = DOMAIN docs \ DOMAIN chunks
  BY DEF Gone
<1>4. \A d : Queued(d)' <=> d \in S
  BY <1>1 DEF Queued
<1>5. /\ DOMAIN docs' = (DOMAIN docs \ Gone(chunks)) \cup New(chunks)
      /\ \A d \in DOMAIN docs' : docs'[d] = IF d \in DOMAIN chunks THEN chunks[d] ELSE docs[d]
  BY <1>1
<1>6. ASSUME NEW d \in DOMAIN docs, d \notin Out(chunks)
      PROVE  d \in DOMAIN docs' /\ docs'[d] = docs[d] /\ d \notin S
  BY <1>3, <1>5, <1>6 DEF Out, Changed, New
<1>7. ASSUME NEW v \in index, Good(v), v.doc \notin Out(chunks)
      PROVE  Good(v)' /\ ~Queued(v.doc)' /\ v.id \notin marked'
  BY <1>1, <1>4, <1>6, <1>7 DEF Good, IdsOf
<1>8. ASSUME NEW i \in DOMAIN todo'
      PROVE  todo'[i].doc \in DOMAIN docs' /\ todo'[i].version = docs'[todo'[i].doc]
  <2>1. todo'[i].doc \in S /\ todo'[i].version = chunks[todo'[i].doc] BY <1>1
  <2>2. \A d \in S : d \in DOMAIN docs' /\ d \in DOMAIN chunks /\ docs'[d] = chunks[d]
    BY <1>3, <1>5 DEF Changed, New
  <2>3. QED BY <2>1, <2>2
<1>9. ASSUME NEW d \in DOMAIN docs' \ past'.lost
      PROVE  Queued(d)' \/ \E v \in index' : v.doc = d /\ Good(v)' /\ v.id \notin marked'
  <2>1. CASE d \in S BY <1>4, <2>1
  <2>2. CASE d \notin S
    <3>1. d \in DOMAIN docs \ Gone(chunks) BY <1>5, <1>9, <2>2
    <3>2. d \notin Out(chunks) BY <2>2, <3>1 DEF Out
    <3>3. PICK v \in index : v.doc = d /\ Good(v) BY <1>2, <1>9, <3>1 DEF OpenedFits
    <3>4. QED BY <1>1, <1>7, <3>2, <3>3
  <2>3. QED BY <2>1, <2>2
<1>10. ASSUME NEW v \in index'
       PROVE  v.id \in marked' \/ (Good(v)' /\ ~Queued(v.doc)') \/ v.doc \in past'.kept
  <2>1. v \in index /\ (Good(v) \/ v.doc \in past.kept) BY <1>1, <1>10 DEF OpenedFits
  <2>2. CASE v.doc \in past.kept BY <1>2, <2>2
  <2>3. CASE Good(v) /\ v.doc \notin Out(chunks) BY <1>7, <2>1, <2>3
  <2>4. CASE Good(v) /\ v.doc \in Out(chunks) \ refs BY <1>2, <2>4
  <2>5. CASE Good(v) /\ v.doc \in Out(chunks) \cap refs BY <1>1, <2>5 DEF Good, IdsOf
  <2>6. QED BY <2>1, <2>2, <2>3, <2>4, <2>5
<1>11. QED
  BY <1>8, <1>9, <1>10 DEF UpsertedFits

\* A batch gives each of its documents a vector; whose id it takes loses its
\* entry, and who gets a marked id loses its vector when the index is saved.
LEMMA AddFits ==
  ASSUME TypeOK, Inv, UpsertedFits, Add, index # NoFile
  PROVE  AddedFits'
<1>1. /\ index' = index \cup {Vector(i) : i \in DOMAIN todo}
      /\ DOMAIN text' = DOMAIN text \cup Batch
      /\ \A i \in DOMAIN todo : text'[IdOf(i)] = todo[i].doc
      /\ \A x \in DOMAIN text \ Batch : text'[x] = text[x]
      /\ past' = [past EXCEPT !.lost = (@ \ Added) \cup Taken \cup Waste, !.kept = @ \cup Taken]
      /\ UNCHANGED <<docs, marked, todo, files>>
  BY AddFacts
<1>2. past'.lost = (past.lost \ Added) \cup Taken \cup Waste /\ past'.kept = past.kept \cup Taken
  BY <1>1 DEF Inv, Shape
<1>3. ASSUME NEW i \in DOMAIN todo, NEW v, v = Vector(i)
      PROVE  /\ v \in index' /\ v.doc = todo[i].doc /\ Good(v)'
             /\ v.id \in marked => todo[i].doc \in Waste
  <2>1. v.id = IdOf(i) /\ v.doc = todo[i].doc /\ v.version = todo[i].version
    BY <1>3 DEF Vector
  <2>2. IdOf(i) \in DOMAIN text' BY <1>1 DEF Batch
  <2>3. v.doc \in DOMAIN docs' /\ v.version = docs'[v.doc] BY <1>1, <2>1 DEF UpsertedFits
  <2>4. v.id \in DOMAIN text' /\ text'[v.id] = v.doc BY <1>1, <2>1, <2>2
  <2>5. v \in index' BY <1>1, <1>3
  <2>6. v.id \in marked => todo[i].doc \in Waste BY <2>1 DEF Waste
  <2>7. QED BY <2>1, <2>3, <2>4, <2>5, <2>6 DEF Good
<1>4. ASSUME NEW v \in index, Good(v), v.doc \notin Added
      PROVE  Good(v)' \/ v.doc \in Taken
  <2>1. CASE v.id \in Batch BY <1>4, <2>1 DEF Good, Taken
  <2>2. CASE v.id \notin Batch BY <1>1, <1>4, <2>2 DEF Good
  <2>3. QED BY <2>1, <2>2
<1>5. \A d : Queued(d) <=> d \in Added
  BY DEF Queued, Added
<1>6. ASSUME NEW d \in DOMAIN docs' \ past'.lost
      PROVE  \E v \in index' : v.doc = d /\ Good(v)' /\ v.id \notin marked'
  <2>1. CASE d \in Added
    <3>1. PICK i \in DOMAIN todo : todo[i].doc = d BY <2>1 DEF Added
    <3>2. PICK v : v = Vector(i) OBVIOUS
    <3>3. v \in index' /\ v.doc = d /\ (v.id \in marked => d \in Waste) BY <1>3, <3>1, <3>2
    <3>4. v.id \notin marked' BY <1>1, <1>2, <1>6, <3>3
    <3>5. Good(v)' BY <1>3, <3>1, <3>2
    <3>6. QED BY <3>3, <3>4, <3>5
  <2>2. CASE d \notin Added
    <3>1. d \in DOMAIN docs \ past.lost BY <1>1, <1>2, <1>6, <2>2
    <3>2. PICK v \in index : v.doc = d /\ Good(v) /\ v.id \notin marked
      BY <1>5, <2>2, <3>1 DEF UpsertedFits
    <3>3. d \notin Taken BY <1>2, <1>6
    <3>4. Good(v)' BY <1>4, <2>2, <3>2, <3>3
    <3>5. QED BY <1>1, <3>2, <3>4
  <2>3. QED BY <2>1, <2>2
<1>7. ASSUME NEW v \in index'
      PROVE  v.id \in marked' \/ Good(v)' \/ v.doc \in past'.kept
  <2>1. CASE v \in index
    <3>1. v.id \in marked \/ (Good(v) /\ v.doc \notin Added) \/ v.doc \in past.kept
      BY <1>5, <2>1 DEF UpsertedFits
    <3>2. QED BY <1>1, <1>2, <1>4, <2>1, <3>1
  <2>2. CASE v \notin index
    <3>1. PICK i \in DOMAIN todo : v = Vector(i) BY <1>1, <1>7, <2>2
    <3>2. Good(v)' BY <1>3, <3>1
    <3>3. QED BY <3>2
  <2>3. QED BY <2>1, <2>2
<1>8. QED
  BY <1>6, <1>7 DEF AddedFits

\* What the three files say once the tables are written.
LEMMA SaveFits ==
  ASSUME Inv, FindInv, SaveTables
  PROVE  CurrentAreFound' /\ OthersAreExplained'
<1> DEFINE left == Restrict(text, DOMAIN text \ marked)
           rest == refs \ {text[i] : i \in marked \cap DOMAIN text}
<1>1. at = "indexSaved" /\ files' = [files EXCEPT !.tables = [text |-> left, refs |-> rest],
                                                  !.past = past]
  BY DEF SaveTables
<1>2. /\ files'.past = past /\ files'.index = files.index /\ files'.docs = files.docs
      /\ files'.tables.text = left
  BY <1>1 DEF Inv, Shape
<1>3. files.docs = docs
  BY <1>1 DEF FindInv, WrittenFits
<1>4. SUFFICES ASSUME ~past.torn PROVE CurrentAreFound' /\ OthersAreExplained'
  BY <1>2 DEF CurrentAreFound, OthersAreExplained, Whole
<1>5. SavedFits /\ files.index = index
  BY <1>1, <1>3, <1>4 DEF FindInv, MemoryFits, Inv, MemoryAgrees
<1>6. DOMAIN left = DOMAIN text \ marked /\ \A x \in DOMAIN text \ marked : left[x] = text[x]
  BY DEF Restrict
<1>7. ASSUME NEW v \in index, v.id \in DOMAIN text PROVE LeadsTo(v)' = text[v.id]
  BY <1>2, <1>5, <1>6, <1>7 DEF LeadsTo, SavedFits
<1>8. CurrentAreFound'
  <2> SUFFICES ASSUME NEW d \in DOMAIN docs \ past.lost
               PROVE  \E v \in index : v.doc = d /\ v.version = docs[d] /\ LeadsTo(v)' = d
    BY <1>2, <1>3, <1>5 DEF CurrentAreFound
  <2>1. PICK v \in index : v.doc = d /\ Good(v) BY <1>5 DEF SavedFits, AddedFits
  <2>2. QED BY <1>7, <2>1 DEF Good
<1>9. OthersAreExplained'
  <2> SUFFICES ASSUME NEW v \in index
               PROVE  \/ /\ LeadsTo(v)' = v.doc /\ v.doc \in DOMAIN docs
                         /\ v.version = docs[v.doc]
                      \/ v.doc \in past.kept
    BY <1>2, <1>3, <1>5 DEF OthersAreExplained
  <2>1. Good(v) \/ v.doc \in past.kept BY <1>5 DEF SavedFits, AddedFits
  <2>2. QED BY <1>7, <2>1 DEF Good
<1>10. QED
  BY <1>8, <1>9

\* The properties speak of the files only, and of no torn ones.
LEMMA FilesStay ==
  ASSUME FindInv, files' = files \/ files'.past.torn
  PROVE  CurrentAreFound' /\ OthersAreExplained'
BY DEF FindInv, CurrentAreFound, OthersAreExplained, Whole, LeadsTo

LEMMA FindStep ==
  ASSUME TypeOK, Inv, FindInv, [Next]_vars
  PROVE  FindInv'
<1>1. ASSUME NEW overwrite \in BOOLEAN, Open(overwrite) PROVE FindInv'
  <2>1. at' = "opened" /\ UNCHANGED files BY <1>1 DEF Open
  <2>2. CASE Fresh
    <3>1. docs' = <<>> /\ index' = {} BY <2>2 DEF Fresh
    <3>2. DOMAIN docs' = {} BY <3>1
    <3>3. OpenedFits' BY <3>1, <3>2 DEF OpenedFits
    <3>4. QED BY <2>1, <3>3, FilesStay DEF FindInv, MemoryFits, WrittenFits
  <2>3. CASE Load /\ files.docs # NoFile
    <3>1. ~past'.torn /\ index' # NoFile => OpenedFits' BY <2>3, LoadFits
    <3>2. QED BY <2>1, <3>1, FilesStay DEF FindInv, MemoryFits, WrittenFits
  <2>4. QED BY <1>1, <2>2, <2>3 DEF Open
<1>2. ASSUME NEW chunks \in Snapshots, Upsert(chunks) PROVE FindInv'
  <2>1. at = "opened" /\ at' = "upserted" /\ UNCHANGED <<index, files>> BY <1>2 DEF Upsert
  <2>2. past' = [past EXCEPT !.kept = @ \cup (Out(chunks) \ refs)] BY <1>2, UpsertFacts
  <2>3. past'.torn = past.torn BY <2>2 DEF Inv, Shape
  <2>4. ~past'.torn /\ index' # NoFile => UpsertedFits'
    BY <1>2, <2>1, <2>3, UpsertFits DEF FindInv, MemoryFits
  <2>5. QED BY <2>1, <2>4, FilesStay DEF FindInv, MemoryFits, WrittenFits
<1>3. CASE Add
  <2>1. at = "upserted" /\ at' = "added" /\ UNCHANGED files BY <1>3 DEF Add
  <2>2. CASE index = NoFile
    <3>1. index' = NoFile BY <1>3, <2>2 DEF Add
    <3>2. QED BY <2>1, <3>1, FilesStay DEF FindInv, MemoryFits, WrittenFits
  <2>3. CASE index # NoFile
    <3>1. past' = [past EXCEPT !.lost = (@ \ Added) \cup Taken \cup Waste, !.kept = @ \cup Taken]
      BY <1>3, <2>3, AddFacts
    <3>2. past'.torn = past.torn BY <3>1 DEF Inv, Shape
    <3>3. ~past'.torn => AddedFits' BY <1>3, <2>1, <2>3, <3>2, AddFits DEF FindInv, MemoryFits
    <3>4. QED BY <2>1, <3>3, FilesStay DEF FindInv, MemoryFits, WrittenFits
  <2>4. QED BY <2>2, <2>3
<1>4. CASE SaveDocuments
  <2>1. /\ at = "added" /\ at' = "docsSaved"
        /\ files' = [files EXCEPT !.docs = docs, !.past.torn = TRUE]
        /\ UNCHANGED <<docs, index, text, marked, past>>
    BY <1>4 DEF SaveDocuments, memory
  <2>2. files'.past.torn /\ files'.docs = docs BY <2>1 DEF Inv, Shape
  <2>3. AddedFits => AddedFits' BY <2>1 DEF AddedFits, Good
  <2>4. QED BY <2>1, <2>2, <2>3, FilesStay DEF FindInv, MemoryFits, WrittenFits
<1>5. CASE SaveIndex
  <2>1. /\ at = "docsSaved" /\ index # NoFile /\ at' = "indexSaved"
        /\ index' = {v \in index : v.id \notin marked}
        /\ files' = [files EXCEPT !.index = index']
        /\ UNCHANGED <<docs, text, marked, past>>
    BY <1>5 DEF SaveIndex
  <2>2. /\ files'.past = files.past /\ files'.docs = files.docs /\ files.past.torn
    BY <2>1 DEF Inv, Shape, TornWhileWriting
  <2>3. AddedFits => SavedFits'
    <3>1. SUFFICES ASSUME AddedFits PROVE SavedFits' OBVIOUS
    <3>2. \A v : Good(v)' <=> Good(v) BY <2>1 DEF Good
    <3>3. QED BY <2>1, <3>1, <3>2 DEF AddedFits, SavedFits
  <2>4. QED BY <2>1, <2>2, <2>3, FilesStay DEF FindInv, MemoryFits, WrittenFits
<1>6. CASE SaveTables
  <2>1. at' = "out" BY <1>6 DEF SaveTables
  <2>2. QED BY <1>6, <2>1, SaveFits DEF FindInv, MemoryFits, WrittenFits
<1>7. CASE Stop
  <2>1. at' = "out" /\ UNCHANGED files BY <1>7 DEF Stop
  <2>2. QED BY <2>1, FilesStay DEF FindInv, MemoryFits, WrittenFits
<1>8. CASE UNCHANGED vars
  <2>1. UNCHANGED <<at, docs, index, text, marked, todo, past, files>>
    BY <1>8 DEF vars, memory
  <2>2. QED
    BY <2>1, FilesStay DEF FindInv, MemoryFits, WrittenFits, OpenedFits, UpsertedFits, AddedFits,
       SavedFits, Good, Queued
<1>9. QED
  BY <1>1, <1>2, <1>3, <1>4, <1>5, <1>6, <1>7, <1>8 DEF Next

LEMMA FindInvariant == Spec => []FindInv
<1>1. Init => FindInv
  <2> SUFFICES ASSUME Init PROVE FindInv
    OBVIOUS
  <2>1. at = "out" /\ files.docs = NoFile BY DEF Init, Nothing
  <2>2. QED
    BY <2>1 DEF FindInv, MemoryFits, WrittenFits, CurrentAreFound, OthersAreExplained, Whole
<1>2. QED
  BY <1>1, InvInit, InvNext, StoreTypes, FindStep, PTL DEF Spec

\* In files that one run has written, a query finds every document under its
\* present text, except those that lost their vector to an added batch: one
\* whose id the batch took, or one that got an id already marked for removal
\* (index/stores/faiss.py: add, delete and persist).
THEOREM DocumentsAreFound == Spec => []CurrentAreFound
<1>1. FindInv => CurrentAreFound
  BY DEF FindInv
<1>2. QED
  BY <1>1, FindInvariant, PTL

\* And every vector in them leads to its own document in its present text,
\* unless its entry was taken by a batch or its document was dropped while the
\* tables did not know it (index/stores/faiss.py: add and delete).
THEOREM VectorsAreExplained == Spec => []OthersAreExplained
<1>1. FindInv => OthersAreExplained
  BY DEF FindInv
<1>2. QED
  BY <1>1, FindInvariant, PTL

-----------------------------------------------------------------------------
(* Refinement: IndexDirectory.                                             *)

\* Files that one run has written are all there, and so is the vector store of a
\* run that did not load torn ones; its documents are then what it was given.
Complete ==
  /\ Whole => files.index # NoFile /\ files.tables # NoFile
  /\ at # "out" /\ ~past.torn => index # NoFile
  /\ at \notin {"out", "opened"} /\ ~past.torn => docs = given

\* A run on a vector store leaves in the document store what it was given.
LEMMA UpsertReplaces ==
  ASSUME TypeOK, index # NoFile, NEW chunks \in Snapshots, Upsert(chunks)
  PROVE  docs' = chunks
<1>1. docs' = [d \in (DOMAIN docs \ Gone(chunks)) \cup New(chunks) |->
                 IF d \in DOMAIN chunks THEN chunks[d] ELSE docs[d]]
  BY UpsertFacts
<1>2. (DOMAIN docs \ Gone(chunks)) \cup New(chunks) = DOMAIN chunks
  BY DEF Gone, New
<1>3. chunks = [d \in DOMAIN chunks |-> chunks[d]]
  <2>1. PICK E \in SUBSET Documents : chunks \in [E -> Versions] BY StoreAssumption DEF Some
  <2>2. QED BY <2>1
<1>4. QED
  BY <1>1, <1>2, <1>3

LEMMA CompleteStep ==
  ASSUME TypeOK, TypeOK', Inv, Complete, [Next]_vars
  PROVE  Complete'
<1>0. NoFile \notin SUBSET Vectors /\ NoFile \notin Tables
  BY NoFileAssumption
<1>1. ASSUME NEW overwrite \in BOOLEAN, Open(overwrite) PROVE Complete'
  <2>1. at' = "opened" /\ UNCHANGED files BY <1>1 DEF Open
  <2>2. CASE Fresh
    <3>1. index' = {} BY <2>2 DEF Fresh
    <3>2. QED BY <1>0, <2>1, <3>1 DEF Complete, Whole
  <2>3. CASE Load /\ files.docs # NoFile
    <3>1. past' = files.past BY <2>3 DEF Load
    <3>2. ~past'.torn => Whole BY <2>3, <3>1 DEF Whole
    <3>3. ~past'.torn => index' = files.index /\ files.index # NoFile
      BY <2>3, <3>2 DEF Complete, Load
    <3>4. QED BY <2>1, <3>3 DEF Complete, Whole
  <2>4. QED BY <1>1, <2>2, <2>3 DEF Open
<1>2. ASSUME NEW chunks \in Snapshots, Upsert(chunks) PROVE Complete'
  <2>1. at = "opened" /\ at' = "upserted" /\ given' = chunks /\ UNCHANGED <<index, files>>
    BY <1>2 DEF Upsert
  <2>2. past' = [past EXCEPT !.kept = @ \cup (Out(chunks) \ refs)] BY <1>2, UpsertFacts
  <2>3. past'.torn = past.torn BY <2>2 DEF Inv, Shape
  <2>4. ~past.torn => docs' = given' BY <1>2, <2>1, UpsertReplaces DEF Complete
  <2>5. QED BY <2>1, <2>3, <2>4 DEF Complete, Whole
<1>3. CASE Add
  <2>1. at = "upserted" /\ at' = "added" /\ UNCHANGED <<docs, given, files>> BY <1>3 DEF Add
  <2>2. CASE index = NoFile
    <3>1. UNCHANGED <<index, past>> BY <1>3, <2>2 DEF Add
    <3>2. QED BY <2>1, <3>1 DEF Complete, Whole
  <2>3. CASE index # NoFile
    <3>1. index' = index \cup {Vector(i) : i \in DOMAIN todo} /\ index \in SUBSET Vectors
      BY <1>3, <2>3 DEF Add, TypeOK
    <3>2. ASSUME NEW i \in DOMAIN todo PROVE Vector(i) \in Vectors
      <4>1. IdOf(i) \in Ids BY <1>3, <2>3, AddFacts DEF Batch
      <4>2. todo[i].doc \in Documents /\ todo[i].version \in Versions BY TodoFacts
      <4>3. QED BY <4>1, <4>2 DEF Vector, Vectors
    <3>3. index' \in SUBSET Vectors BY <3>1, <3>2
    <3>4. past' = [past EXCEPT !.lost = (@ \ Added) \cup Taken \cup Waste, !.kept = @ \cup Taken]
      BY <1>3, <2>3, AddFacts
    <3>5. past'.torn = past.torn BY <3>4 DEF Inv, Shape
    <3>6. QED BY <1>0, <2>1, <3>3, <3>5 DEF Complete, Whole
  <2>4. QED BY <2>2, <2>3
<1>4. CASE SaveDocuments
  <2>1. /\ at = "added" /\ files' = [files EXCEPT !.docs = docs, !.past.torn = TRUE]
        /\ UNCHANGED <<docs, given, index, past>>
    BY <1>4 DEF SaveDocuments, memory
  <2>2. files'.past.torn BY <2>1 DEF Inv, Shape
  <2>3. QED BY <2>1, <2>2 DEF Complete, Whole
<1>5. CASE SaveIndex
  <2>1. /\ at = "docsSaved" /\ index # NoFile /\ index' = {v \in index : v.id \notin marked}
        /\ files' = [files EXCEPT !.index = index'] /\ UNCHANGED <<docs, given, past>>
    BY <1>5 DEF SaveIndex
  <2>2. files'.past.torn BY <2>1 DEF Inv, Shape, TornWhileWriting
  <2>3. index' \in SUBSET Vectors BY <2>1 DEF TypeOK
  <2>4. QED BY <1>0, <2>1, <2>2, <2>3 DEF Complete, Whole
<1>6. CASE SaveTables
  <2>1. PICK left, rest :
          /\ left = Restrict(text, DOMAIN text \ marked)
          /\ rest = refs \ {text[i] : i \in marked \cap DOMAIN text}
          /\ files' = [files EXCEPT !.tables = [text |-> left, refs |-> rest], !.past = past]
    BY <1>6 DEF SaveTables
  <2>2. at = "indexSaved" /\ at' = "out" BY <1>6 DEF SaveTables
  <2>3. /\ files'.past = past /\ files'.index = files.index
        /\ files'.tables = [text |-> left, refs |-> rest]
    BY <2>1 DEF Inv, Shape
  <2>4. ~past.torn => files'.index # NoFile
    BY <2>2, <2>3 DEF Complete, Inv, MemoryAgrees
  <2>5. files'.tables # NoFile
    <3>1. DOMAIN text \subseteq Ids /\ \A x \in DOMAIN text : text[x] \in Documents
      BY SomeFacts DEF TypeOK
    <3>2. left \in [DOMAIN text \ marked -> Documents] /\ DOMAIN text \ marked \in SUBSET Ids
      BY <2>1, <3>1 DEF Restrict
    <3>3. left \in Some(Ids, Documents) BY ONLY <3>2, SomeFacts
    <3>4. rest \subseteq Documents BY <2>1 DEF TypeOK
    <3>5. QED BY <1>0, <2>3, <3>3, <3>4 DEF Tables
  <2>6. QED BY <2>2, <2>3, <2>4, <2>5 DEF Complete, Whole
<1>7. CASE Stop
  BY <1>7 DEF Stop, Complete, Whole
<1>8. CASE UNCHANGED vars
  BY <1>8 DEF vars, memory, Complete, Whole
<1>9. QED
  BY <1>1, <1>2, <1>3, <1>4, <1>5, <1>6, <1>7, <1>8 DEF Next

LEMMA CompleteInvariant == Spec => []Complete
<1>1. Init => Complete
  BY DEF Init, Nothing, Complete, Whole
<1>2. QED
  BY <1>1, InvInit, InvNext, StoreTypes, CompleteStep, PTL DEF Spec

\* The mapping: state, contents, run and goal of IndexDirectory.
StateOf == IF files.docs = NoFile THEN "none" ELSE IF files.past.torn THEN "torn" ELSE "whole"
HeldOf  == IF Whole THEN files.docs ELSE <<>>
RunOf   == IF at = "out" THEN "none" ELSE IF Spoilt THEN "spoilt"
           ELSE IF at = "opened" THEN "begun" ELSE "aimed"
GoalOf  == IF at \in {"out", "opened"} \/ Spoilt THEN <<>> ELSE given

\* Every step of a run is one of the directory's.
LEMMA DirectoryStep ==
  ASSUME TypeOK, Inv, FindInv, Complete, [Next]_vars
  PROVE  Directory!Next \/ UNCHANGED <<StateOf, HeldOf, RunOf, GoalOf>>
<1>1. ASSUME NEW overwrite \in BOOLEAN, Open(overwrite) PROVE Directory!Next
  <2>1. at = "out" /\ at' = "opened" /\ UNCHANGED files BY <1>1 DEF Open
  <2>2. UNCHANGED <<StateOf, HeldOf, GoalOf>>
    BY <2>1 DEF StateOf, HeldOf, GoalOf, Whole
  <2>3. RunOf = "none" /\ RunOf' = IF past'.torn THEN "spoilt" ELSE "begun"
    BY <2>1 DEF RunOf, Spoilt
  <2>4. past'.torn <=> StateOf = "torn" /\ ~overwrite
    <3>1. CASE files.docs # NoFile /\ ~overwrite
      BY <1>1, <3>1 DEF Open, Load, StateOf
    <3>2. CASE ~(files.docs # NoFile /\ ~overwrite)
      <4>1. ~past'.torn BY <1>1, <3>2 DEF Open, Fresh, NoPast
      <4>2. QED BY <3>2, <4>1 DEF StateOf
    <3>3. QED BY <3>1, <3>2
  <2>5. Directory!Begin(overwrite)
    BY <2>2, <2>3, <2>4 DEF Directory!Begin, StateOf, HeldOf, RunOf, GoalOf
  <2>6. QED BY <2>5 DEF Directory!Next
<1>2. ASSUME NEW chunks \in Snapshots, Upsert(chunks)
      PROVE  Directory!Next \/ UNCHANGED <<StateOf, HeldOf, RunOf, GoalOf>>
  <2>1. at = "opened" /\ at' = "upserted" /\ given' = chunks /\ UNCHANGED files
    BY <1>2 DEF Upsert
  <2>2. past' = [past EXCEPT !.kept = @ \cup (Out(chunks) \ refs)] BY <1>2, UpsertFacts
  <2>3. past'.torn = past.torn BY <2>2 DEF Inv, Shape
  <2>4. UNCHANGED <<StateOf, HeldOf>> BY <2>1 DEF StateOf, HeldOf, Whole
  <2>5. CASE past.torn
    <3>1. UNCHANGED <<RunOf, GoalOf>> BY <2>1, <2>3, <2>5 DEF RunOf, GoalOf, Spoilt
    <3>2. QED BY <2>4, <3>1
  <2>6. CASE ~past.torn
    <3>1. /\ RunOf = "begun" /\ RunOf' = "aimed" /\ GoalOf' = chunks
      BY <2>1, <2>3, <2>6 DEF RunOf, GoalOf, Spoilt
    <3>2. Directory!Aim(chunks)
      BY <2>4, <3>1 DEF Directory!Aim, StateOf, HeldOf, RunOf, GoalOf
    <3>3. QED BY <3>2 DEF Directory!Next
  <2>7. QED BY <2>5, <2>6
<1>3. CASE Add
  <2>1. at = "upserted" /\ at' = "added" /\ UNCHANGED <<files, given>> BY <1>3 DEF Add
  <2>2. past'.torn = past.torn
    <3>1. CASE index = NoFile BY <1>3, <3>1 DEF Add
    <3>2. CASE index # NoFile
      <4>1. past' = [past EXCEPT !.lost = (@ \ Added) \cup Taken \cup Waste, !.kept = @ \cup Taken]
        BY <1>3, <3>2, AddFacts
      <4>2. QED BY <4>1 DEF Inv, Shape
    <3>3. QED BY <3>1, <3>2
  <2>3. QED BY <2>1, <2>2 DEF StateOf, HeldOf, RunOf, GoalOf, Whole, Spoilt
<1>4. CASE SaveDocuments
  <2>1. /\ at = "added" /\ at' = "docsSaved" /\ UNCHANGED <<given, past>>
        /\ files' = [files EXCEPT !.docs = docs, !.past.torn = TRUE]
    BY <1>4 DEF SaveDocuments, memory
  <2>2. files'.docs = docs /\ files'.past.torn BY <2>1 DEF Inv, Shape
  <2>3. docs # NoFile BY NoFileAssumption DEF TypeOK
  <2>4. StateOf' = "torn" /\ HeldOf' = <<>> BY <2>2, <2>3 DEF StateOf, HeldOf, Whole
  <2>5. RunOf \in {"aimed", "spoilt"} /\ UNCHANGED <<RunOf, GoalOf>>
    BY <2>1 DEF RunOf, GoalOf, Spoilt
  <2>6. Directory!Tear
    BY <2>4, <2>5 DEF Directory!Tear, StateOf, HeldOf, RunOf, GoalOf
  <2>7. QED BY <2>6 DEF Directory!Next
<1>5. CASE SaveIndex
  <2>1. /\ at = "docsSaved" /\ at' = "indexSaved" /\ UNCHANGED <<given, past>>
        /\ files' = [files EXCEPT !.index = index']
    BY <1>5 DEF SaveIndex
  <2>2. files'.past = files.past /\ files'.docs = files.docs BY <2>1 DEF Inv, Shape
  <2>3. QED BY <2>1, <2>2 DEF StateOf, HeldOf, RunOf, GoalOf, Whole, Spoilt
<1>6. CASE SaveTables
  <2>1. PICK tables : files' = [files EXCEPT !.tables = tables, !.past = past]
    BY <1>6 DEF SaveTables
  <2>2. files'.past = past /\ files'.docs = files.docs BY <2>1 DEF Inv, Shape
  <2>3. at = "indexSaved" /\ at' = "out" BY <1>6 DEF SaveTables
  <2>4. files.docs = docs /\ docs # NoFile /\ files.past.torn
    BY <2>3, NoFileAssumption DEF FindInv, WrittenFits, Inv, TornWhileWriting, TypeOK
  <2>5. StateOf = "torn" /\ HeldOf = <<>> /\ RunOf' = "none" /\ GoalOf' = <<>>
    BY <2>3, <2>4 DEF StateOf, HeldOf, RunOf, GoalOf, Whole
  <2>6. CASE past.torn
    <3>1. UNCHANGED <<StateOf, HeldOf>> BY <2>2, <2>4, <2>6 DEF StateOf, HeldOf, Whole
    <3>2. Directory!Stop BY <2>5, <3>1 DEF Directory!Stop, StateOf, HeldOf, RunOf, GoalOf
    <3>3. QED BY <3>2 DEF Directory!Next
  <2>7. CASE ~past.torn
    <3>1. StateOf' = "whole" /\ HeldOf' = docs BY <2>2, <2>4, <2>7 DEF StateOf, HeldOf, Whole
    <3>2. RunOf = "aimed" /\ GoalOf = docs BY <2>3, <2>7 DEF Complete, RunOf, GoalOf, Spoilt
    <3>3. Directory!Finish
      BY <2>5, <3>1, <3>2 DEF Directory!Finish, StateOf, HeldOf, RunOf, GoalOf
    <3>4. QED BY <3>3 DEF Directory!Next
  <2>8. QED BY <2>6, <2>7
<1>7. CASE Stop
  <2>1. at' = "out" /\ UNCHANGED files BY <1>7 DEF Stop
  <2>2. UNCHANGED <<StateOf, HeldOf>> /\ RunOf' = "none" /\ GoalOf' = <<>>
    BY <2>1 DEF StateOf, HeldOf, RunOf, GoalOf, Whole
  <2>3. Directory!Stop BY <2>2 DEF Directory!Stop, StateOf, HeldOf, RunOf, GoalOf
  <2>4. QED BY <2>3 DEF Directory!Next
<1>8. CASE UNCHANGED vars
  BY <1>8 DEF vars, memory, StateOf, HeldOf, RunOf, GoalOf, Whole, Spoilt
<1>9. QED
  BY <1>1, <1>2, <1>3, <1>4, <1>5, <1>6, <1>7, <1>8 DEF Next

\* A directory is as the last completed run left it, it holds exactly the chunks
\* that run was given, or it is torn, and then stays so until a run overwrites it,
\* whatever its vectors and tables went through (index/stores/faiss.py: __init__,
\* add_all and persist; index/core.py: Indexer.run).
THEOREM StoreImplementsDirectory == Spec => ImplementsDirectory
<1>1. Init => Directory!Init
  BY DEF Init, Nothing, NoPast, Directory!Init, Whole
<1>2. ASSUME TypeOK, Inv, FindInv, Complete, [Next]_vars
      PROVE  Directory!Next \/ UNCHANGED Directory!dvars
  <2>1. Directory!Next \/ UNCHANGED <<StateOf, HeldOf, RunOf, GoalOf>>
    BY <1>2, DirectoryStep
  <2>2. QED BY <2>1 DEF Directory!dvars, StateOf, HeldOf, RunOf, GoalOf
<1>3. QED
  BY <1>1, <1>2, InvInit, InvNext, StoreTypes, FindInvariant, CompleteInvariant, PTL
     DEF Spec, ImplementsDirectory, Directory!Spec

=============================================================================
