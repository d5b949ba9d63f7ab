-------------------------- MODULE DocumentsProofs --------------------------
(***************************************************************************)
(* The three stores of a document agree, and what is generated or answered *)
(* from it is of its own pupil and subject, for any number of uploads,     *)
(* generations, questions, pupils and subjects.                            *)
(***************************************************************************)
EXTENDS Documents, TLAPS

HomeChunk(u) == [collection |-> collection_name(u), document |-> u]

\* How far an upload has come tells what each store holds of it.
StoresInv ==
    /\ \A c \in index : c = HomeChunk(c.document)
    /\ \A u \in Uploads :
          /\ pc[u] \in {"new", "extract", "index", "review"} => HomeChunk(u) \notin index
          /\ pc[u] = "persist" => HomeChunk(u) \in index
          /\ pc[u] \in Working => u \in bucket
          /\ pc[u] = "failed" => u \notin bucket
          /\ rows[u] # "absent" => pc[u] = "stored" /\ u \in bucket
          /\ rows[u] = "indexed" => HomeChunk(u) \in index
          /\ rows[u] = "manual_review_needed" => HomeChunk(u) \notin index

\* What a generation has established when it is at a place.
GenerationsInv ==
    \A g \in Generations :
        /\ pc[g] \in {"retrieve", "write"} =>
              rows[source[g]] # "absent" /\ owner[source[g]] = owner[g]
        /\ pc[g] = "write" =>
              rows[source[g]] = "indexed" /\ subject[source[g]] = subject[g]

DocumentsInv ==
    /\ TypeOK
    /\ StoresInv
    /\ GenerationsInv
    /\ ExercisesMatchTheirDocument
    /\ CitationsStayAtHome

-----------------------------------------------------------------------------
(* Initially *)

LEMMA DocumentsInit == Init => DocumentsInv
<1> SUFFICES ASSUME Init PROVE DocumentsInv
  OBVIOUS
<1>1. TypeOK
  BY DocumentsAssumption DEF Init, TypeOK, Operations
<1>2. StoresInv
  BY DEF Init, StoresInv, Operations, Working
<1>3. GenerationsInv
  BY DEF Init, GenerationsInv, Operations
<1>4. ExercisesMatchTheirDocument /\ CitationsStayAtHome
  BY DEF Init, ExercisesMatchTheirDocument, CitationsStayAtHome
<1> QED BY <1>1, <1>2, <1>3, <1>4 DEF DocumentsInv

-----------------------------------------------------------------------------
(* Type correctness *)

LEMMA TypeStep == TypeOK /\ [Next]_vars => TypeOK'
<1> SUFFICES ASSUME TypeOK, [Next]_vars PROVE TypeOK'
  OBVIOUS
<1> USE DEF Goto, asked, Operations, Working, Ended
<1>1. ASSUME NEW u \in Uploads, UploadRefused(u) \/ ExtractText(u) \/ PipelineFails(u)
                                  \/ RemoveRaises(u)
      PROVE  TypeOK'
  BY <1>1 DEF UploadRefused, ExtractText, PipelineFails, RemoveRaises, TypeOK
<1>2. ASSUME NEW u \in Uploads, PutObject(u) \/ RemoveObject(u) PROVE TypeOK'
  BY <1>2 DEF PutObject, RemoveObject, TypeOK
<1>3. ASSUME NEW u \in Uploads, AddChunks(u) PROVE TypeOK'
  <2>1. [collection |-> collection_name(u), document |-> u] \in Chunks
    BY DEF TypeOK, collection_name, Chunks, Collections
  <2> QED BY <1>3, <2>1 DEF AddChunks, TypeOK
<1>4. ASSUME NEW u \in Uploads, PersistDocument(u) PROVE TypeOK'
  BY <1>4 DEF PersistDocument, TypeOK
<1>5. ASSUME NEW g \in Generations, GenerationRefused(g) \/ FindDocument(g) \/ Retrieve(g)
                                      \/ GenerationFails(g)
      PROVE  TypeOK'
  BY <1>5 DEF GenerationRefused, FindDocument, Retrieve, GenerationFails, TypeOK
<1>6. ASSUME NEW g \in Generations, PersistExercise(g) PROVE TypeOK'
  <2>1. [pupil |-> owner[g], subject |-> subject[g], document |-> source[g]] \in Exercise
    BY DEF TypeOK, Exercise
  <2> QED BY <1>6, <2>1 DEF PersistExercise, TypeOK
<1>7. ASSUME NEW q \in Questions, Answer(q) PROVE TypeOK'
  <2>1. query(q) \subseteq Uploads
    BY DEF TypeOK, query, Chunks
  <2> QED BY <1>7, <2>1 DEF Answer, TypeOK
<1>8. ASSUME NEW x \in Operations, Die(x) \/ (x \in Questions /\ AnswerFails(x)) PROVE TypeOK'
  BY <1>8 DEF Die, AnswerFails, TypeOK
<1>9. CASE UNCHANGED vars
  BY <1>9 DEF vars, TypeOK
<1> QED BY <1>1, <1>2, <1>3, <1>4, <1>5, <1>6, <1>7, <1>8, <1>9 DEF Next, Upload, Generate

-----------------------------------------------------------------------------
(* The stores *)

\* A step of an operation that is no upload, or that writes to no store.
LEMMA StoresKept ==
    ASSUME TypeOK, StoresInv, UNCHANGED <<asked, bucket, index, rows>>,
           NEW x \in Operations, NEW place, pc' = [pc EXCEPT ![x] = place],
           x \in Uploads =>
               /\ rows[x] = "absent"
               /\ place \notin {"new", "persist", "failed"}
               /\ place \in {"extract", "index", "review"} =>
                     pc[x] \in {"new", "extract", "index", "review"}
               /\ place \in Working => pc[x] \in Working
    PROVE  StoresInv'
<1> USE DEF asked, HomeChunk, collection_name
<1>1. (\A c \in index : c = HomeChunk(c.document))'
  BY DEF StoresInv
<1>2. ASSUME NEW u \in Uploads, u # x
      PROVE  pc'[u] = pc[u]
  BY <1>2 DEF TypeOK, Operations
<1>3. x \in Uploads => pc'[x] = place
  BY DEF TypeOK, Operations
<1> QED BY <1>1, <1>2, <1>3 DEF StoresInv

LEMMA StoresStep == TypeOK /\ StoresInv /\ [Next]_vars => StoresInv'
<1> SUFFICES ASSUME TypeOK, StoresInv, [Next]_vars PROVE StoresInv'
  OBVIOUS
<1> USE DEF Goto
<1>1. ASSUME NEW u \in Uploads, pc[u] # "stored" PROVE rows[u] = "absent"
  BY <1>1 DEF StoresInv
<1>2. ASSUME NEW x \in Questions \cup Generations PROVE x \in Operations /\ x \notin Uploads
  BY DocumentsAssumption DEF Operations
<1>3. ASSUME NEW u \in Uploads, UploadRefused(u) PROVE StoresInv'
  BY <1>1, <1>3, StoresKept DEF UploadRefused, Operations, Working
<1>4. ASSUME NEW u \in Uploads, PutObject(u) PROVE StoresInv'
  BY <1>1, <1>4 DEF PutObject, StoresInv, TypeOK, Operations, asked, HomeChunk,
                    collection_name, Working
<1>5. ASSUME NEW u \in Uploads, ExtractText(u) PROVE StoresInv'
  BY <1>1, <1>5, StoresKept DEF ExtractText, Operations, Working
<1>6. ASSUME NEW u \in Uploads, AddChunks(u) PROVE StoresInv'
  <2>1. HomeChunk(u).document = u /\ rows[u] = "absent"
    BY <1>1, <1>6 DEF AddChunks, HomeChunk
  <2>2. index' = index \cup {HomeChunk(u)} /\ UNCHANGED <<asked, bucket, rows>>
    BY <1>6 DEF AddChunks, HomeChunk
  <2>3. \A v \in Uploads : HomeChunk(v)' = HomeChunk(v) /\ (v # u => HomeChunk(v) # HomeChunk(u))
    BY <2>2 DEF HomeChunk, collection_name, asked
  <2>4. pc'[u] = "persist" /\ pc[u] = "index" /\ \A v \in Uploads \ {u} : pc'[v] = pc[v]
    BY <1>6 DEF AddChunks, TypeOK, Operations
  <2>5. (\A c \in index : c = HomeChunk(c.document))'
    BY <2>1, <2>2 DEF StoresInv, HomeChunk, collection_name, asked
  <2> QED BY <2>1, <2>2, <2>3, <2>4, <2>5 DEF StoresInv, Working
<1>7. ASSUME NEW u \in Uploads, PersistDocument(u) PROVE StoresInv'
  BY <1>1, <1>7 DEF PersistDocument, StoresInv, TypeOK, Operations, asked, HomeChunk,
                    collection_name, Working
<1>8. ASSUME NEW u \in Uploads, PipelineFails(u) PROVE StoresInv'
  BY <1>1, <1>8, StoresKept DEF PipelineFails, Operations, Working
<1>9. ASSUME NEW u \in Uploads, RemoveObject(u) PROVE StoresInv'
  BY <1>1, <1>9 DEF RemoveObject, StoresInv, TypeOK, Operations, asked, HomeChunk,
                    collection_name, Working
<1>10. ASSUME NEW u \in Uploads, RemoveRaises(u) PROVE StoresInv'
  BY <1>1, <1>10, StoresKept DEF RemoveRaises, Operations, Working
<1>11. ASSUME NEW g \in Generations, Generate(g) PROVE StoresInv'
  BY <1>2, <1>11, StoresKept
     DEF Generate, GenerationRefused, FindDocument, Retrieve, PersistExercise, GenerationFails
<1>12. ASSUME NEW q \in Questions, Answer(q) \/ AnswerFails(q) PROVE StoresInv'
  BY <1>2, <1>12, StoresKept DEF Answer, AnswerFails
<1>13. ASSUME NEW x \in Operations, Die(x) PROVE StoresInv'
  BY <1>1, <1>13, StoresKept DEF Die, Working
<1>14. CASE UNCHANGED vars
  BY <1>14 DEF vars, asked, StoresInv, HomeChunk, collection_name
<1> QED BY <1>3, <1>4, <1>5, <1>6, <1>7, <1>8, <1>9, <1>10, <1>11, <1>12, <1>13, <1>14
        DEF Next, Upload

-----------------------------------------------------------------------------
(* Rows only appear, and what operations ask for never changes *)

LEMMA AskedKept == [Next]_vars => UNCHANGED asked
  BY DEF Next, Upload, UploadRefused, PutObject, ExtractText, AddChunks, PersistDocument,
         PipelineFails, RemoveObject, RemoveRaises, Generate, GenerationRefused,
         FindDocument, Retrieve, PersistExercise, GenerationFails, Answer, AnswerFails,
         Die, vars

LEMMA RowsAppear ==
    ASSUME TypeOK, StoresInv, [Next]_vars, NEW u \in Uploads, rows[u] # "absent"
    PROVE  rows'[u] = rows[u]
<1>1. ASSUME NEW v \in Uploads, PersistDocument(v) PROVE rows'[u] = rows[u]
  <2>1. u # v
    BY <1>1 DEF PersistDocument, StoresInv
  <2> QED BY <1>1, <2>1 DEF PersistDocument, TypeOK
<1>2. CASE UNCHANGED rows
  BY <1>2
<1> QED BY <1>1, <1>2
        DEF Next, Upload, UploadRefused, PutObject, ExtractText, AddChunks, PipelineFails,
            RemoveObject, RemoveRaises, Generate, GenerationRefused, FindDocument,
            Retrieve, PersistExercise, GenerationFails, Answer, AnswerFails, Die, vars

\* A generation at "retrieve" that finds a chunk has an indexed document of
\* its own subject: the chunk is at home, and a row for review has none.
LEMMA FoundIsIndexed ==
    ASSUME TypeOK, StoresInv, NEW g \in Generations,
           rows[source[g]] # "absent", get_chunks_for_document(g) # {}
    PROVE  rows[source[g]] = "indexed" /\ subject[source[g]] = subject[g]
<1>1. source[g] \in Uploads
  BY DEF TypeOK
<1>2. PICK c \in index : c.collection = collection_name(g) /\ c.document = source[g]
  BY DEF get_chunks_for_document
<1>3. c = HomeChunk(source[g])
  BY <1>2 DEF StoresInv
<1>4. collection_name(g) = collection_name(source[g])
  BY <1>2, <1>3 DEF HomeChunk
<1>5. subject[source[g]] = subject[g]
  BY <1>4 DEF collection_name
<1>6. rows[source[g]] = "indexed"
  BY <1>1, <1>2, <1>3 DEF StoresInv, TypeOK
<1> QED BY <1>5, <1>6

LEMMA GenerationsStep ==
    TypeOK /\ StoresInv /\ GenerationsInv /\ [Next]_vars => GenerationsInv'
<1> SUFFICES ASSUME TypeOK, StoresInv, GenerationsInv, [Next]_vars, NEW g \in Generations
             PROVE  /\ pc'[g] \in {"retrieve", "write"} =>
                          rows'[source'[g]] # "absent" /\ owner'[source'[g]] = owner'[g]
                    /\ pc'[g] = "write" =>
                          rows'[source'[g]] = "indexed" /\ subject'[source'[g]] = subject'[g]
  BY DEF GenerationsInv
<1>1. UNCHANGED <<owner, subject, source>> /\ source[g] \in Uploads
  BY AskedKept DEF asked, TypeOK
<1>2. rows[source[g]] # "absent" => rows'[source[g]] = rows[source[g]]
  BY <1>1, RowsAppear
<1>3. CASE FindDocument(g)
  BY <1>1, <1>3 DEF FindDocument, OwnsDocument, Goto, TypeOK, Operations
<1>4. CASE Retrieve(g)
  BY <1>1, <1>4, FoundIsIndexed DEF Retrieve, GenerationsInv, Goto, TypeOK, Operations
<1>5. CASE pc'[g] = pc[g] \/ pc'[g] \notin {"retrieve", "write"}
  BY <1>1, <1>2, <1>5 DEF GenerationsInv
<1>6. ASSUME NEW x \in Operations, NEW place, pc' = [pc EXCEPT ![x] = place],
             x # g \/ place \notin {"retrieve", "write"}
      PROVE  pc'[g] = pc[g] \/ pc'[g] \notin {"retrieve", "write"}
  BY <1>6 DEF TypeOK, Operations
<1>7. g \in Operations /\ g \notin Uploads /\ g \notin Questions
  BY DocumentsAssumption DEF Operations
<1>8. ASSUME NEW u \in Uploads, Upload(u)
      PROVE  pc'[g] = pc[g] \/ pc'[g] \notin {"retrieve", "write"}
  BY <1>6, <1>7, <1>8
     DEF Upload, UploadRefused, PutObject, ExtractText, AddChunks, PersistDocument,
         PipelineFails, RemoveObject, RemoveRaises, Goto, Operations
<1>9. ASSUME NEW h \in Generations, Generate(h), ~FindDocument(g), ~Retrieve(g)
      PROVE  pc'[g] = pc[g] \/ pc'[g] \notin {"retrieve", "write"}
  BY <1>6, <1>9
     DEF Generate, GenerationRefused, FindDocument, Retrieve, PersistExercise,
         GenerationFails, Goto, Operations
<1>10. ASSUME NEW q \in Questions, Answer(q) \/ AnswerFails(q)
       PROVE  pc'[g] = pc[g] \/ pc'[g] \notin {"retrieve", "write"}
  BY <1>6, <1>7, <1>10 DEF Answer, AnswerFails, Goto, Operations
<1>11. ASSUME NEW x \in Operations, Die(x)
       PROVE  pc'[g] = pc[g] \/ pc'[g] \notin {"retrieve", "write"}
  BY <1>6, <1>11 DEF Die, Goto
<1>12. CASE UNCHANGED vars
  BY <1>5, <1>12 DEF vars
<1> QED BY <1>3, <1>4, <1>5, <1>8, <1>9, <1>10, <1>11, <1>12 DEF Next

-----------------------------------------------------------------------------
(* What is made of the documents *)

LEMMA ExercisesStep ==
    DocumentsInv /\ [Next]_vars => ExercisesMatchTheirDocument'
<1> SUFFICES ASSUME DocumentsInv, [Next]_vars, NEW g \in Generations, exercises'[g] # None
             PROVE  LET d == exercises'[g].document IN
                    /\ rows'[d] = "indexed"
                    /\ exercises'[g].pupil = owner'[d]
                    /\ exercises'[g].subject = subject'[d]
  BY DEF ExercisesMatchTheirDocument
<1>1. TypeOK /\ StoresInv /\ UNCHANGED <<owner, subject, source>>
  BY AskedKept DEF DocumentsInv, asked
<1>2. CASE exercises'[g] = exercises[g]
  <2>1. exercises[g].document \in Uploads /\ rows[exercises[g].document] = "indexed"
    BY <1>1, <1>2 DEF DocumentsInv, ExercisesMatchTheirDocument, TypeOK, Exercise
  <2>2. rows'[exercises[g].document] = "indexed"
    BY <1>1, <2>1, RowsAppear
  <2> QED BY <1>1, <1>2, <2>2 DEF DocumentsInv, ExercisesMatchTheirDocument
<1>3. CASE PersistExercise(g)
  <2>1. exercises'[g] = [pupil |-> owner[g], subject |-> subject[g], document |-> source[g]]
    BY <1>1, <1>3 DEF PersistExercise, TypeOK
  <2>2. /\ rows[source[g]] = "indexed"
        /\ owner[source[g]] = owner[g]
        /\ subject[source[g]] = subject[g]
    BY <1>3 DEF PersistExercise, DocumentsInv, GenerationsInv
  <2> QED BY <1>1, <1>3, <2>1, <2>2 DEF PersistExercise
<1>4. exercises'[g] = exercises[g] \/ PersistExercise(g)
  <2>1. ASSUME NEW h \in Generations, PersistExercise(h), h # g
        PROVE  exercises'[g] = exercises[g]
    BY <1>1, <2>1 DEF PersistExercise, TypeOK
  <2> QED BY <2>1
          DEF Next, Upload, UploadRefused, PutObject, ExtractText, AddChunks, PersistDocument,
              PipelineFails, RemoveObject, RemoveRaises, Generate, GenerationRefused,
              FindDocument, Retrieve, GenerationFails, Answer, AnswerFails, Die, vars
<1> QED BY <1>2, <1>3, <1>4

\* What a question finds belongs to it.
LEMMA FoundIsAtHome ==
    ASSUME StoresInv, NEW q \in Questions, NEW u \in query(q)
    PROVE  owner[u] = owner[q] /\ subject[u] = subject[q]
<1>1. PICK c \in index : c.collection = collection_name(q) /\ c.document = u
  BY DEF query
<1>2. collection_name(u) = collection_name(q)
  BY <1>1 DEF StoresInv, HomeChunk
<1> QED BY <1>2 DEF collection_name

LEMMA CitationsStep ==
    DocumentsInv /\ [Next]_vars => CitationsStayAtHome'
<1> SUFFICES ASSUME DocumentsInv, [Next]_vars, NEW q \in Questions, NEW u \in citations'[q]
             PROVE  owner'[u] = owner'[q] /\ subject'[u] = subject'[q]
  BY DEF CitationsStayAtHome
<1>1. TypeOK /\ StoresInv /\ UNCHANGED <<owner, subject, source>>
  BY AskedKept DEF DocumentsInv, asked
<1>2. u \in citations[q] \/ u \in query(q)
  <2>1. ASSUME NEW p \in Questions, Answer(p) PROVE u \in citations[q] \/ u \in query(q)
    BY <1>1, <2>1 DEF Answer, TypeOK
  <2> QED BY <2>1
          DEF Next, Upload, UploadRefused, PutObject, ExtractText, AddChunks, PersistDocument,
              PipelineFails, RemoveObject, RemoveRaises, Generate, GenerationRefused,
              FindDocument, Retrieve, PersistExercise, GenerationFails, AnswerFails, Die, vars
<1> QED BY <1>1, <1>2, FoundIsAtHome DEF DocumentsInv, CitationsStayAtHome

-----------------------------------------------------------------------------
(* The theorems *)

LEMMA DocumentsInvariant == Spec => []DocumentsInv
<1>1. DocumentsInv /\ [Next]_vars => DocumentsInv'
  BY TypeStep, StoresStep, GenerationsStep, ExercisesStep, CitationsStep DEF DocumentsInv
<1> QED BY DocumentsInit, <1>1, PTL DEF Spec

\* Type correctness of the three stores, of uploads, generations and questions.
THEOREM TypeCorrect == Spec => []TypeOK
<1>1. DocumentsInv => TypeOK
  BY DEF DocumentsInv
<1> QED BY <1>1, DocumentsInvariant, PTL

\* What the row of a document says is in S3 and in ChromaDB, whichever uploads
\* run, fail or die meanwhile (UploadService.upload).
THEOREM RowsArePromises == Spec => []RowsKeepTheirPromise
<1>1. ASSUME StoresInv, NEW u \in Uploads
      PROVE  ChunksOf(u) \subseteq {HomeChunk(u)}
  BY <1>1 DEF StoresInv, ChunksOf
<1>2. ASSUME NEW u \in Uploads
      PROVE  HomeChunk(u) \in index => HomeChunk(u) \in ChunksOf(u)
  BY DEF ChunksOf, HomeChunk
<1>3. DocumentsInv => RowsKeepTheirPromise
  <2> SUFFICES ASSUME StoresInv, NEW u \in Uploads
               PROVE  /\ rows[u] # "absent" => u \in bucket
                      /\ rows[u] = "indexed" => ChunksOf(u) = {HomeChunk(u)}
                      /\ rows[u] = "manual_review_needed" => ChunksOf(u) = {}
    BY DEF DocumentsInv, RowsKeepTheirPromise, HomeChunk, collection_name
  <2>1. rows[u] # "absent" => u \in bucket
    BY DEF StoresInv
  <2>2. rows[u] = "indexed" => HomeChunk(u) \in index
    BY DEF StoresInv
  <2>3. rows[u] = "manual_review_needed" => HomeChunk(u) \notin index
    BY DEF StoresInv
  <2>4. ChunksOf(u) \subseteq index
    BY DEF ChunksOf
  <2> QED BY <1>1, <1>2, <2>1, <2>2, <2>3, <2>4
<1> QED BY <1>3, DocumentsInvariant, PTL

\* An upload that reports an UploadError has neither file nor row.
THEOREM FailureLeavesNoRow == Spec => []FailedUploadHasNoRow
<1>1. DocumentsInv => FailedUploadHasNoRow
  BY DEF DocumentsInv, StoresInv, FailedUploadHasNoRow
<1> QED BY <1>1, DocumentsInvariant, PTL

\* Every exercise is made of an indexed document of its pupil and subject,
\* although the generators compare the pupil only (generate, get_collection).
THEOREM ExercisesAreAtHome == Spec => []ExercisesMatchTheirDocument
<1>1. DocumentsInv => ExercisesMatchTheirDocument
  BY DEF DocumentsInv
<1> QED BY <1>1, DocumentsInvariant, PTL

\* No answer cites a document of another pupil or subject (Retriever.query).
THEOREM CitationsAreAtHome == Spec => []CitationsStayAtHome
<1>1. DocumentsInv => CitationsStayAtHome
  BY DEF DocumentsInv
<1> QED BY <1>1, DocumentsInvariant, PTL

LEMMA FoundStep ==
    ASSUME DocumentsInv, [Next]_vars
    PROVE  /\ \A q \in Questions :
                 (pc[q] # "no_document" /\ pc'[q] = "no_document") =>
                     \A u \in Uploads :
                         rows[u] = "indexed" => owner[u] # owner[q] \/ subject[u] # subject[q]
           /\ \A g \in Generations :
                 (pc[g] = "retrieve" /\ pc'[g] = "refused") =>
                     rows[source[g]] # "indexed" \/ subject[source[g]] # subject[g]
<1>1. TypeOK /\ StoresInv
  BY DEF DocumentsInv
<1> USE DEF Goto
<1>2. ASSUME NEW q \in Questions, Answer(q), pc'[q] = "no_document",
             NEW u \in Uploads, rows[u] = "indexed"
      PROVE  owner[u] # owner[q] \/ subject[u] # subject[q]
  <2>1. query(q) = {}
    BY <1>1, <1>2 DEF Answer, TypeOK, Operations
  <2>2. HomeChunk(u) \in index
    BY <1>1, <1>2 DEF StoresInv
  <2>3. collection_name(u) # collection_name(q)
    BY <2>1, <2>2 DEF query, HomeChunk
  <2> QED BY <2>3 DEF collection_name
<1>3. ASSUME NEW g \in Generations, Retrieve(g), pc'[g] = "refused"
      PROVE  rows[source[g]] # "indexed" \/ subject[source[g]] # subject[g]
  <2>1. get_chunks_for_document(g) = {} /\ pc[g] = "retrieve"
    BY <1>1, <1>3 DEF Retrieve, TypeOK, Operations
  <2>2. source[g] \in Uploads /\ owner[source[g]] = owner[g]
    BY <1>1, <2>1 DEF TypeOK, DocumentsInv, GenerationsInv
  <2>3. rows[source[g]] = "indexed" => HomeChunk(source[g]) \in index
    BY <1>1, <2>2 DEF StoresInv
  <2>4. HomeChunk(source[g]) \in index => collection_name(source[g]) # collection_name(g)
    BY <2>1 DEF get_chunks_for_document, HomeChunk
  <2> QED BY <2>2, <2>3, <2>4 DEF collection_name
<1>4. ASSUME NEW x \in Operations, NEW y \in Operations, NEW place,
             pc' = [pc EXCEPT ![y] = place], pc'[x] # pc[x]
      PROVE  x = y /\ pc'[x] = place
  BY <1>1, <1>4 DEF TypeOK, Operations
<1>5. \A x \in Questions : x \in Operations /\ x \notin Uploads \cup Generations
  BY DocumentsAssumption DEF Operations
<1>6. \A x \in Generations : x \in Operations /\ x \notin Uploads \cup Questions
  BY DocumentsAssumption DEF Operations
<1>7. ASSUME NEW q \in Questions, pc[q] # "no_document", pc'[q] = "no_document"
      PROVE  Answer(q)
  <2>1. ASSUME NEW u \in Uploads, Upload(u) PROVE FALSE
    BY <1>4, <1>5, <1>7, <2>1
       DEF Upload, UploadRefused, PutObject, ExtractText, AddChunks, PersistDocument,
           PipelineFails, RemoveObject, RemoveRaises, Operations
  <2>2. ASSUME NEW g \in Generations, Generate(g) PROVE FALSE
    BY <1>4, <1>5, <1>7, <2>2
       DEF Generate, GenerationRefused, FindDocument, Retrieve, PersistExercise,
           GenerationFails, Operations
  <2>3. ASSUME NEW p \in Questions, Answer(p) \/ AnswerFails(p) PROVE Answer(q)
    BY <1>4, <1>5, <1>7, <2>3 DEF Answer, AnswerFails, Operations
  <2>4. ASSUME NEW x \in Operations, Die(x) PROVE FALSE
    BY <1>4, <1>5, <1>7, <2>4 DEF Die
  <2>5. ~UNCHANGED vars
    BY <1>7 DEF vars
  <2> QED BY <2>1, <2>2, <2>3, <2>4, <2>5 DEF Next
<1>8. ASSUME NEW g \in Generations, pc[g] = "retrieve", pc'[g] = "refused"
      PROVE  Retrieve(g)
  <2>1. ASSUME NEW u \in Uploads, Upload(u) PROVE FALSE
    BY <1>4, <1>6, <1>8, <2>1
       DEF Upload, UploadRefused, PutObject, ExtractText, AddChunks, PersistDocument,
           PipelineFails, RemoveObject, RemoveRaises, Operations
  <2>2. ASSUME NEW h \in Generations, Generate(h) PROVE Retrieve(g)
    BY <1>4, <1>6, <1>8, <2>2
       DEF Generate, GenerationRefused, FindDocument, Retrieve, PersistExercise,
           GenerationFails, Operations
  <2>3. ASSUME NEW p \in Questions, Answer(p) \/ AnswerFails(p) PROVE FALSE
    BY <1>4, <1>6, <1>8, <2>3 DEF Answer, AnswerFails, Operations
  <2>4. ASSUME NEW x \in Operations, Die(x) PROVE FALSE
    BY <1>4, <1>6, <1>8, <2>4 DEF Die
  <2>5. ~UNCHANGED vars
    BY <1>8 DEF vars
  <2> QED BY <2>1, <2>2, <2>3, <2>4, <2>5 DEF Next
<1> QED BY <1>2, <1>3, <1>7, <1>8

\* A document whose row says "indexed" is found by every question of its
\* pupil in its subject and by every generation on it.
THEOREM IndexedIsFound == Spec => StoredIsFound
<1>1. DocumentsInv /\ [Next]_vars =>
        [/\ \A q \in Questions :
               (pc[q] # "no_document" /\ pc'[q] = "no_document") =>
                   \A u \in Uploads :
                       rows[u] = "indexed" => owner[u] # owner[q] \/ subject[u] # subject[q]
         /\ \A g \in Generations :
               (pc[g] = "retrieve" /\ pc'[g] = "refused") =>
                   rows[source[g]] # "indexed" \/ subject[source[g]] # subject[g]]_vars
  BY FoundStep
<1> QED BY <1>1, DocumentsInvariant, PTL DEF Spec, StoredIsFound
=============================================================================
