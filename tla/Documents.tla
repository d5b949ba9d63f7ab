----------------------------- MODULE Documents -----------------------------
(***************************************************************************)
(* Course documents: their upload to three stores that share no            *)
(* transaction, the exercises generated from them and the answers that     *)
(* cite them.                                                              *)
(*                                                                         *)
(*   upload   : new -> extract -> index -> persist -> stored               *)
(*              extract -> review -> stored         (nothing to index)     *)
(*              any failure -> remove -> failed     (rollback of S3 only)  *)
(*   generate : new -> retrieve -> write -> generated                      *)
(*   question : new -> answered, no_document                               *)
(*                                                                         *)
(* Uploads come from the API and from a command, generations from commands *)
(* and questions from both: operations of several processes interleave at  *)
(* every access to a store.  A document is named by its upload; its chunks *)
(* are one element of the index, in the collection they were added to.     *)
(***************************************************************************)
EXTENDS Naturals, FiniteSets

CONSTANTS
    Uploads,        \* calls of UploadService.upload, each with a fresh document id
    Generations,    \* calls of a generator: QCM, free-form exercise, flashcards
    Questions,      \* questions put to an agent
    Pupils,         \* the pseudos
    Subjects,       \* "maths", "francais"
    TopK,           \* chunks handed to an agent (4)
    None            \* no exercise

Operations == Uploads \cup Generations \cup Questions

ASSUME DocumentsAssumption ==
    /\ Uploads \cap Generations = {}
    /\ Uploads \cap Questions = {}
    /\ Generations \cap Questions = {}
    /\ TopK \in Nat \ {0}

VARIABLES
    pc,         \* where each operation is
    owner,      \* pupil an operation is made for
    subject,    \* subject an operation names
    source,     \* document a generation names
    bucket,     \* documents whose file is in S3
    index,      \* ChromaDB: [collection, document] of the chunks it holds
    rows,       \* documents: the status of the row of each upload
    exercises,  \* exercises: the row a generation wrote
    citations   \* documents cited in the answer to a question

asked == <<owner, subject, source>>
vars == <<pc, asked, bucket, index, rows, exercises, citations>>

Collections == [pupil : Pupils, subject : Subjects]
Chunks == [collection : Collections, document : Uploads]
Exercise == [pupil : Pupils, subject : Subjects, document : Uploads]

Working == {"extract", "index", "review", "persist", "remove", "retrieve", "write"}
Ended == {"refused", "stored", "failed", "raised", "dead", "generated",
          "answered", "no_document"}

-----------------------------------------------------------------------------
\* Mutated naming: one collection per subject for all pupils.
shared_collection(x) == [pupil |-> "everybody", subject |-> subject[x]]

\* collection_name: rag_<subject>_<pseudo>, the only way to reach chunks.
collection_name(x) == [pupil |-> owner[x], subject |-> subject[x]]

\* Mutated search: over the collections of every pupil.
query_all(q) == {c.document : c \in {k \in index : k.collection.subject = subject[q]}}

\* Retriever.query: the documents with chunks in the collection of a question.
query(q) == {c.document : c \in {k \in index : k.collection = collection_name(q)}}

\* Mutated retrieval: filtered by document only.
get_any_chunks_for_document(g) == {c \in index : c.document = source[g]}

\* get_chunks_for_document: "double-locked", by collection and by document.
get_chunks_for_document(g) ==
    {c \in index : c.collection = collection_name(g) /\ c.document = source[g]}

Goto(x, place) == pc' = [pc EXCEPT ![x] = place]

Init ==
    /\ pc = [x \in Operations |-> "new"]
    /\ owner \in [Operations -> Pupils]
    /\ subject \in [Operations -> Subjects]
    /\ source \in [Generations -> Uploads]
    /\ bucket = {}
    /\ index = {}
    /\ rows = [u \in Uploads |-> "absent"]
    /\ exercises = [g \in Generations |-> None]
    /\ citations = [q \in Questions |-> {}]

-----------------------------------------------------------------------------
(* UploadService.upload *)

\* Malformed pseudo, wrong extension, file too large, unknown form field; or
\* S3 refuses the file.  Nothing is stored.
UploadRefused(u) ==
    /\ pc[u] = "new"
    /\ Goto(u, "refused")
    /\ UNCHANGED <<asked, bucket, index, rows, exercises, citations>>

PutObject(u) ==
    /\ pc[u] = "new"
    /\ bucket' = bucket \cup {u}
    /\ Goto(u, "extract")
    /\ UNCHANGED <<asked, index, rows, exercises, citations>>

\* Text, or the OCR of an image or of a scanned PDF; without a chunk the
\* document is kept for a manual review.
ExtractText(u) ==
    /\ pc[u] = "extract"
    /\ \E chunks \in BOOLEAN : Goto(u, IF chunks THEN "index" ELSE "review")
    /\ UNCHANGED <<asked, bucket, index, rows, exercises, citations>>

\* Embeddings, then collection.add.
AddChunks(u) ==
    /\ pc[u] = "index"
    /\ index' = index \cup {[collection |-> collection_name(u), document |-> u]}
    /\ Goto(u, "persist")
    /\ UNCHANGED <<asked, bucket, rows, exercises, citations>>

\* Mutated error path: a failing index is logged, and the row is written.
PipelineFailsQuietly(u) ==
    /\ pc[u] \in {"extract", "index", "review", "persist"}
    /\ Goto(u, IF pc[u] = "index" THEN "persist" ELSE "remove")
    /\ UNCHANGED <<asked, bucket, index, rows, exercises, citations>>

\* The OCR, the embeddings, ChromaDB or the database raises (the database
\* also for a pseudo that has no account).  A failing commit comes after the
\* chunks were added.
PipelineFails(u) ==
    /\ pc[u] \in {"extract", "index", "review", "persist"}
    /\ Goto(u, "remove")
    /\ UNCHANGED <<asked, bucket, index, rows, exercises, citations>>

\* Mutated rollback: a "finally" that removes the file in any case.
PersistThenRemove(u) ==
    /\ pc[u] \in {"review", "persist"}
    /\ rows' = [rows EXCEPT
            ![u] = IF pc[u] = "persist" THEN "indexed" ELSE "manual_review_needed"]
    /\ Goto(u, "remove")
    /\ UNCHANGED <<asked, bucket, index, exercises, citations>>

\* _persist_document commits the row.
PersistDocument(u) ==
    /\ pc[u] \in {"review", "persist"}
    /\ rows' = [rows EXCEPT
            ![u] = IF pc[u] = "persist" THEN "indexed" ELSE "manual_review_needed"]
    /\ Goto(u, "stored")
    /\ UNCHANGED <<asked, bucket, index, exercises, citations>>

\* The rollback, then the UploadError.
RemoveObject(u) ==
    /\ pc[u] = "remove"
    /\ bucket' = bucket \ {u}
    /\ Goto(u, "failed")
    /\ UNCHANGED <<asked, index, rows, exercises, citations>>

\* S3 refuses the removal: its exception replaces the UploadError.
RemoveRaises(u) ==
    /\ pc[u] = "remove"
    /\ Goto(u, "raised")
    /\ UNCHANGED <<asked, bucket, index, rows, exercises, citations>>

-----------------------------------------------------------------------------
(* QcmGenerator.generate, FreeGenerator.generate, FlashcardGenerator.generate *)

\* The row the generators look for; neither its status nor its subject is read.
OwnsDocument(g) ==
    rows[source[g]] # "absent" /\ owner[source[g]] = owner[g]

\* Bad arguments, or document_not_found.
GenerationRefused(g) ==
    /\ pc[g] = "new"
    /\ Goto(g, "refused")
    /\ UNCHANGED <<asked, bucket, index, rows, exercises, citations>>

FindDocument(g) ==
    /\ pc[g] = "new"
    /\ OwnsDocument(g)
    /\ Goto(g, "retrieve")
    /\ UNCHANGED <<asked, bucket, index, rows, exercises, citations>>

\* No chunk: the generator gives up, without a call of the LLM.
Retrieve(g) ==
    /\ pc[g] = "retrieve"
    /\ Goto(g, IF get_chunks_for_document(g) = {} THEN "refused" ELSE "write")
    /\ UNCHANGED <<asked, bucket, index, rows, exercises, citations>>

\* The LLM's answer passed the validation: commit of the exercise.
PersistExercise(g) ==
    /\ pc[g] = "write"
    /\ exercises' = [exercises EXCEPT
            ![g] = [pupil |-> owner[g], subject |-> subject[g], document |-> source[g]]]
    /\ Goto(g, "generated")
    /\ UNCHANGED <<asked, bucket, index, rows, citations>>

\* ChromaDB or the LLM raises, its answers stay malformed after the retries,
\* or the database refuses the row: nothing is written.
GenerationFails(g) ==
    /\ pc[g] \in {"retrieve", "write"}
    /\ Goto(g, "failed")
    /\ UNCHANGED <<asked, bucket, index, rows, exercises, citations>>

-----------------------------------------------------------------------------
(* MathsAgent, FrancaisAgent *)

\* Nearest chunks of the collection, all of them cited; without a chunk the
\* fixed message, and no call of the LLM.
Answer(q) ==
    /\ pc[q] = "new"
    /\ \/ /\ query(q) = {}
          /\ Goto(q, "no_document")
          /\ UNCHANGED citations
       \/ /\ \E cited \in SUBSET query(q) :
                /\ Cardinality(cited) \in 1..TopK
                /\ citations' = [citations EXCEPT ![q] = cited]
          /\ Goto(q, "answered")
    /\ UNCHANGED <<asked, bucket, index, rows, exercises>>

AnswerFails(q) ==
    /\ pc[q] = "new"
    /\ Goto(q, "failed")
    /\ UNCHANGED <<asked, bucket, index, rows, exercises, citations>>

-----------------------------------------------------------------------------
\* The process dies in the middle of an operation.
Die(x) ==
    /\ pc[x] \in Working
    /\ Goto(x, "dead")
    /\ UNCHANGED <<asked, bucket, index, rows, exercises, citations>>

Upload(u) ==
    \/ UploadRefused(u) \/ PutObject(u) \/ ExtractText(u) \/ AddChunks(u)
    \/ PersistDocument(u) \/ PipelineFails(u) \/ RemoveObject(u) \/ RemoveRaises(u)

Generate(g) ==
    \/ GenerationRefused(g) \/ FindDocument(g) \/ Retrieve(g) \/ PersistExercise(g)
    \/ GenerationFails(g)

Next ==
    \/ \E u \in Uploads : Upload(u)
    \/ \E g \in Generations : Generate(g)
    \/ \E q \in Questions : Answer(q) \/ AnswerFails(q)
    \/ \E x \in Operations : Die(x)

Spec == Init /\ [][Next]_vars

-----------------------------------------------------------------------------
(* Properties *)

TypeOK ==
    /\ pc \in [Operations -> {"new"} \cup Working \cup Ended]
    /\ owner \in [Operations -> Pupils]
    /\ subject \in [Operations -> Subjects]
    /\ source \in [Generations -> Uploads]
    /\ bucket \subseteq Uploads
    /\ index \subseteq Chunks
    /\ rows \in [Uploads -> {"absent", "indexed", "manual_review_needed"}]
    /\ exercises \in [Generations -> Exercise \cup {None}]
    /\ citations \in [Questions -> SUBSET Uploads]

ChunksOf(u) == {c \in index : c.document = u}

\* What the row of a document promises is in the other two stores: its file
\* in S3 and, if the row says "indexed", chunks in the collection of its
\* pupil and subject and in no other; a row for manual review has none.
RowsKeepTheirPromise ==
    \A u \in Uploads :
        /\ rows[u] # "absent" => u \in bucket
        /\ rows[u] = "indexed" => ChunksOf(u) =
              {[collection |-> [pupil |-> owner[u], subject |-> subject[u]], document |-> u]}
        /\ rows[u] = "manual_review_needed" => ChunksOf(u) = {}

\* An upload that reports an UploadError has neither file nor row.
FailedUploadHasNoRow ==
    \A u \in Uploads : pc[u] = "failed" => u \notin bucket /\ rows[u] = "absent"

\* An exercise is made of an indexed document of its own pupil and its own
\* subject, although the generators never compare the subject of the row
\* with the one they are given: the collection does.
ExercisesMatchTheirDocument ==
    \A g \in Generations :
        exercises[g] # None =>
            LET d == exercises[g].document IN
            /\ rows[d] = "indexed"
            /\ exercises[g].pupil = owner[d]
            /\ exercises[g].subject = subject[d]

\* No answer cites a document of another pupil or another subject.
CitationsStayAtHome ==
    \A q \in Questions : \A u \in citations[q] :
        owner[u] = owner[q] /\ subject[u] = subject[q]

\* A document whose row says "indexed" is found: a pupil who has one in a
\* subject is never told that there is none, and a generation on it, in its
\* subject, never gives up for lack of chunks.
StoredIsFound ==
    [][/\ \A q \in Questions :
             (pc[q] # "no_document" /\ pc'[q] = "no_document") =>
                 \A u \in Uploads :
                     rows[u] = "indexed" => owner[u] # owner[q] \/ subject[u] # subject[q]
       /\ \A g \in Generations :
             (pc[g] = "retrieve" /\ pc'[g] = "refused") =>
                 rows[source[g]] # "indexed" \/ subject[source[g]] # subject[g]]_vars

=============================================================================
