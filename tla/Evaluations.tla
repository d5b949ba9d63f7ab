---------------------------- MODULE Evaluations ----------------------------
(***************************************************************************)
(* Corrected copies: their upload (S3, OCR, row), the manual entry of a    *)
(* score and the second extraction of an unscored copy.                    *)
(*                                                                         *)
(*   upload    : new -> extract -> persist -> stored                       *)
(*               extract, persist -> remove -> failed     (rollback)       *)
(*   manual    : new -> score -> scored                                    *)
(*   reprocess : new -> reread -> rewrite -> rescored                      *)
(*                                                                         *)
(* An operation is an uploaded copy or a review of one.  Between its steps *)
(* the process may die; another process may act between them too, unless   *)
(* one server process runs all handlers, which never yield after they have *)
(* touched the store.  A score, a scale or a comment is represented by the *)
(* operation it comes from.                                                *)
(***************************************************************************)
EXTENDS Naturals, FiniteSets

CONSTANTS
    Copies,         \* evaluation ids, one per upload
    Reviews,        \* calls of score-manual or reprocess
    Callers,        \* who may call them, a subset of Roles
    Deployments,    \* subset of {"one process", "several processes"}
    None            \* NULL

Roles == {"admin", "linked parent", "other parent", "eleve"}
Operations == Copies \cup Reviews

ASSUME EvaluationsAssumption ==
    /\ Copies \cap Reviews = {}
    /\ None \notin Operations
    /\ Callers \subseteq Roles
    /\ Deployments \subseteq {"one process", "several processes"}

VARIABLES
    deployment, \* how many server processes run
    pc,         \* where each operation is
    call,       \* [op, copy, caller] of each review
    bucket,     \* copies whose image is in S3
    rows,       \* evaluations: the row of each copy
    answer,     \* ExtractionResult an operation holds in memory
    legible,    \* uploads whose envelope kept to the prompt and carried a score
    loaded,     \* the row as the session of a review loaded it
    notices     \* operations whose NEW_EVALUATION notification exists

vars == <<deployment, pc, call, bucket, rows, answer, legible, loaded, notices>>

NoRow == [status |-> "absent", score |-> None, out_of |-> None, comments |-> None,
          reason |-> "none"]
Reasons == {"none", "no_score_in_transcript", "no_score_extracted"}
Row == [status : {"absent", "scored", "manual_review_needed"},
        score : Operations \cup {None}, out_of : Operations \cup {None},
        comments : Operations \cup {None}, reason : Reasons]

NoAnswer == [score |-> None, out_of |-> None, comments |-> None, text |-> FALSE]
Answer == [score : Operations \cup {None}, out_of : Operations \cup {None},
           comments : Operations \cup {None}, text : BOOLEAN]

Ended == {"refused", "stored", "failed", "raised", "scored", "rescored", "dead"}
Inside == {"extract", "persist", "remove", "score", "reread", "rewrite"}

-----------------------------------------------------------------------------
(* The extraction *)

\* What the vision model may answer: the JSON keys the program reads.
Envelopes ==
    [transcription : {"absent", "plain", "fraction"}, confidence : {"low", "high"},
     score : {"absent", "alone", "with max"}, comments : BOOLEAN]

\* EVALUATION_PROMPT asks for ocr_text and ocr_confidence; an answer that
\* keeps to it has neither of the keys _result_from_parsed reads.
Prompted(envelope) ==
    envelope.transcription = "absent" /\ envelope.confidence = "low"

\* _result_from_parsed: the gate on an empty or doubtful transcription.
ok(envelope) ==
    envelope.transcription # "absent" /\ envelope.confidence = "high"

\* EvaluationExtractor.extract: the regex first, the score of the envelope
\* next, else no score; nothing at all when the OCR result is not ok.
extract(envelope, x) ==
    LET transcript == envelope.transcription # "absent"
        regex == envelope.transcription = "fraction"
        extras == IF envelope.comments THEN x ELSE None
    IN  IF ~ok(envelope)
        THEN [NoAnswer EXCEPT !.text = transcript]
        ELSE [score |-> IF regex \/ envelope.score # "absent" THEN x ELSE None,
              out_of |-> IF regex \/ envelope.score = "with max" THEN x ELSE None,
              comments |-> extras,
              text |-> transcript]

\* Mutated status: a third one, for a copy that could not be read.
RowOrError(result) ==
    [status |-> CASE result.score # None -> "scored"
                  [] result.score = None /\ result.text -> "manual_review_needed"
                  [] OTHER -> "error",
     score |-> result.score, out_of |-> result.out_of, comments |-> result.comments,
     reason |-> "none"]

\* The row an extraction stands for.
RowOf(result) ==
    [status |-> IF result.score # None THEN "scored" ELSE "manual_review_needed",
     score |-> result.score, out_of |-> result.out_of, comments |-> result.comments,
     reason |-> CASE result.score # None -> "none"
                  [] result.score = None /\ ~result.text -> "no_score_in_transcript"
                  [] OTHER -> "no_score_extracted"]

-----------------------------------------------------------------------------
\* Mutated session: every column of the row is written.
WriteAll(current, read, new) == [f \in DOMAIN current |-> new[f]]

\* Mutated UPDATE: what the extraction did not find is left alone.
WriteFound(current, read, new) ==
    [f \in DOMAIN current |-> IF new[f] = None THEN current[f] ELSE new[f]]

\* The UPDATE of a session: only the columns whose value differs from the one
\* it loaded; the others keep what the database has now.
WriteChanged(current, read, new) ==
    [f \in DOMAIN current |-> IF new[f] = read[f] THEN current[f] ELSE new[f]]

\* One process runs one handler at a time, from its first access to its end.
Free(x) ==
    deployment = "one process" => \A y \in Operations \ {x} : pc[y] \notin Inside

Goto(x, place) == pc' = [pc EXCEPT ![x] = place]

Init ==
    /\ deployment \in Deployments
    /\ pc = [x \in Operations |-> "new"]
    /\ call \in [Reviews -> [op : {"manual", "reprocess"}, copy : Copies, caller : Callers]]
    /\ bucket = {}
    /\ rows = [c \in Copies |-> NoRow]
    /\ answer = [x \in Operations |-> NoAnswer]
    /\ legible = {}
    /\ loaded = [r \in Reviews |-> NoRow]
    /\ notices = {}

-----------------------------------------------------------------------------
(* EvaluationService.upload *)

\* Wrong extension, file too large, unknown form field; or S3 refuses the
\* image.  Nothing is stored.
UploadRefused(c) ==
    /\ pc[c] = "new"
    /\ Free(c)
    /\ Goto(c, "refused")
    /\ UNCHANGED <<deployment, call, bucket, rows, answer, legible, loaded, notices>>

PutObject(c) ==
    /\ pc[c] = "new"
    /\ Free(c)
    /\ bucket' = bucket \cup {c}
    /\ Goto(c, "extract")
    /\ UNCHANGED <<deployment, call, rows, answer, legible, loaded, notices>>

Extract(c) ==
    /\ pc[c] = "extract"
    /\ \E envelope \in Envelopes :
          /\ answer' = [answer EXCEPT ![c] = extract(envelope, c)]
          /\ legible' = IF Prompted(envelope) /\ envelope.score # "absent"
                        THEN legible \cup {c} ELSE legible
    /\ Goto(c, "persist")
    /\ UNCHANGED <<deployment, call, bucket, rows, loaded, notices>>

\* OcrError: HTTP status other than 200, or twice no JSON.
ExtractFails(c) ==
    /\ pc[c] = "extract"
    /\ Goto(c, "remove")
    /\ UNCHANGED <<deployment, call, bucket, rows, answer, legible, loaded, notices>>

\* Any other exception of the OCR client is not an OcrError: no connection,
\* timeout, JSON that is not an object.  upload() lets it through.
ExtractRaises(c) ==
    /\ pc[c] = "extract"
    /\ Goto(c, "raised")
    /\ UNCHANGED <<deployment, call, bucket, rows, answer, legible, loaded, notices>>

\* Mutated transaction: the notification is committed apart, even if the row
\* is refused.
PersistFailsAfterNotice(c) ==
    /\ pc[c] = "persist"
    /\ notices' = notices \cup {c}
    /\ Goto(c, "remove")
    /\ UNCHANGED <<deployment, call, bucket, rows, answer, legible, loaded>>

\* Mutated rollback: a "finally" that removes the image in any case.
PersistThenRemove(c) ==
    /\ pc[c] = "persist"
    /\ rows' = [rows EXCEPT ![c] = RowOf(answer[c])]
    /\ notices' = notices \cup {c}
    /\ Goto(c, "remove")
    /\ UNCHANGED <<deployment, call, bucket, answer, legible, loaded>>

\* The row and its notification, in one transaction.
Persist(c) ==
    /\ pc[c] = "persist"
    /\ rows' = [rows EXCEPT ![c] = RowOf(answer[c])]
    /\ notices' = notices \cup {c}
    /\ Goto(c, "stored")
    /\ UNCHANGED <<deployment, call, bucket, answer, legible, loaded>>

PersistFails(c) ==
    /\ pc[c] = "persist"
    /\ Goto(c, "remove")
    /\ UNCHANGED <<deployment, call, bucket, rows, answer, legible, loaded, notices>>

\* Mutated rollback: the error is reported, the image stays.
RemoveForgotten(c) ==
    /\ pc[c] = "remove"
    /\ Goto(c, "failed")
    /\ UNCHANGED <<deployment, call, bucket, rows, answer, legible, loaded, notices>>

\* The rollback, then the EvaluationError.
RemoveObject(c) ==
    /\ pc[c] = "remove"
    /\ bucket' = bucket \ {c}
    /\ Goto(c, "failed")
    /\ UNCHANGED <<deployment, call, rows, answer, legible, loaded, notices>>

\* S3 refuses the removal: its exception replaces the EvaluationError.
RemoveRaises(c) ==
    /\ pc[c] = "remove"
    /\ Goto(c, "raised")
    /\ UNCHANGED <<deployment, call, bucket, rows, answer, legible, loaded, notices>>

-----------------------------------------------------------------------------
(* score_manual and reprocess *)

\* The guard of each route: score-manual is for the admin or a parent linked
\* to the pupil of the row, reprocess for the admin.
MayCall(r) ==
    IF call[r].op = "manual"
    THEN call[r].caller \in {"admin", "linked parent"}
    ELSE call[r].caller = "admin"

\* Mutated check of the state, one that forgets the check of reprocess.
NeverScored(r) ==
    call[r].op = "reprocess" \/ rows[call[r].copy].status = "manual_review_needed"

\* Both services refuse a row that is scored.
Reviewable(r) == rows[call[r].copy].status = "manual_review_needed"

\* 403, 404 not_found, 409 state_conflict or 422.
ReviewRefused(r) ==
    /\ pc[r] = "new"
    /\ Free(r)
    /\ ~MayCall(r) \/ ~Reviewable(r)
    /\ Goto(r, "refused")
    /\ UNCHANGED <<deployment, call, bucket, rows, answer, legible, loaded, notices>>

\* session.get: the row is read and checked, without a lock.
LoadRow(r) ==
    /\ pc[r] = "new"
    /\ Free(r)
    /\ MayCall(r)
    /\ Reviewable(r)
    /\ loaded' = [loaded EXCEPT ![r] = rows[call[r].copy]]
    /\ Goto(r, IF call[r].op = "manual" THEN "score" ELSE "reread")
    /\ UNCHANGED <<deployment, call, bucket, rows, answer, legible, notices>>

\* Commit of the manual score: score, scale, comments (which may be left
\* out), status and notification.
ScoreManual(r) ==
    LET c == call[r].copy IN
    /\ pc[r] = "score"
    /\ \E comments \in {r, None} :
          rows' = [rows EXCEPT ![c] = WriteChanged(@, loaded[r],
              [status |-> "scored", score |-> r, out_of |-> r, comments |-> comments,
               reason |-> "none"])]
    /\ notices' = notices \cup {r}
    /\ Goto(r, "scored")
    /\ UNCHANGED <<deployment, call, bucket, answer, legible, loaded>>

\* get_object, then the OCR, on the row read before.
Reread(r) ==
    /\ pc[r] = "reread"
    /\ call[r].copy \in bucket
    /\ \E envelope \in Envelopes : answer' = [answer EXCEPT ![r] = extract(envelope, r)]
    /\ Goto(r, "rewrite")
    /\ UNCHANGED <<deployment, call, bucket, rows, legible, loaded, notices>>

\* Commit of the new extraction; it may have no score either.
Rewrite(r) ==
    LET c == call[r].copy IN
    /\ pc[r] = "rewrite"
    /\ rows' = [rows EXCEPT ![c] = WriteChanged(@, loaded[r], RowOf(answer[r]))]
    /\ Goto(r, "rescored")
    /\ UNCHANGED <<deployment, call, bucket, answer, legible, loaded, notices>>

\* S3, the OCR or the database raises: no handler catches it.
ReviewRaises(r) ==
    /\ pc[r] \in {"score", "reread", "rewrite"}
    /\ Goto(r, "raised")
    /\ UNCHANGED <<deployment, call, bucket, rows, answer, legible, loaded, notices>>

\* The process dies in the middle of an operation.
Die(x) ==
    /\ pc[x] \in Inside
    /\ Goto(x, "dead")
    /\ UNCHANGED <<deployment, call, bucket, rows, answer, legible, loaded, notices>>

Upload(c) ==
    \/ UploadRefused(c) \/ PutObject(c)
    \/ Extract(c) \/ ExtractFails(c) \/ ExtractRaises(c)
    \/ Persist(c) \/ PersistFails(c)
    \/ RemoveObject(c) \/ RemoveRaises(c)

Review(r) ==
    ReviewRefused(r) \/ LoadRow(r) \/ ScoreManual(r) \/ Reread(r) \/ Rewrite(r)
      \/ ReviewRaises(r)

Next ==
    \/ \E c \in Copies : Upload(c)
    \/ \E r \in Reviews : Review(r)
    \/ \E x \in Operations : Die(x)

Spec == Init /\ [][Next]_vars

-----------------------------------------------------------------------------
(* Properties *)

TypeOK ==
    /\ deployment \in Deployments
    /\ pc \in [Operations -> {"new"} \cup Inside \cup Ended]
    /\ call \in [Reviews -> [op : {"manual", "reprocess"}, copy : Copies, caller : Callers]]
    /\ bucket \subseteq Copies
    /\ rows \in [Copies -> Row]
    /\ answer \in [Operations -> Answer]
    /\ legible \subseteq Copies
    /\ loaded \in [Reviews -> Row]
    /\ notices \subseteq Operations

\* A row is "scored" exactly when it has a score, whatever mixture of columns
\* several reviews of one copy have written.
ScoredHasScore ==
    \A c \in Copies : rows[c].status = "scored" <=> rows[c].score # None

\* A copy that has got a score keeps having one: a reprocess that finds none
\* does not reset a score entered while it ran, because the session writes
\* only what it changed.
ScoreNeverErased ==
    [][\A c \in Copies : rows[c].status = "scored" => rows'[c].status = "scored"]_vars

\* With one server process a scored row is final: neither review touches it
\* ("score-manual only accepts rows in 'manual_review_needed'").
ScoredIsFinal ==
    [][\A c \in Copies :
          (deployment = "one process" /\ rows[c].status = "scored")
            => rows'[c] = rows[c]]_vars

\* Every row has its image, the one reprocess reads: no rollback removes the
\* image of a row that was persisted.
ImageBehindRow == \A c \in Copies : rows[c].status # "absent" => c \in bucket

\* An upload that reports an EvaluationError leaves nothing behind: no image,
\* no row, no notification (AC4).
ReportedFailureLeavesNothing ==
    \A c \in Copies :
        pc[c] = "failed" =>
            c \notin bucket /\ rows[c].status = "absent" /\ c \notin notices

\* A pupil is notified exactly of the uploads that have a row, and of manual
\* scores only on scored rows.
NoticesMatchRows ==
    /\ \A c \in Copies : c \in notices <=> rows[c].status # "absent"
    /\ \A r \in Reviews : r \in notices => rows[call[r].copy].status = "scored"

-----------------------------------------------------------------------------
(* What the documentation says and the code does not do *)

\* "If neither regex nor LLM finds a score": a copy is not sent to manual
\* review when the model answered what EVALUATION_PROMPT asks, with a score.
LegibleScoreIsFound ==
    \A c \in Copies :
        (c \in legible /\ pc[c] = "stored") => rows[c].status = "scored"
=============================================================================
