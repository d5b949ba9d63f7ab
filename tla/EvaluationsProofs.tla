-------------------------- MODULE EvaluationsProofs --------------------------
(***************************************************************************)
(* Rows, images, notifications and scores of corrected copies agree, for   *)
(* any number of copies and reviews, in one process or several.            *)
(***************************************************************************)
EXTENDS Evaluations, TLAPS

Loaded == {"score", "reread", "rewrite"}

\* How far the upload of a copy has come tells what the stores hold of it.
CopiesInv ==
    \A c \in Copies :
        /\ rows[c].status # "absent" => pc[c] = "stored" /\ c \in bucket
        /\ c \in notices <=> rows[c].status # "absent"
        /\ pc[c] \in {"extract", "persist", "remove"} => c \in bucket
        /\ pc[c] = "failed" => c \notin bucket

\* A review that has loaded its row has loaded one without a score, and the
\* row is still there.
ReviewsInv ==
    \A r \in Reviews :
        /\ pc[r] \in Loaded =>
              /\ loaded[r].status = "manual_review_needed"
              /\ loaded[r].score = None
              /\ rows[call[r].copy].status # "absent"
        /\ r \in notices => rows[call[r].copy].status = "scored"

EvaluationsInv == TypeOK /\ ScoredHasScore /\ CopiesInv /\ ReviewsInv

-----------------------------------------------------------------------------
(* The columns of a row *)

LEMMA RowOfType ==
    ASSUME NEW result \in Answer
    PROVE  /\ RowOf(result) \in Row
           /\ RowOf(result).status \in {"scored", "manual_review_needed"}
           /\ RowOf(result).score = result.score
           /\ RowOf(result).status = "scored" <=> result.score # None
  BY DEF RowOf, Answer, Row, Reasons

LEMMA ExtractType ==
    ASSUME NEW envelope \in Envelopes, NEW x \in Operations
    PROVE  extract(envelope, x) \in Answer
  BY DEF extract, Envelopes, Answer, NoAnswer, ok

\* A column is written when it differs from what the session had loaded.
LEMMA WriteChangedType ==
    ASSUME NEW current \in Row, NEW read \in Row, NEW new \in Row
    PROVE  /\ WriteChanged(current, read, new) \in Row
           /\ WriteChanged(current, read, new).status =
                IF new.status = read.status THEN current.status ELSE new.status
           /\ WriteChanged(current, read, new).score =
                IF new.score = read.score THEN current.score ELSE new.score
<1> DEFINE W == WriteChanged(current, read, new)
<1>1. W = [status |-> IF new.status = read.status THEN current.status ELSE new.status,
           score |-> IF new.score = read.score THEN current.score ELSE new.score,
           out_of |-> IF new.out_of = read.out_of THEN current.out_of ELSE new.out_of,
           comments |-> IF new.comments = read.comments THEN current.comments ELSE new.comments,
           reason |-> IF new.reason = read.reason THEN current.reason ELSE new.reason]
  BY DEF WriteChanged, Row
<1> QED BY <1>1 DEF Row

-----------------------------------------------------------------------------
(* Initially *)

LEMMA EvaluationsInit == Init => EvaluationsInv
<1> SUFFICES ASSUME Init PROVE EvaluationsInv
  OBVIOUS
<1>1. NoRow \in Row /\ NoAnswer \in Answer
  BY DEF NoRow, Row, NoAnswer, Answer, Reasons
<1>2. TypeOK
  BY <1>1 DEF Init, TypeOK
<1>3. ScoredHasScore /\ CopiesInv /\ ReviewsInv
  BY DEF Init, ScoredHasScore, CopiesInv, ReviewsInv, NoRow, Operations, Loaded
<1> QED BY <1>2, <1>3 DEF EvaluationsInv

-----------------------------------------------------------------------------
(* The three steps that write a row *)

LEMMA PersistWrites ==
    ASSUME TypeOK, NEW c \in Copies, Persist(c)
    PROVE  /\ rows' = [rows EXCEPT ![c] = RowOf(answer[c])]
           /\ RowOf(answer[c]) \in Row
           /\ RowOf(answer[c]).status # "absent"
           /\ RowOf(answer[c]).status = "scored" <=> RowOf(answer[c]).score # None
<1>1. answer[c] \in Answer
  BY DEF TypeOK, Operations
<1> QED BY <1>1, RowOfType DEF Persist

\* What a review writes over a row without a score: the score it brings, if
\* any, else what is there now.
LEMMA ReviewWrites ==
    ASSUME TypeOK, ScoredHasScore, ReviewsInv, NEW r \in Reviews,
           NEW new \in Row, new.status \in {"scored", "manual_review_needed"},
           new.status = "scored" <=> new.score # None,
           pc[r] \in Loaded,
           NEW W, W = WriteChanged(rows[call[r].copy], loaded[r], new)
    PROVE  /\ W \in Row
           /\ W.status # "absent"
           /\ W.status = "scored" <=> W.score # None
           /\ rows[call[r].copy].status = "scored" => W.status = "scored"
           /\ new.status = "scored" => W.status = "scored"
<1>1. call[r].copy \in Copies /\ rows[call[r].copy] \in Row /\ loaded[r] \in Row
  BY DEF TypeOK
<1>2. /\ loaded[r].status = "manual_review_needed"
      /\ loaded[r].score = None
      /\ rows[call[r].copy].status # "absent"
  BY DEF ReviewsInv
<1>3. rows[call[r].copy].status = "scored" <=> rows[call[r].copy].score # None
  BY <1>1 DEF ScoredHasScore
<1> QED BY <1>1, <1>2, <1>3, WriteChangedType

LEMMA ManualRow ==
    ASSUME NEW r \in Reviews, NEW comments \in {r, None}
    PROVE  LET new == [status |-> "scored", score |-> r, out_of |-> r,
                       comments |-> comments, reason |-> "none"]
           IN  /\ new \in Row
               /\ new.status = "scored"
               /\ new.score # None
  BY EvaluationsAssumption DEF Row, Operations, Reasons

\* Either no row changes, or one row does, in the way of these lemmas.
LEMMA ReviewStep ==
    ASSUME TypeOK, ScoredHasScore, ReviewsInv, NEW r \in Reviews,
           ScoreManual(r) \/ Rewrite(r)
    PROVE  \E W \in Row :
              /\ rows' = [rows EXCEPT ![call[r].copy] = W]
              /\ W.status # "absent"
              /\ W.status = "scored" <=> W.score # None
              /\ rows[call[r].copy].status = "scored" => W.status = "scored"
              /\ ScoreManual(r) => W.status = "scored"
<1>0. pc[r] \in Loaded
  BY DEF ScoreManual, Rewrite, Loaded
<1>1. CASE ScoreManual(r)
  <2>1. PICK comments \in {r, None} :
           rows' = [rows EXCEPT ![call[r].copy] = WriteChanged(@, loaded[r],
              [status |-> "scored", score |-> r, out_of |-> r, comments |-> comments,
               reason |-> "none"])]
    BY <1>1 DEF ScoreManual
  <2> DEFINE new == [status |-> "scored", score |-> r, out_of |-> r,
                     comments |-> comments, reason |-> "none"]
             W == WriteChanged(rows[call[r].copy], loaded[r], new)
  <2>2. new \in Row /\ new.status = "scored" /\ new.score # None
    BY ManualRow
  <2>3. rows' = [rows EXCEPT ![call[r].copy] = W]
    BY <2>1 DEF TypeOK
  <2> HIDE DEF new
  <2>4. /\ W \in Row
        /\ W.status # "absent"
        /\ W.status = "scored" <=> W.score # None
        /\ rows[call[r].copy].status = "scored" => W.status = "scored"
        /\ W.status = "scored"
    BY <1>0, <2>2, ReviewWrites
  <2> HIDE DEF W
  <2> QED BY <2>3, <2>4
<1>2. CASE Rewrite(r) /\ ~ScoreManual(r)
  <2> DEFINE new == RowOf(answer[r])
             W == WriteChanged(rows[call[r].copy], loaded[r], new)
  <2>1. /\ new \in Row
        /\ new.status \in {"scored", "manual_review_needed"}
        /\ new.status = "scored" <=> new.score # None
    BY RowOfType DEF TypeOK, Operations
  <2>2. rows' = [rows EXCEPT ![call[r].copy] = W]
    BY <1>2 DEF Rewrite, TypeOK
  <2> HIDE DEF new
  <2>3. /\ W \in Row
        /\ W.status # "absent"
        /\ W.status = "scored" <=> W.score # None
        /\ rows[call[r].copy].status = "scored" => W.status = "scored"
    BY <1>0, <2>1, ReviewWrites
  <2> HIDE DEF W
  <2> QED BY <1>2, <2>2, <2>3
<1> QED BY <1>1, <1>2

-----------------------------------------------------------------------------
(* Type correctness *)

LEMMA TypeStep ==
    TypeOK /\ ScoredHasScore /\ ReviewsInv /\ [Next]_vars => TypeOK'
<1> SUFFICES ASSUME TypeOK, ScoredHasScore, ReviewsInv, [Next]_vars PROVE TypeOK'
  OBVIOUS
<1> USE DEF Goto, Operations, Inside, Ended
<1>1. ASSUME NEW c \in Copies,
             UploadRefused(c) \/ ExtractFails(c) \/ ExtractRaises(c) \/ PersistFails(c)
               \/ RemoveRaises(c)
      PROVE  TypeOK'
  BY <1>1 DEF UploadRefused, ExtractFails, ExtractRaises, PersistFails, RemoveRaises, TypeOK
<1>2. ASSUME NEW c \in Copies, PutObject(c) \/ RemoveObject(c) PROVE TypeOK'
  BY <1>2 DEF PutObject, RemoveObject, TypeOK
<1>3. ASSUME NEW c \in Copies, Extract(c) PROVE TypeOK'
  <2>1. PICK envelope \in Envelopes :
          /\ answer' = [answer EXCEPT ![c] = extract(envelope, c)]
          /\ legible' \subseteq legible \cup {c}
    BY <1>3 DEF Extract
  <2>2. extract(envelope, c) \in Answer
    BY ExtractType
  <2> QED BY <1>3, <2>1, <2>2 DEF Extract, TypeOK
<1>4. ASSUME NEW c \in Copies, Persist(c) PROVE TypeOK'
  <2>1. rows' = [rows EXCEPT ![c] = RowOf(answer[c])] /\ RowOf(answer[c]) \in Row
    BY <1>4, PersistWrites
  <2> HIDE DEF RowOf
  <2> QED BY <1>4, <2>1 DEF Persist, TypeOK
<1>5. ASSUME NEW r \in Reviews, ReviewRefused(r) \/ ReviewRaises(r) PROVE TypeOK'
  BY <1>5 DEF ReviewRefused, ReviewRaises, TypeOK
<1>6. ASSUME NEW r \in Reviews, LoadRow(r) PROVE TypeOK'
  <2>1. rows[call[r].copy] \in Row
    BY DEF TypeOK
  <2> QED BY <1>6, <2>1 DEF LoadRow, TypeOK
<1>7. ASSUME NEW r \in Reviews, ScoreManual(r) \/ Rewrite(r) PROVE TypeOK'
  <2>1. PICK W \in Row : rows' = [rows EXCEPT ![call[r].copy] = W]
    BY <1>7, ReviewStep
  <2> QED BY <1>7, <2>1 DEF ScoreManual, Rewrite, TypeOK
<1>8. ASSUME NEW r \in Reviews, Reread(r) PROVE TypeOK'
  <2>1. PICK envelope \in Envelopes : answer' = [answer EXCEPT ![r] = extract(envelope, r)]
    BY <1>8 DEF Reread
  <2>2. extract(envelope, r) \in Answer
    BY ExtractType
  <2> QED BY <1>8, <2>1, <2>2 DEF Reread, TypeOK
<1>9. ASSUME NEW x \in Operations, Die(x) PROVE TypeOK'
  BY <1>9 DEF Die, TypeOK
<1>10. CASE UNCHANGED vars
  BY <1>10 DEF vars, TypeOK
<1> QED BY <1>1, <1>2, <1>3, <1>4, <1>5, <1>6, <1>7, <1>8, <1>9, <1>10
        DEF Next, Upload, Review

-----------------------------------------------------------------------------
(* The rows *)

\* What a step may do to the row of a copy.
LEMMA RowStep ==
    ASSUME TypeOK, ScoredHasScore, ReviewsInv, CopiesInv, [Next]_vars, NEW c \in Copies
    PROVE  \/ rows'[c] = rows[c]
           \/ /\ rows'[c].status # "absent"
              /\ rows'[c].status = "scored" <=> rows'[c].score # None
              /\ rows[c].status = "scored" => rows'[c].status = "scored"
              /\ \/ Persist(c)
                 \/ \E r \in Reviews : (ScoreManual(r) \/ Rewrite(r)) /\ call[r].copy = c
<1>1. CASE UNCHANGED rows
  BY <1>1
<1>2. ASSUME NEW d \in Copies, Persist(d), rows'[c] # rows[c]
      PROVE  /\ rows'[c].status # "absent"
             /\ rows'[c].status = "scored" <=> rows'[c].score # None
             /\ rows[c].status = "scored" => rows'[c].status = "scored"
             /\ Persist(c)
  <2>1. rows' = [rows EXCEPT ![d] = RowOf(answer[d])]
    BY <1>2, PersistWrites
  <2>2. c = d /\ rows'[c] = RowOf(answer[c])
    BY <1>2, <2>1 DEF TypeOK
  <2>3. rows[c].status = "absent"
    BY <1>2, <2>2 DEF Persist, CopiesInv
  <2> QED BY <1>2, <2>2, <2>3, PersistWrites
<1>3. ASSUME NEW r \in Reviews, ScoreManual(r) \/ Rewrite(r), rows'[c] # rows[c]
      PROVE  /\ rows'[c].status # "absent"
             /\ rows'[c].status = "scored" <=> rows'[c].score # None
             /\ rows[c].status = "scored" => rows'[c].status = "scored"
             /\ call[r].copy = c
  <2>1. PICK W \in Row :
              /\ rows' = [rows EXCEPT ![call[r].copy] = W]
              /\ W.status # "absent"
              /\ W.status = "scored" <=> W.score # None
              /\ rows[call[r].copy].status = "scored" => W.status = "scored"
    BY <1>3, ReviewStep
  <2>2. call[r].copy = c /\ rows'[c] = W
    BY <1>3, <2>1 DEF TypeOK
  <2> QED BY <2>1, <2>2
<1> QED BY <1>1, <1>2, <1>3
        DEF Next, Upload, UploadRefused, PutObject, Extract, ExtractFails, ExtractRaises,
            PersistFails, RemoveObject, RemoveRaises, Review, ReviewRefused, LoadRow, Reread,
            ReviewRaises, Die, vars

LEMMA ScoredStep ==
    TypeOK /\ ScoredHasScore /\ ReviewsInv /\ CopiesInv /\ [Next]_vars => ScoredHasScore'
<1> SUFFICES ASSUME TypeOK, ScoredHasScore, ReviewsInv, CopiesInv, [Next]_vars,
                    NEW c \in Copies
             PROVE  rows'[c].status = "scored" <=> rows'[c].score # None
  BY DEF ScoredHasScore
<1>1. CASE rows'[c] = rows[c]
  BY <1>1 DEF ScoredHasScore
<1> QED BY <1>1, RowStep

-----------------------------------------------------------------------------
(* Copies *)

\* Operations do not move each other.
LEMMA OneMoves ==
    ASSUME TypeOK, NEW x \in Operations, NEW place, Goto(x, place)
    PROVE  pc'[x] = place /\ \A y \in Operations : y # x => pc'[y] = pc[y]
  BY DEF Goto, TypeOK

LEMMA CallKept == [Next]_vars => UNCHANGED <<deployment, call>>
  BY DEF Next, Upload, UploadRefused, PutObject, Extract, ExtractFails, ExtractRaises,
         Persist, PersistFails, RemoveObject, RemoveRaises, Review, ReviewRefused, LoadRow,
         ScoreManual, Reread, Rewrite, ReviewRaises, Die, vars

LEMMA CopiesStep ==
    TypeOK /\ ScoredHasScore /\ ReviewsInv /\ CopiesInv /\ [Next]_vars => CopiesInv'
<1> SUFFICES ASSUME TypeOK, ScoredHasScore, ReviewsInv, CopiesInv, [Next]_vars,
                    NEW c \in Copies
             PROVE  /\ rows'[c].status # "absent" => pc'[c] = "stored" /\ c \in bucket'
                    /\ c \in notices' <=> rows'[c].status # "absent"
                    /\ pc'[c] \in {"extract", "persist", "remove"} => c \in bucket'
                    /\ pc'[c] = "failed" => c \notin bucket'
  BY DEF CopiesInv
<1>0. /\ c \in Operations
      /\ \A r \in Reviews : r \in Operations /\ r # c
      /\ \A d \in Copies : d \in Operations
  BY EvaluationsAssumption DEF Operations
<1>1. /\ rows[c].status # "absent" => pc[c] = "stored" /\ c \in bucket
      /\ c \in notices <=> rows[c].status # "absent"
      /\ pc[c] \in {"extract", "persist", "remove"} => c \in bucket
      /\ pc[c] = "failed" => c \notin bucket
  BY DEF CopiesInv
<1>2. ASSUME NEW d \in Copies,
             UploadRefused(d) \/ Extract(d) \/ ExtractFails(d) \/ ExtractRaises(d)
               \/ PersistFails(d) \/ RemoveRaises(d)
      PROVE  /\ rows'[c].status # "absent" => pc'[c] = "stored" /\ c \in bucket'
             /\ c \in notices' <=> rows'[c].status # "absent"
             /\ pc'[c] \in {"extract", "persist", "remove"} => c \in bucket'
             /\ pc'[c] = "failed" => c \notin bucket'
  BY <1>0, <1>1, <1>2, OneMoves
     DEF UploadRefused, Extract, ExtractFails, ExtractRaises, PersistFails, RemoveRaises
<1>3. ASSUME NEW d \in Copies, PutObject(d) \/ RemoveObject(d)
      PROVE  /\ rows'[c].status # "absent" => pc'[c] = "stored" /\ c \in bucket'
             /\ c \in notices' <=> rows'[c].status # "absent"
             /\ pc'[c] \in {"extract", "persist", "remove"} => c \in bucket'
             /\ pc'[c] = "failed" => c \notin bucket'
  BY <1>0, <1>1, <1>3, OneMoves DEF PutObject, RemoveObject
<1>4. ASSUME NEW d \in Copies, Persist(d)
      PROVE  /\ rows'[c].status # "absent" => pc'[c] = "stored" /\ c \in bucket'
             /\ c \in notices' <=> rows'[c].status # "absent"
             /\ pc'[c] \in {"extract", "persist", "remove"} => c \in bucket'
             /\ pc'[c] = "failed" => c \notin bucket'
  <2>1. rows' = [rows EXCEPT ![d] = RowOf(answer[d])] /\ RowOf(answer[d]).status # "absent"
    BY <1>4, PersistWrites
  <2>2. UNCHANGED bucket /\ notices' = notices \cup {d} /\ pc[d] = "persist" /\ Goto(d, "stored")
    BY <1>4 DEF Persist
  <2>3. CASE c = d
    <3>1. pc'[c] = "stored" /\ c \in bucket' /\ c \in notices'
      BY <1>0, <1>1, <2>2, <2>3, OneMoves
    <3>2. rows'[c].status # "absent"
      BY <2>1, <2>3 DEF TypeOK
    <3> QED BY <3>1, <3>2
  <2>4. CASE c # d
    <3>1. pc'[c] = pc[c] /\ UNCHANGED bucket /\ (c \in notices' <=> c \in notices)
      BY <1>0, <2>2, <2>4, OneMoves
    <3>2. rows'[c] = rows[c]
      BY <2>1, <2>4 DEF TypeOK
    <3> QED BY <1>1, <3>1, <3>2
  <2> QED BY <2>3, <2>4
<1>5. ASSUME NEW r \in Reviews, ReviewRefused(r) \/ LoadRow(r) \/ Reread(r) \/ ReviewRaises(r)
      PROVE  /\ rows'[c].status # "absent" => pc'[c] = "stored" /\ c \in bucket'
             /\ c \in notices' <=> rows'[c].status # "absent"
             /\ pc'[c] \in {"extract", "persist", "remove"} => c \in bucket'
             /\ pc'[c] = "failed" => c \notin bucket'
  BY <1>0, <1>1, <1>5, OneMoves DEF ReviewRefused, LoadRow, Reread, ReviewRaises
<1>6. ASSUME NEW r \in Reviews, ScoreManual(r) \/ Rewrite(r)
      PROVE  /\ rows'[c].status # "absent" => pc'[c] = "stored" /\ c \in bucket'
             /\ c \in notices' <=> rows'[c].status # "absent"
             /\ pc'[c] \in {"extract", "persist", "remove"} => c \in bucket'
             /\ pc'[c] = "failed" => c \notin bucket'
  <2>1. PICK W \in Row : rows' = [rows EXCEPT ![call[r].copy] = W] /\ W.status # "absent"
    BY <1>6, ReviewStep
  <2>2. rows[call[r].copy].status # "absent"
    BY <1>6 DEF ScoreManual, Rewrite, ReviewsInv, Loaded
  <2>3. rows'[c].status # "absent" <=> rows[c].status # "absent"
    BY <2>1, <2>2 DEF TypeOK
  <2>4. UNCHANGED bucket /\ (c \in notices' <=> c \in notices) /\ pc'[c] = pc[c]
    BY <1>0, <1>6, OneMoves DEF ScoreManual, Rewrite
  <2> QED BY <1>1, <2>3, <2>4
<1>7. ASSUME NEW x \in Operations, Die(x)
      PROVE  /\ rows'[c].status # "absent" => pc'[c] = "stored" /\ c \in bucket'
             /\ c \in notices' <=> rows'[c].status # "absent"
             /\ pc'[c] \in {"extract", "persist", "remove"} => c \in bucket'
             /\ pc'[c] = "failed" => c \notin bucket'
  BY <1>0, <1>1, <1>7, OneMoves DEF Die, Inside
<1>8. CASE UNCHANGED vars
  BY <1>1, <1>8 DEF vars
<1> QED BY <1>2, <1>3, <1>4, <1>5, <1>6, <1>7, <1>8 DEF Next, Upload, Review

-----------------------------------------------------------------------------
(* Reviews *)

LEMMA RowsStay ==
    ASSUME TypeOK, ScoredHasScore, ReviewsInv, CopiesInv, [Next]_vars, NEW c \in Copies
    PROVE  /\ rows[c].status # "absent" => rows'[c].status # "absent"
           /\ rows[c].status = "scored" => rows'[c].status = "scored"
<1>1. CASE rows'[c] = rows[c]
  BY <1>1
<1> QED BY <1>1, RowStep

LEMMA ReviewsStep ==
    TypeOK /\ ScoredHasScore /\ ReviewsInv /\ CopiesInv /\ [Next]_vars => ReviewsInv'
<1> SUFFICES ASSUME TypeOK, ScoredHasScore, ReviewsInv, CopiesInv, [Next]_vars,
                    NEW r \in Reviews
             PROVE  /\ pc'[r] \in Loaded =>
                          /\ loaded'[r].status = "manual_review_needed"
                          /\ loaded'[r].score = None
                          /\ rows'[call'[r].copy].status # "absent"
                    /\ r \in notices' => rows'[call'[r].copy].status = "scored"
  BY DEF ReviewsInv
<1>0. /\ r \in Operations
      /\ \A c \in Copies : c \in Operations /\ c # r
      /\ \A q \in Reviews : q \in Operations
  BY EvaluationsAssumption DEF Operations
<1>1. call' = call /\ call[r].copy \in Copies
  BY CallKept DEF TypeOK
<1>2. /\ rows[call[r].copy].status # "absent" => rows'[call[r].copy].status # "absent"
      /\ rows[call[r].copy].status = "scored" => rows'[call[r].copy].status = "scored"
  BY <1>1, RowsStay
<1>3. CASE LoadRow(r)
  <2>1. rows[call[r].copy].status = "manual_review_needed" /\ UNCHANGED <<rows, notices>>
    BY <1>3 DEF LoadRow, Reviewable
  <2>2. rows[call[r].copy].score = None
    BY <1>1, <2>1 DEF ScoredHasScore
  <2>3. loaded'[r] = rows[call[r].copy]
    BY <1>3 DEF LoadRow, TypeOK
  <2>4. r \notin notices
    BY <2>1 DEF ReviewsInv
  <2> QED BY <1>1, <2>1, <2>2, <2>3, <2>4
<1>4. CASE ScoreManual(r)
  <2>1. PICK W \in Row : rows' = [rows EXCEPT ![call[r].copy] = W] /\ W.status = "scored"
    BY <1>4, ReviewStep
  <2>2. rows'[call[r].copy].status = "scored"
    BY <1>1, <2>1 DEF TypeOK
  <2>3. pc'[r] = "scored"
    BY <1>0, <1>4, OneMoves DEF ScoreManual
  <2> QED BY <1>1, <2>2, <2>3 DEF Loaded
<1>5. CASE /\ loaded'[r] = loaded[r]
           /\ pc'[r] \in Loaded => pc[r] \in Loaded
           /\ r \in notices' => r \in notices
  BY <1>1, <1>2, <1>5 DEF ReviewsInv
<1>6. ASSUME NEW c \in Copies, Upload(c)
      PROVE  /\ loaded'[r] = loaded[r]
             /\ pc'[r] \in Loaded => pc[r] \in Loaded
             /\ r \in notices' => r \in notices
  BY <1>0, <1>6, OneMoves
     DEF Upload, UploadRefused, PutObject, Extract, ExtractFails, ExtractRaises,
         Persist, PersistFails, RemoveObject, RemoveRaises
<1>7. ASSUME NEW q \in Reviews, Review(q), ~LoadRow(r), ~ScoreManual(r)
      PROVE  /\ loaded'[r] = loaded[r]
             /\ pc'[r] \in Loaded => pc[r] \in Loaded
             /\ r \in notices' => r \in notices
  <2>1. CASE q = r
    BY <1>0, <1>7, <2>1, OneMoves
       DEF Review, ReviewRefused, Reread, Rewrite, ReviewRaises, Loaded
  <2>2. CASE q # r
    BY <1>0, <1>7, <2>2, OneMoves
       DEF Review, ReviewRefused, LoadRow, ScoreManual, Reread, Rewrite, ReviewRaises, TypeOK
  <2> QED BY <2>1, <2>2
<1>8. ASSUME NEW x \in Operations, Die(x)
      PROVE  /\ loaded'[r] = loaded[r]
             /\ pc'[r] \in Loaded => pc[r] \in Loaded
             /\ r \in notices' => r \in notices
  BY <1>0, <1>8, OneMoves DEF Die, Loaded
<1>9. CASE UNCHANGED vars
  BY <1>5, <1>9 DEF vars
<1> QED BY <1>3, <1>4, <1>5, <1>6, <1>7, <1>8, <1>9 DEF Next

-----------------------------------------------------------------------------
(* One process *)

\* In one process a single operation is past its first access, and the row a
\* review has loaded is the row that is there.
AloneInv ==
    deployment = "one process" =>
        /\ \A x, y \in Operations : pc[x] \in Inside /\ pc[y] \in Inside => x = y
        /\ \A r \in Reviews :
              pc[r] \in Loaded => rows[call[r].copy].status = "manual_review_needed"

\* An operation that is inside was inside before, or found nobody inside.
LEMMA WhoIsInside ==
    ASSUME TypeOK, [Next]_vars, NEW x \in Operations, pc'[x] \in Inside
    PROVE  \/ pc[x] \in Inside
           \/ Free(x) /\ \A y \in Operations : y # x => pc'[y] = pc[y]
<1>0. \A y \in Copies \cup Reviews : y \in Operations
  BY DEF Operations
<1>1. ASSUME NEW c \in Copies, Upload(c), pc[x] \notin Inside
      PROVE  Free(x) /\ \A y \in Operations : y # x => pc'[y] = pc[y]
  BY <1>0, <1>1, OneMoves
     DEF Upload, UploadRefused, PutObject, Extract, ExtractFails, ExtractRaises,
         Persist, PersistFails, RemoveObject, RemoveRaises, Inside
<1>2. ASSUME NEW r \in Reviews, Review(r), pc[x] \notin Inside
      PROVE  Free(x) /\ \A y \in Operations : y # x => pc'[y] = pc[y]
  BY <1>0, <1>2, OneMoves
     DEF Review, ReviewRefused, LoadRow, ScoreManual, Reread, Rewrite, ReviewRaises, Inside
<1>3. ASSUME NEW y \in Operations, Die(y) PROVE pc[x] \in Inside
  BY <1>3, OneMoves DEF Die, Inside
<1>4. CASE UNCHANGED vars
  BY <1>4 DEF vars
<1> QED BY <1>1, <1>2, <1>3, <1>4 DEF Next

\* The writers of a row are inside.
LEMMA WriterInside ==
    ASSUME EvaluationsInv, [Next]_vars, NEW c \in Copies, rows'[c] # rows[c]
    PROVE  \/ pc[c] \in Inside /\ rows[c].status = "absent"
           \/ \E r \in Reviews : pc[r] \in Loaded /\ pc'[r] \notin Inside /\ call[r].copy = c
<1>1. \/ Persist(c)
      \/ \E r \in Reviews : (ScoreManual(r) \/ Rewrite(r)) /\ call[r].copy = c
  BY RowStep DEF EvaluationsInv
<1>2. Persist(c) => pc[c] \in Inside /\ rows[c].status = "absent"
  BY DEF Persist, Inside, EvaluationsInv, CopiesInv
<1>3. ASSUME NEW r \in Reviews, ScoreManual(r) \/ Rewrite(r)
      PROVE  pc[r] \in Loaded /\ pc'[r] \notin Inside
  BY <1>3, OneMoves DEF EvaluationsInv, ScoreManual, Rewrite, Operations, Loaded, Inside
<1> QED BY <1>1, <1>2, <1>3

LEMMA AloneStep ==
    EvaluationsInv /\ AloneInv /\ [Next]_vars => AloneInv'
<1> SUFFICES ASSUME EvaluationsInv, AloneInv, [Next]_vars, deployment' = "one process"
             PROVE  /\ \A x, y \in Operations : pc'[x] \in Inside /\ pc'[y] \in Inside => x = y
                    /\ \A r \in Reviews :
                          pc'[r] \in Loaded => rows'[call'[r].copy].status = "manual_review_needed"
  BY DEF AloneInv
<1>1. deployment = "one process" /\ call' = call /\ TypeOK
  BY CallKept DEF EvaluationsInv
<1>2. \A x, y \in Operations : pc[x] \in Inside /\ pc[y] \in Inside => x = y
  BY <1>1 DEF AloneInv
<1>3. ASSUME NEW x \in Operations, NEW y \in Operations,
             pc'[x] \in Inside, pc'[y] \in Inside, x # y
      PROVE  FALSE
  <2>1. CASE pc[x] \in Inside /\ pc[y] \in Inside
    BY <1>2, <1>3, <2>1
  <2>2. CASE pc[x] \notin Inside
    <3>1. Free(x) /\ pc'[y] = pc[y]
      BY <1>1, <1>3, <2>2, WhoIsInside
    <3> QED BY <1>1, <1>3, <3>1 DEF Free
  <2>3. CASE pc[y] \notin Inside
    <3>1. Free(y) /\ pc'[x] = pc[x]
      BY <1>1, <1>3, <2>3, WhoIsInside
    <3> QED BY <1>1, <1>3, <3>1 DEF Free
  <2> QED BY <2>1, <2>2, <2>3
<1>4. ASSUME NEW r \in Reviews, pc'[r] \in Loaded
      PROVE  rows'[call'[r].copy].status = "manual_review_needed"
  <2> DEFINE c == call[r].copy
  <2>0. r \in Operations /\ c \in Copies /\ c \in Operations /\ c # r /\ Loaded \subseteq Inside
    BY <1>1, EvaluationsAssumption DEF Operations, TypeOK, Loaded, Inside
  <2>1. CASE pc[r] \in Loaded
    <3>1. rows[c].status = "manual_review_needed"
      BY <1>1, <2>1 DEF AloneInv
    <3>2. ASSUME rows'[c] # rows[c] PROVE FALSE
      <4>1. PICK q \in Reviews : pc[q] \in Loaded /\ pc'[q] \notin Inside
        BY <2>0, <3>1, <3>2, WriterInside
      <4>2. q = r
        BY <1>2, <2>0, <2>1, <4>1 DEF Operations
      <4> QED BY <1>4, <2>0, <4>1, <4>2
    <3> QED BY <1>1, <3>1, <3>2
  <2>2. CASE pc[r] \notin Loaded
    <3>1. LoadRow(r)
      <4>1. ASSUME NEW d \in Copies, Upload(d) PROVE FALSE
        BY <1>1, <1>4, <2>0, <2>2, <4>1, OneMoves, EvaluationsAssumption
           DEF Upload, UploadRefused, PutObject, Extract, ExtractFails, ExtractRaises,
               Persist, PersistFails, RemoveObject, RemoveRaises, Operations
      <4>2. ASSUME NEW q \in Reviews, Review(q) PROVE LoadRow(r)
        <5>1. q \in Operations
          BY DEF Operations
        <5> QED BY <1>1, <1>4, <2>0, <2>2, <4>2, <5>1, OneMoves
                DEF Review, ReviewRefused, LoadRow, ScoreManual, Reread, Rewrite,
                    ReviewRaises, Loaded
      <4>3. ASSUME NEW y \in Operations, Die(y) PROVE FALSE
        BY <1>1, <1>4, <2>0, <2>2, <4>3, OneMoves DEF Die, Loaded
      <4>4. ~UNCHANGED vars
        BY <1>4, <2>2 DEF vars
      <4> QED BY <4>1, <4>2, <4>3, <4>4 DEF Next
    <3> QED BY <1>1, <3>1 DEF LoadRow, Reviewable
  <2> QED BY <2>1, <2>2
<1> QED BY <1>3, <1>4

LEMMA AloneInit == Init => AloneInv
<1> SUFFICES ASSUME Init PROVE AloneInv
  OBVIOUS
<1>1. \A x \in Operations : pc[x] \notin Inside
  BY DEF Init, Inside
<1>2. \A r \in Reviews : pc[r] \notin Loaded
  BY DEF Init, Loaded, Operations
<1> QED BY <1>1, <1>2 DEF AloneInv

-----------------------------------------------------------------------------
(* The theorems *)

LEMMA EvaluationsInvariant == Spec => [](EvaluationsInv /\ AloneInv)
<1>1. Init => EvaluationsInv /\ AloneInv
  BY EvaluationsInit, AloneInit
<1>2. EvaluationsInv /\ AloneInv /\ [Next]_vars => (EvaluationsInv /\ AloneInv)'
  BY TypeStep, ScoredStep, CopiesStep, ReviewsStep, AloneStep DEF EvaluationsInv
<1> QED BY <1>1, <1>2, PTL DEF Spec

\* Type correctness of uploads, reviews and the rows they write.
THEOREM TypeCorrect == Spec => []TypeOK
<1>1. EvaluationsInv => TypeOK
  BY DEF EvaluationsInv
<1> QED BY <1>1, EvaluationsInvariant, PTL

\* Whatever mixture of columns concurrent reviews leave, a row is "scored"
\* exactly when it has a score (score_manual, reprocess).
THEOREM ScoredRowsHaveScores == Spec => []ScoredHasScore
<1>1. EvaluationsInv => ScoredHasScore
  BY DEF EvaluationsInv
<1> QED BY <1>1, EvaluationsInvariant, PTL

\* Every row has its image (EvaluationService.upload and its rollback).
THEOREM RowsHaveImages == Spec => []ImageBehindRow
<1>1. EvaluationsInv => ImageBehindRow
  BY DEF EvaluationsInv, CopiesInv, ImageBehindRow
<1> QED BY <1>1, EvaluationsInvariant, PTL

\* An upload that reports an EvaluationError leaves nothing in S3 or in the
\* database.
THEOREM FailureLeavesNothing == Spec => []ReportedFailureLeavesNothing
<1>1. EvaluationsInv => ReportedFailureLeavesNothing
  BY DEF EvaluationsInv, CopiesInv, ReportedFailureLeavesNothing
<1> QED BY <1>1, EvaluationsInvariant, PTL

\* Notifications are those of the rows, those of manual scores of scored rows.
THEOREM NoticesFollowRows == Spec => []NoticesMatchRows
<1>1. EvaluationsInv => NoticesMatchRows
  BY DEF EvaluationsInv, CopiesInv, ReviewsInv, NoticesMatchRows
<1> QED BY <1>1, EvaluationsInvariant, PTL

\* No review, in any process, takes a score away again.
THEOREM ScoreIsKept == Spec => ScoreNeverErased
<1>1. EvaluationsInv /\ [Next]_vars =>
        [\A c \in Copies : rows[c].status = "scored" => rows'[c].status = "scored"]_vars
  BY RowsStay DEF EvaluationsInv
<1> QED BY <1>1, EvaluationsInvariant, PTL DEF Spec, ScoreNeverErased

\* With one server process no step changes a row that is scored.
THEOREM ScoreIsFinal == Spec => ScoredIsFinal
<1>1. ASSUME EvaluationsInv, AloneInv, [Next]_vars, NEW c \in Copies,
             deployment = "one process", rows[c].status = "scored", rows'[c] # rows[c]
      PROVE  FALSE
  <2>1. PICK r \in Reviews : pc[r] \in Loaded /\ call[r].copy = c
    BY <1>1, WriterInside
  <2> QED BY <1>1, <2>1 DEF AloneInv
<1>2. EvaluationsInv /\ AloneInv /\ [Next]_vars =>
        [\A c \in Copies :
            (deployment = "one process" /\ rows[c].status = "scored")
              => rows'[c] = rows[c]]_vars
  BY <1>1
<1> QED BY <1>2, EvaluationsInvariant, PTL DEF Spec, ScoredIsFinal
=============================================================================
