---------------------------- MODULE MCDocuments ----------------------------
(***************************************************************************)
(* Small instances of Documents.                                           *)
(***************************************************************************)
EXTENDS Documents, TLC

\* The uploads are interchangeable, and so are the questions.
Interchangeable == Permutations(Uploads) \cup Permutations(Questions)
=============================================================================
