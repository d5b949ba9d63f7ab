----------------------------- MODULE MCSessions -----------------------------
(* One page with two requests, in a browser with or without localStorage. *)
EXTENDS Sessions

CONSTANTS alice, bob, page, r1, r2

MCPageOf == [r \in {r1, r2} |-> page]

\* The users are alike: the first who gets tokens is called alice.
FirstIsAlice == pairs = <<>> \/ pairs[1].owner = alice
=============================================================================
