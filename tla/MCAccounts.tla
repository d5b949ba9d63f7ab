----------------------------- MODULE MCAccounts -----------------------------
(* Two administrators and a parent; two spellings of a new pseudo.         *)
EXTENDS Accounts

CONSTANTS ann, bob, pam, Kim, kim

MCPseudos == {ann, bob, pam, Kim, kim}
MCLower == [p \in MCPseudos |-> IF p = Kim THEN kim ELSE p]
MCAccounts0 == {[pseudo |-> ann, role |-> "admin"],
                [pseudo |-> bob, role |-> "admin"],
                [pseudo |-> pam, role |-> "parent"]}

Asks(op, by, name, child, role) ==
    [op |-> op, by |-> by, name |-> name, child |-> child, role |-> role]

MCCalls ==
    {Asks("register", ann, p, ann, "eleve") : p \in {Kim, kim}}
    \cup {Asks("create", ann, kim, ann, "parent")}
    \cup {Asks("role", ann, ann, ann, "parent"), Asks("role", bob, bob, ann, "parent"),
          Asks("role", ann, bob, ann, "parent"), Asks("role", bob, ann, ann, "admin")}
    \cup {Asks("role", ann, Kim, ann, "parent")}
    \cup {Asks("link", by, pam, kim, "eleve") : by \in {pam, bob}}
    \cup {Asks("link", ann, Kim, pam, "eleve")}
=============================================================================
