------------------------------ MODULE Accounts ------------------------------
(***************************************************************************)
(* The handlers that write accounts: register (api/auth/router.py),        *)
(* create_user, update_role and add_child (api/users/router.py), over the  *)
(* tables users and parent_child_links.  They run in FastAPI's thread      *)
(* pool, each with a session of its own, against PostgreSQL at READ        *)
(* COMMITTED: a statement sees what was committed before it, a row changed *)
(* by an open transaction is locked, and INSERT and COMMIT follow one      *)
(* another without anything in between that another request could see.     *)
(*                                                                         *)
(* Accounts are never deleted and never renamed.                           *)
(***************************************************************************)
EXTENDS Naturals, FiniteSets

CONSTANTS
    Requests,   \* worker threads: one request each at a time
    NoRequest,
    Pseudos,    \* pseudos as they are spelled
    Lower,      \* lower(pseudo)
    Calls,      \* bound: what clients ask for
    Accounts0   \* the accounts before the first request

Roles == {"eleve", "parent", "admin"}
Account == [pseudo : Pseudos, role : Roles]
Call == [op : {"register", "create", "role", "link"},
         by : Pseudos,      \* the bearer's pseudo; unused by register
         name : Pseudos,    \* the pseudo in the path or body; the parent
         child : Pseudos,   \* the child, of a link
         role : Roles]      \* the role in the body

NoAccount == [pseudo |-> NoRequest, role |-> "none"]
NoCall == [op |-> "none"]

\* filter(func.lower(User.pseudo) == pseudo.lower())
Named(table, p) == {u \in table : Lower[u.pseudo] = Lower[p]}
Unique(table) == \A u, v \in table : Lower[u.pseudo] = Lower[v.pseudo] => u = v

ASSUME AccountsAssumption ==
    /\ NoRequest \notin Requests
    /\ Lower \in [Pseudos -> Pseudos]
    /\ Calls \subseteq Call
    /\ Accounts0 \subseteq Account
    /\ Unique(Accounts0)
    /\ \E u \in Accounts0 : u.role = "admin"

VARIABLES
    users,      \* table users, committed
    links,      \* table parent_child_links, committed
    demoting,   \* requests whose flushed, uncommitted UPDATE locks their row
    pc,         \* where each request is
    call,       \* what it was asked
    caller,     \* the account get_current_user loaded
    loaded,     \* the account its session works on: the target, the parent
    reply,      \* the status it answered last
    overlapped, \* history: two role changes were under way at one time
    held        \* history: roles its target has had since a role change was
                \* authorised

tables == <<users, links>>
session == <<call, caller, loaded, held>>
vars == <<tables, demoting, pc, session, reply, overlapped>>

Admins(table) == {u \in table : u.role = "admin"}

Go(q, to) ==
    /\ pc' = [pc EXCEPT ![q] = to]
    /\ UNCHANGED reply

\* The answer; the session is closed and forgotten.
Reply(q, status) ==
    /\ pc' = [pc EXCEPT ![q] = "idle"]
    /\ reply' = [reply EXCEPT ![q] = status]
    /\ call' = [call EXCEPT ![q] = NoCall]
    /\ caller' = [caller EXCEPT ![q] = NoAccount]
    /\ loaded' = [loaded EXCEPT ![q] = NoAccount]

\* Role changes under way.
Changing == {q \in Requests : call[q].op = "role"
                              /\ pc[q] \in {"fetch", "demote", "count", "commit"}}

\* An account got a role: the role changes that may target it take note, the
\* answered request q forgets.
Hold(q, p, role) ==
    held' = [d \in Requests |->
                IF d = q THEN {}
                ELSE IF d \in Changing /\ Lower[call[d].name] = Lower[p]
                THEN held[d] \cup {role} ELSE held[d]]
Drop(q) == held' = [held EXCEPT ![q] = {}]

Answer(q, status) == Reply(q, status) /\ Drop(q)

-----------------------------------------------------------------------------
(* A request arrives; get_current_user and require_role *)

\* Every bearer names an account.
Receive(q) ==
    /\ pc[q] = "idle"
    /\ \E c \in Calls :
        /\ c.op = "register" \/ \E u \in users : u.pseudo = c.by
        /\ call' = [call EXCEPT ![q] = c]
        /\ pc' = [pc EXCEPT ![q] = IF c.op = "register" THEN "precheck"
                                   ELSE "authorise"]
    /\ reply' = [reply EXCEPT ![q] = 0]
    /\ UNCHANGED <<tables, demoting, caller, loaded, overlapped, held>>

AuthoriseLink(q, u) ==
    /\ call[q].op = "link"
    /\ Go(q, "parent")
    /\ caller' = [caller EXCEPT ![q] = u]
    /\ UNCHANGED <<call, loaded, held, overlapped>>

AuthoriseCreate(q, u) ==
    /\ call[q].op = "create" /\ u.role = "admin"
    /\ Go(q, "precheck")
    /\ UNCHANGED <<session, overlapped>>

AuthoriseRole(q, u) ==
    /\ call[q].op = "role" /\ u.role = "admin"
    /\ Go(q, "fetch")
    /\ caller' = [caller EXCEPT ![q] = u]
    /\ held' = [held EXCEPT ![q] = {v.role : v \in Named(users, call[q].name)}]
    /\ overlapped' = (overlapped \/ Changing # {})
    /\ UNCHANGED <<call, loaded>>

Forbid(q, u) ==
    /\ call[q].op \in {"create", "role"} /\ u.role # "admin"
    /\ Answer(q, 403)
    /\ UNCHANGED overlapped

Authorise(q) ==
    /\ pc[q] = "authorise"
    /\ \E u \in users :
        /\ u.pseudo = call[q].by
        /\ \/ AuthoriseLink(q, u) \/ AuthoriseCreate(q, u)
           \/ AuthoriseRole(q, u) \/ Forbid(q, u)
    /\ UNCHANGED <<tables, demoting>>

-----------------------------------------------------------------------------
(* register and create_user *)

PseudoFree(q) ==
    /\ pc[q] = "precheck" /\ Named(users, call[q].name) = {}
    /\ Go(q, "insert")
    /\ UNCHANGED <<tables, demoting, session, overlapped>>

PseudoTaken(q) ==
    /\ pc[q] = "precheck" /\ Named(users, call[q].name) # {}
    /\ Answer(q, 409)
    /\ UNCHANGED <<tables, demoting, overlapped>>

\* Mutated: the account of a registration has no role yet.
NewAccountWithoutRole(c) ==
    [pseudo |-> c.name, role |-> IF c.op = "register" THEN "none" ELSE c.role]

NewAccount(c) ==
    [pseudo |-> c.name, role |-> IF c.op = "register" THEN "eleve" ELSE c.role]

\* Mutated table: no unique index, the pre-check is trusted.
InsertTrusting(q) ==
    /\ pc[q] = "insert"
    /\ LET u == NewAccount(call[q]) IN
          /\ users' = users \cup {u}
          /\ Hold(q, u.pseudo, u.role)
          /\ Reply(q, 201)
    /\ UNCHANGED <<links, demoting, overlapped>>

\* INSERT and COMMIT: the unique index on lower(pseudo) lets the row in, or
\* the IntegrityError is answered like the pre-check.
Insert(q) ==
    /\ pc[q] = "insert"
    /\ IF Named(users, call[q].name) = {}
       THEN LET u == NewAccount(call[q]) IN
            /\ users' = users \cup {u}
            /\ Hold(q, u.pseudo, u.role)
            /\ Reply(q, 201)
       ELSE Answer(q, 409) /\ UNCHANGED users
    /\ UNCHANGED <<links, demoting, overlapped>>

-----------------------------------------------------------------------------
(* update_role *)

TargetMissing(q) ==
    /\ pc[q] = "fetch" /\ Named(users, call[q].name) = {}
    /\ Answer(q, 404)
    /\ UNCHANGED <<tables, demoting, overlapped>>

\* The caller's own row is the object get_current_user loaded, which a later
\* query of the session does not refresh.
FetchTarget(q) ==
    /\ pc[q] = "fetch"
    /\ \E u \in Named(users, call[q].name) :
        LET self == u.pseudo = caller[q].pseudo IN
        /\ loaded' = [loaded EXCEPT ![q] = IF self THEN caller[q] ELSE u]
        /\ Go(q, IF self /\ call[q].role # "admin" THEN "demote" ELSE "commit")
    /\ UNCHANGED <<tables, demoting, call, caller, held, overlapped>>

\* No other request has changed the row without having committed.
Unlocked(q) == \A d \in demoting \ {q} : loaded[d].pseudo # loaded[q].pseudo

\* user.role = new_role and db.flush(): the UPDATE takes the row's lock.
FlushDemotion(q) ==
    /\ pc[q] = "demote" /\ Unlocked(q)
    /\ demoting' = demoting \cup {q}
    /\ Go(q, "count")
    /\ UNCHANGED <<tables, session, overlapped>>

\* Mutated count: before the UPDATE, so that the caller still counts.
AllAdmins(q) == Admins(users) \cup {u \in users : u.pseudo = loaded[q].pseudo}

\* The count sees what others have committed and the session's own UPDATE.
OtherAdmins(q) == {u \in Admins(users) : u.pseudo # loaded[q].pseudo}

\* Mutated count: SELECT ... FOR UPDATE, which waits for the rows of others.
AnotherAdminLocked(q) ==
    /\ pc[q] = "count" /\ OtherAdmins(q) # {}
    /\ \A d \in demoting \ {q} : loaded[d].pseudo \notin {u.pseudo : u \in OtherAdmins(q)}
    /\ Go(q, "commit")
    /\ UNCHANGED <<tables, demoting, session, overlapped>>

AnotherAdmin(q) ==
    /\ pc[q] = "count" /\ OtherAdmins(q) # {}
    /\ Go(q, "commit")
    /\ UNCHANGED <<tables, demoting, session, overlapped>>

LastAdmin(q) ==
    /\ pc[q] = "count" /\ OtherAdmins(q) = {}
    /\ demoting' = demoting \ {q}
    /\ Answer(q, 409)
    /\ UNCHANGED <<tables, overlapped>>

\* The commit writes a role that differs from the loaded one; that UPDATE
\* waits for the row's lock.
RoleDiffers(q) == call[q].role # loaded[q].role

CommitRole(q) ==
    LET p == loaded[q].pseudo  role == call[q].role IN
    /\ pc[q] = "commit"
    /\ IF RoleDiffers(q)
       THEN /\ Unlocked(q)
            /\ users' = {IF u.pseudo = p THEN [u EXCEPT !.role = role] ELSE u :
                            u \in users}
            /\ Hold(q, p, role)
       ELSE Drop(q) /\ UNCHANGED users
    /\ demoting' = demoting \ {q}
    /\ Reply(q, 200)
    /\ UNCHANGED <<links, overlapped>>

-----------------------------------------------------------------------------
(* add_child *)

\* An unknown parent is a 404 before the caller's rights are looked at.
ParentMissing(q) ==
    /\ pc[q] = "parent" /\ Named(users, call[q].name) = {}
    /\ Answer(q, 404)
    /\ UNCHANGED <<tables, demoting, overlapped>>

FetchParent(q) ==
    /\ pc[q] = "parent"
    /\ \E u \in Named(users, call[q].name) :
        IF caller[q].pseudo = u.pseudo \/ caller[q].role = "admin"
        THEN /\ loaded' = [loaded EXCEPT ![q] = u]
             /\ Go(q, "child")
             /\ UNCHANGED <<call, caller, held>>
        ELSE Answer(q, 403)
    /\ UNCHANGED <<tables, demoting, overlapped>>

FetchChild(q) ==
    /\ pc[q] = "child"
    /\ IF Named(users, call[q].child) = {}
       THEN Answer(q, 404)
       ELSE Go(q, "linkcheck") /\ UNCHANGED session
    /\ UNCHANGED <<tables, demoting, overlapped>>

\* The link as it is stored: both pseudos in the spelling of their accounts.
Link(q) == <<loaded[q].pseudo,
             (CHOOSE u \in Named(users, call[q].child) : TRUE).pseudo>>

LinkCheck(q) ==
    /\ pc[q] = "linkcheck"
    /\ IF Link(q) \in links
       THEN Answer(q, 200)
       ELSE Go(q, "insertlink") /\ UNCHANGED session
    /\ UNCHANGED <<tables, demoting, overlapped>>

\* Mutated answer: a link inserted meanwhile is answered as new.
InsertLinkAnew(q) ==
    /\ pc[q] = "insertlink"
    /\ Answer(q, 201)
    /\ links' = links \cup {Link(q)}
    /\ UNCHANGED <<users, demoting, overlapped>>

\* INSERT and COMMIT: the primary key decides, a duplicate is a 200.
InsertLink(q) ==
    /\ pc[q] = "insertlink"
    /\ Answer(q, IF Link(q) \in links THEN 200 ELSE 201)
    /\ links' = links \cup {Link(q)}
    /\ UNCHANGED <<users, demoting, overlapped>>

-----------------------------------------------------------------------------
(* A COMMIT that fails: rollback and 500 *)

CommitFails(q) ==
    /\ \/ pc[q] \in {"insert", "insertlink"}
       \/ pc[q] = "commit" /\ RoleDiffers(q)
    /\ demoting' = demoting \ {q}
    /\ Answer(q, 500)
    /\ UNCHANGED <<tables, overlapped>>

Step(q) ==
    \/ Authorise(q)
    \/ PseudoFree(q) \/ PseudoTaken(q) \/ Insert(q)
    \/ TargetMissing(q) \/ FetchTarget(q) \/ FlushDemotion(q)
    \/ AnotherAdmin(q) \/ LastAdmin(q) \/ CommitRole(q)
    \/ ParentMissing(q) \/ FetchParent(q) \/ FetchChild(q)
    \/ LinkCheck(q) \/ InsertLink(q)
    \/ CommitFails(q)

Init ==
    /\ users = Accounts0
    /\ links = {}
    /\ demoting = {}
    /\ pc = [q \in Requests |-> "idle"]
    /\ call = [q \in Requests |-> NoCall]
    /\ caller = [q \in Requests |-> NoAccount]
    /\ loaded = [q \in Requests |-> NoAccount]
    /\ reply = [q \in Requests |-> 0]
    /\ overlapped = FALSE
    /\ held = [q \in Requests |-> {}]

Next == \E q \in Requests : Receive(q) \/ Step(q)

\* Threads run; PostgreSQL hands a row's lock to its waiters in turn, so that
\* a request whose lock is free again and again gets it.
Fairness == \A q \in Requests : SF_vars(Step(q))

Spec == Init /\ [][Next]_vars /\ Fairness

-----------------------------------------------------------------------------
(* Properties *)

TypeOK ==
    /\ users \subseteq Account
    /\ links \subseteq Pseudos \X Pseudos
    /\ demoting \subseteq Requests
    /\ pc \in [Requests -> {"idle", "authorise", "precheck", "insert", "fetch",
                            "demote", "count", "commit", "parent", "child",
                            "linkcheck", "insertlink"}]
    /\ call \in [Requests -> Calls \cup {NoCall}]
    /\ caller \in [Requests -> Account \cup {NoAccount}]
    /\ loaded \in [Requests -> Account \cup {NoAccount}]
    /\ reply \in [Requests -> {0, 200, 201, 403, 404, 409, 500}]
    /\ overlapped \in BOOLEAN
    /\ held \in [Requests -> SUBSET Roles]

\* However registrations and creations race, no two accounts have pseudos
\* that differ only in case.
UniquePseudos == Unique(users)

\* An administrator always remains, as update_role's guard intends ("would
\* lock the system out"), unless two role changes have overlapped: the guard
\* counts what others have committed, not what they are about to.
AdminRemains == ~overlapped => Admins(users) # {}

\* What a request is told is so: 201 to the one request that made the account
\* or the link, 200 to others only when the link stands, 409 when the pseudo
\* is taken or no other administrator is left; a role change answered 200
\* names a role its target has had since the request was authorised, even
\* when the session had nothing to write; and failures change nothing.
AnswersAreTrue ==
    [][\A q \in Requests : pc[q] # "idle" /\ pc'[q] = "idle" =>
        LET c == call[q]  status == reply'[q]
            before == Named(users, c.name)  after == Named(users', c.name) IN
        /\ status = 201 => IF c.op = "link" THEN Link(q) \notin links /\ Link(q) \in links'
                           ELSE before = {} /\ after = {NewAccount(c)}
        /\ status = 200 => IF c.op = "link" THEN Link(q) \in links
                           ELSE c.role \in held[q] \cup {u.role : u \in after}
        /\ status = 409 => IF c.op = "role" THEN OtherAdmins(q) = {} ELSE before # {}
        /\ status >= 400 => UNCHANGED tables]_vars

\* Every request is answered: no two of them wait for each other's locks.
EveryRequestAnswered == \A q \in Requests : pc[q] # "idle" ~> pc[q] = "idle"
=============================================================================
