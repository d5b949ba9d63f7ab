--------------------------- MODULE AccountsProofs ---------------------------
(***************************************************************************)
(* What Accounts.tla promises for every set of requests, pseudos and       *)
(* calls: pseudos stay unique, an administrator remains unless two role    *)
(* changes overlap, and the answers are true.                              *)
(*                                                                         *)
(* UniquePseudos is inductive.  AdminRemains is not: between its count and *)
(* its commit a demotion must keep the other administrator it counted,     *)
(* which it does as long as it is the only role change under way           *)
(* (AdminInv).  The role a 200 names was seen at fetch, perhaps by a stale *)
(* object of the session: HeldInv ties it to the roles held since.         *)
(***************************************************************************)
EXTENDS Accounts, TLAPS

States == {"idle", "authorise", "precheck", "insert", "fetch", "demote", "count",
           "commit", "parent", "child", "linkcheck", "insertlink"}

RoleStates == {"fetch", "demote", "count", "commit"}
LinkStates == {"parent", "child", "linkcheck", "insertlink"}

Targeted == {"demote", "count", "commit"}

\* The request q at each of its steps: what it does, and on which accounts.
RequestOK(q) ==
    /\ pc[q] # "idle" => call[q] \in Calls
    /\ pc[q] = "authorise" => call[q].op # "register"
    /\ pc[q] \in {"precheck", "insert"} => call[q].op \in {"register", "create"}
    /\ pc[q] \in RoleStates =>
          call[q].op = "role" /\ caller[q] \in Account /\ caller[q].role = "admin"
    /\ pc[q] \in LinkStates => call[q].op = "link" /\ caller[q] \in Account
    /\ pc[q] \in LinkStates \ {"parent"} => loaded[q] \in Account
    /\ pc[q] \in {"linkcheck", "insertlink"} => Named(users, call[q].child) # {}
    /\ pc[q] \in Targeted =>
          /\ loaded[q] \in Account
          /\ Lower[loaded[q].pseudo] = Lower[call[q].name]
          /\ \E u \in users : u.pseudo = loaded[q].pseudo
    /\ pc[q] \in {"demote", "count"} => call[q].role # "admin"

TypeInv == TypeOK /\ \A q \in Requests : RequestOK(q)

\* What is known of the other requests in a step of q.
Others(q) ==
    \A d \in Requests \ {q} :
        /\ pc'[d] = pc[d] /\ call'[d] = call[d]
        /\ caller'[d] = caller[d] /\ loaded'[d] = loaded[d]

\* Accounts keep their pseudos.
Kept == \A u \in users : \E v \in users' : v.pseudo = u.pseudo

-----------------------------------------------------------------------------
(* Constants and rows *)

LEMMA Constants ==
    /\ Lower \in [Pseudos -> Pseudos]
    /\ Accounts0 \subseteq Account
    /\ Unique(Accounts0)
    /\ \E u \in Accounts0 : u.role = "admin"
  BY AccountsAssumption, Zenon

\* The steps that only answer, of accounts at least.
LEMMA Answering ==
    ASSUME NEW q \in Requests,
           \/ PseudoTaken(q) \/ TargetMissing(q) \/ LastAdmin(q)
           \/ ParentMissing(q) \/ InsertLink(q) \/ CommitFails(q)
    PROVE  (\E status : Answer(q, status)) /\ UNCHANGED <<users, overlapped>>
<1>1. UNCHANGED <<users, overlapped>>
  BY DEF PseudoTaken, TargetMissing, LastAdmin, ParentMissing, InsertLink, CommitFails,
         tables
<1>2. PseudoTaken(q) \/ LastAdmin(q) => Answer(q, 409)
  BY Zenon DEF PseudoTaken, LastAdmin
<1>3. TargetMissing(q) \/ ParentMissing(q) => Answer(q, 404)
  BY Zenon DEF TargetMissing, ParentMissing
<1>4. InsertLink(q) => Answer(q, IF Link(q) \in links THEN 200 ELSE 201)
  BY Zenon DEF InsertLink
<1>5. CommitFails(q) => Answer(q, 500)
  BY Zenon DEF CommitFails
<1>6. \E status : Answer(q, status)
  BY <1>2, <1>3, <1>4, <1>5
<1> QED BY <1>1, <1>6

LEMMA CallType ==
    ASSUME NEW c \in Calls
    PROVE  /\ c.op \in {"register", "create", "role", "link"}
           /\ c.by \in Pseudos /\ c.name \in Pseudos /\ c.child \in Pseudos
           /\ c.role \in Roles
<1>1. c \in Call
  BY AccountsAssumption, Zenon
<1> QED BY <1>1 DEF Call

LEMMA AccountType ==
    ASSUME NEW u \in Account
    PROVE  u.pseudo \in Pseudos /\ u.role \in Roles
  BY DEF Account

LEMMA WithRole ==
    ASSUME NEW u \in Account, NEW role \in Roles
    PROVE  /\ [u EXCEPT !.role = role] \in Account
           /\ [u EXCEPT !.role = role].pseudo = u.pseudo
           /\ [u EXCEPT !.role = role].role = role
  BY DEF Account

LEMMA NewAccountType ==
    ASSUME NEW c \in Calls
    PROVE  /\ NewAccount(c) \in Account /\ NewAccount(c).pseudo = c.name
<1>1. c.name \in Pseudos /\ c.role \in Roles
  BY CallType
<1> QED BY <1>1 DEF NewAccount, Account, Roles

\* What the UPDATE of a role makes of the table.
Updated(p, role) == {IF u.pseudo = p THEN [u EXCEPT !.role = role] ELSE u : u \in users}

LEMMA UpdateType ==
    ASSUME users \subseteq Account, NEW p, NEW role \in Roles
    PROVE  /\ Updated(p, role) \subseteq Account
           /\ \A u \in users : \E v \in Updated(p, role) :
                 /\ v.pseudo = u.pseudo
                 /\ v.role = IF u.pseudo = p THEN role ELSE u.role
           /\ \A v \in Updated(p, role) : \E u \in users :
                 /\ v.pseudo = u.pseudo
                 /\ v.role = IF u.pseudo = p THEN role ELSE u.role
                 /\ v = IF u.pseudo = p THEN [u EXCEPT !.role = role] ELSE u
<1> DEFINE image(u) == IF u.pseudo = p THEN [u EXCEPT !.role = role] ELSE u
<1>1. \A u \in users : /\ image(u) \in Account /\ image(u).pseudo = u.pseudo
                       /\ image(u).role = IF u.pseudo = p THEN role ELSE u.role
  BY WithRole
<1>2. Updated(p, role) = {image(u) : u \in users}
  BY DEF Updated
<1> HIDE DEF image
<1>3. Updated(p, role) \subseteq Account
  BY <1>1, <1>2
<1>4. \A u \in users : image(u) \in Updated(p, role)
  BY <1>2
<1>5. \A v \in Updated(p, role) : \E u \in users : v = image(u)
  BY <1>2
<1>6. ASSUME NEW u \in users
      PROVE  \E v \in Updated(p, role) :
                 /\ v.pseudo = u.pseudo
                 /\ v.role = IF u.pseudo = p THEN role ELSE u.role
  BY <1>1, <1>4, Zenon
<1>7. ASSUME NEW v \in Updated(p, role)
      PROVE  \E u \in users :
                 /\ v.pseudo = u.pseudo
                 /\ v.role = IF u.pseudo = p THEN role ELSE u.role
                 /\ v = IF u.pseudo = p THEN [u EXCEPT !.role = role] ELSE u
  <2>1. PICK u \in users : v = image(u)
    BY <1>5
  <2>2. v.pseudo = u.pseudo /\ v.role = IF u.pseudo = p THEN role ELSE u.role
    BY <1>1, <2>1, Zenon
  <2> QED BY <2>1, <2>2, Zenon DEF image
<1> QED BY <1>3, <1>6, <1>7

-----------------------------------------------------------------------------
(* Types, and what a request holds at each step *)

Statuses == {200, 201, 403, 404, 409, 500}

LEMMA ReplyEffect ==
    ASSUME TypeOK, NEW q \in Requests, NEW status \in Statuses, Reply(q, status)
    PROVE  /\ Others(q) /\ pc'[q] = "idle" /\ reply'[q] = status
           /\ pc' \in [Requests -> States]
           /\ call' \in [Requests -> Calls \cup {NoCall}]
           /\ caller' \in [Requests -> Account \cup {NoAccount}]
           /\ loaded' \in [Requests -> Account \cup {NoAccount}]
           /\ reply' \in [Requests -> {0} \cup Statuses]
<1>1. pc' \in [Requests -> States] /\ pc'[q] = "idle"
  BY DEF TypeOK, Reply, States
<1>2. reply' \in [Requests -> {0} \cup Statuses] /\ reply'[q] = status
  BY DEF TypeOK, Reply, Statuses
<1>3. /\ call' \in [Requests -> Calls \cup {NoCall}]
      /\ caller' \in [Requests -> Account \cup {NoAccount}]
      /\ loaded' \in [Requests -> Account \cup {NoAccount}]
  BY DEF TypeOK, Reply
<1>4. Others(q)
  BY DEF TypeOK, Reply, Others
<1> QED BY <1>1, <1>2, <1>3, <1>4

LEMMA GoEffect ==
    ASSUME TypeOK, NEW q \in Requests, NEW to \in States, Go(q, to)
    PROVE  /\ pc' \in [Requests -> States] /\ pc'[q] = to
           /\ \A d \in Requests \ {q} : pc'[d] = pc[d]
           /\ reply' \in [Requests -> {0} \cup Statuses]
  BY DEF TypeOK, Go, States, Statuses

LEMMA HeldType ==
    ASSUME TypeOK, NEW q \in Requests
    PROVE  /\ Drop(q) => held' \in [Requests -> SUBSET Roles]
           /\ \A p : \A role \in Roles :
                Hold(q, p, role) => held' \in [Requests -> SUBSET Roles]
<1>1. held \in [Requests -> SUBSET Roles]
  BY DEF TypeOK
<1>2. Drop(q) => held' \in [Requests -> SUBSET Roles]
  BY <1>1 DEF Drop
<1>3. ASSUME NEW p, NEW role \in Roles, Hold(q, p, role)
      PROVE  held' \in [Requests -> SUBSET Roles]
  BY <1>1, <1>3 DEF Hold
<1> QED BY <1>2, <1>3

LEMMA Bystander ==
    ASSUME TypeInv, NEW q \in Requests, Others(q), Kept, NEW d \in Requests, d # q
    PROVE  RequestOK(d)'
<1>1. RequestOK(d)
  BY DEF TypeInv
<1>2. pc'[d] = pc[d] /\ call'[d] = call[d] /\ caller'[d] = caller[d] /\ loaded'[d] = loaded[d]
  BY DEF Others
<1>3. Named(users, call[d].child) # {} => Named(users', call[d].child) # {}
  BY DEF Kept, Named
<1>4. (\E u \in users : u.pseudo = loaded[d].pseudo) => \E u \in users' : u.pseudo = loaded[d].pseudo
  BY DEF Kept
<1> QED BY <1>1, <1>2, <1>3, <1>4 DEF RequestOK

\* The table rows after a step.
RowsOK ==
    /\ users' \subseteq Account /\ Kept
    /\ links' \subseteq Pseudos \X Pseudos
    /\ demoting' \subseteq Requests
    /\ overlapped' \in BOOLEAN
    /\ held' \in [Requests -> SUBSET Roles]

LEMMA RowsSame ==
    ASSUME TypeOK, UNCHANGED <<users, links, demoting>>, overlapped' \in BOOLEAN,
           held' \in [Requests -> SUBSET Roles]
    PROVE  RowsOK
  BY DEF TypeOK, RowsOK, Kept

LEMMA Replied ==
    ASSUME TypeInv, NEW q \in Requests, NEW status \in Statuses, Reply(q, status), RowsOK
    PROVE  TypeInv'
<1>1. TypeOK
  BY DEF TypeInv
<1>2. /\ Others(q) /\ pc'[q] = "idle"
      /\ pc' \in [Requests -> States]
      /\ call' \in [Requests -> Calls \cup {NoCall}]
      /\ caller' \in [Requests -> Account \cup {NoAccount}]
      /\ loaded' \in [Requests -> Account \cup {NoAccount}]
      /\ reply' \in [Requests -> {0} \cup Statuses]
  BY <1>1, ReplyEffect
<1>3. RequestOK(q)'
  BY <1>2 DEF RequestOK, RoleStates, LinkStates, Targeted
<1>4. \A d \in Requests \ {q} : RequestOK(d)'
  BY <1>2, Bystander DEF RowsOK
<1>5. TypeOK'
  BY <1>2 DEF TypeOK, RowsOK, States, Statuses
<1> QED BY <1>3, <1>4, <1>5 DEF TypeInv

LEMMA Answered ==
    ASSUME TypeInv, NEW q \in Requests, NEW status \in Statuses, Answer(q, status),
           UNCHANGED <<users, links>>, demoting' \subseteq Requests, UNCHANGED overlapped
    PROVE  TypeInv'
<1>1. held' \in [Requests -> SUBSET Roles]
  BY HeldType DEF TypeInv, Answer
<1>2. RowsOK
  BY <1>1 DEF RowsOK, TypeInv, TypeOK, Kept
<1> QED BY <1>2, Replied DEF Answer

LEMMA Went ==
    ASSUME TypeInv, NEW q \in Requests, NEW to \in States, Go(q, to),
           UNCHANGED <<users, links, call>>, demoting' \subseteq Requests,
           overlapped' \in BOOLEAN, held' \in [Requests -> SUBSET Roles],
           NEW a \in Account \cup {NoAccount}, caller' = [caller EXCEPT ![q] = a],
           NEW u \in Account \cup {NoAccount}, loaded' = [loaded EXCEPT ![q] = u],
           RequestOK(q)'
    PROVE  TypeInv'
<1>1. TypeOK
  BY DEF TypeInv
<1>2. /\ pc' \in [Requests -> States]
      /\ \A d \in Requests \ {q} : pc'[d] = pc[d]
      /\ reply' \in [Requests -> {0} \cup Statuses]
  BY <1>1, GoEffect
<1>3. /\ caller' \in [Requests -> Account \cup {NoAccount}]
      /\ loaded' \in [Requests -> Account \cup {NoAccount}]
      /\ \A d \in Requests \ {q} : caller'[d] = caller[d] /\ loaded'[d] = loaded[d]
  BY <1>1 DEF TypeOK
<1>4. Others(q) /\ Kept
  BY <1>2, <1>3 DEF Others, Kept
<1>5. \A d \in Requests \ {q} : RequestOK(d)'
  BY <1>4, Bystander
<1>6. TypeOK'
  BY <1>1, <1>2, <1>3 DEF TypeOK, States, Statuses
<1> QED BY <1>5, <1>6 DEF TypeInv

\* A step that only moves on.
LEMMA Moved ==
    ASSUME TypeInv, NEW q \in Requests, NEW to \in States, Go(q, to),
           UNCHANGED <<users, links, session, overlapped>>,
           demoting' \subseteq Requests, RequestOK(q)'
    PROVE  TypeInv'
<1>1. /\ TypeOK
      /\ caller[q] \in Account \cup {NoAccount} /\ loaded[q] \in Account \cup {NoAccount}
  BY DEF TypeInv, TypeOK
<1>2. /\ caller' = [caller EXCEPT ![q] = caller[q]]
      /\ loaded' = [loaded EXCEPT ![q] = loaded[q]]
      /\ overlapped' \in BOOLEAN /\ held' \in [Requests -> SUBSET Roles]
      /\ UNCHANGED <<users, links, call>>
  BY <1>1 DEF TypeOK, session
<1> QED BY <1>1, <1>2, Went, Zenon

LEMMA TypeInit == Init => TypeInv
<1> SUFFICES ASSUME Init PROVE TypeInv
  OBVIOUS
<1>1. /\ users \subseteq Account /\ links \subseteq Pseudos \X Pseudos
      /\ demoting \subseteq Requests /\ overlapped \in BOOLEAN
  BY Constants DEF Init
<1>2. /\ pc \in [Requests -> States] /\ call \in [Requests -> Calls \cup {NoCall}]
      /\ caller \in [Requests -> Account \cup {NoAccount}]
      /\ loaded \in [Requests -> Account \cup {NoAccount}]
  BY DEF Init, States
<1>3. /\ reply \in [Requests -> {0, 200, 201, 403, 404, 409, 500}]
      /\ held \in [Requests -> SUBSET Roles]
  BY DEF Init
<1>4. TypeOK
  BY <1>1, <1>2, <1>3 DEF TypeOK, States
<1> QED BY <1>4 DEF Init, TypeInv, RequestOK, RoleStates, LinkStates, Targeted

LEMMA ReceiveType ==
    ASSUME TypeInv, NEW q \in Requests, Receive(q)
    PROVE  TypeInv'
<1>1. TypeOK
  BY DEF TypeInv
<1>2. PICK c \in Calls :
        /\ call' = [call EXCEPT ![q] = c]
        /\ pc' = [pc EXCEPT ![q] = IF c.op = "register" THEN "precheck" ELSE "authorise"]
  BY Zenon DEF Receive
<1>3. /\ reply' = [reply EXCEPT ![q] = 0]
      /\ UNCHANGED <<users, links, demoting, caller, loaded, overlapped, held>>
  BY DEF Receive, tables
<1>4. TypeOK'
  BY <1>1, <1>2, <1>3 DEF TypeOK
<1>5. Others(q) /\ Kept
  BY <1>1, <1>2, <1>3 DEF TypeOK, Others, Kept
<1>6. /\ call'[q] = c
      /\ pc'[q] = IF c.op = "register" THEN "precheck" ELSE "authorise"
  BY <1>1, <1>2 DEF TypeOK
<1>7. RequestOK(q)'
  BY <1>6 DEF RequestOK, RoleStates, LinkStates, Targeted
<1> QED BY <1>4, <1>5, <1>7, Bystander DEF TypeInv

LEMMA AuthoriseType ==
    ASSUME TypeInv, NEW q \in Requests, Authorise(q)
    PROVE  TypeInv'
<1> USE DEF States
<1>1. PICK u \in users :
        AuthoriseLink(q, u) \/ AuthoriseCreate(q, u) \/ AuthoriseRole(q, u) \/ Forbid(q, u)
  BY Zenon DEF Authorise
<1>2. /\ UNCHANGED <<users, links, demoting>> /\ pc[q] = "authorise"
      /\ TypeOK /\ u \in Account /\ call[q] \in Calls
      /\ loaded[q] \in Account \cup {NoAccount} /\ caller[q] \in Account \cup {NoAccount}
      /\ demoting \subseteq Requests /\ overlapped \in BOOLEAN
      /\ held \in [Requests -> SUBSET Roles]
  BY DEF Authorise, tables, TypeInv, TypeOK, RequestOK
<1>3. CASE AuthoriseLink(q, u)
  <2>1. pc'[q] = "parent"
    BY <1>2, <1>3, GoEffect DEF AuthoriseLink
  <2>2. caller'[q] = u /\ call'[q] = call[q] /\ call[q].op = "link"
    BY <1>2, <1>3 DEF AuthoriseLink, TypeOK
  <2>3. RequestOK(q)'
    BY <1>2, <2>1, <2>2 DEF RequestOK, RoleStates, LinkStates, Targeted
  <2>4. /\ Go(q, "parent") /\ caller' = [caller EXCEPT ![q] = u]
        /\ loaded' = [loaded EXCEPT ![q] = loaded[q]]
        /\ UNCHANGED <<users, links, call>> /\ demoting' \subseteq Requests
        /\ overlapped' \in BOOLEAN /\ held' \in [Requests -> SUBSET Roles]
    BY <1>2, <1>3 DEF AuthoriseLink, TypeOK
  <2> QED BY <1>2, <2>3, <2>4, Went
<1>4. CASE AuthoriseCreate(q, u)
  <2>1. pc'[q] = "precheck"
    BY <1>2, <1>4, GoEffect DEF AuthoriseCreate
  <2>2. RequestOK(q)'
    BY <1>2, <1>4, <2>1
       DEF AuthoriseCreate, session, RequestOK, RoleStates, LinkStates, Targeted
  <2> QED BY <1>2, <1>4, <2>2, Moved DEF AuthoriseCreate
<1>5. CASE AuthoriseRole(q, u)
  <2>1. pc'[q] = "fetch"
    BY <1>2, <1>5, GoEffect DEF AuthoriseRole
  <2>2. caller'[q] = u /\ call'[q] = call[q] /\ call[q].op = "role" /\ u.role = "admin"
    BY <1>2, <1>5 DEF AuthoriseRole, TypeOK
  <2>3. RequestOK(q)'
    BY <1>2, <2>1, <2>2 DEF RequestOK, RoleStates, LinkStates, Targeted
  <2>4. {v.role : v \in Named(users, call[q].name)} \subseteq Roles
    BY <1>2, AccountType DEF TypeOK, Named
  <2>5. /\ Go(q, "fetch") /\ caller' = [caller EXCEPT ![q] = u]
        /\ loaded' = [loaded EXCEPT ![q] = loaded[q]]
        /\ UNCHANGED <<users, links, call>> /\ demoting' \subseteq Requests
        /\ overlapped' \in BOOLEAN
    BY <1>2, <1>5 DEF AuthoriseRole, TypeOK
  <2>6. held' \in [Requests -> SUBSET Roles]
    BY <1>2, <1>5, <2>4 DEF AuthoriseRole
  <2> QED BY <1>2, <2>3, <2>5, <2>6, Went
<1>6. CASE Forbid(q, u)
  BY <1>2, <1>6, Answered DEF Forbid, Statuses
<1> QED BY <1>1, <1>3, <1>4, <1>5, <1>6

\* A new row: the accounts that were there are still there.
LEMMA InsertRows ==
    ASSUME TypeInv, NEW c \in Calls, users' = users \cup {NewAccount(c)},
           NEW q \in Requests, Hold(q, NewAccount(c).pseudo, NewAccount(c).role),
           UNCHANGED links, demoting' \subseteq Requests, UNCHANGED overlapped
    PROVE  RowsOK
<1>1. TypeOK /\ users \subseteq Account
  BY DEF TypeInv, TypeOK
<1>2. NewAccount(c) \in Account /\ NewAccount(c).role \in Roles
  BY NewAccountType, AccountType
<1>3. held' \in [Requests -> SUBSET Roles]
  BY <1>1, <1>2, HeldType
<1> QED BY <1>1, <1>2, <1>3 DEF RowsOK, Kept, TypeOK

LEMMA RegisterType ==
    ASSUME TypeInv, NEW q \in Requests, PseudoFree(q) \/ PseudoTaken(q) \/ Insert(q)
    PROVE  TypeInv'
<1> USE DEF States
<1>1. TypeOK /\ demoting \subseteq Requests
  BY DEF TypeInv, TypeOK
<1>2. CASE PseudoFree(q)
  <2>1. pc'[q] = "insert" /\ pc[q] = "precheck"
    BY <1>1, <1>2, GoEffect DEF PseudoFree
  <2>2. RequestOK(q)'
    BY <1>2, <2>1
       DEF TypeInv, PseudoFree, session, RequestOK, RoleStates, LinkStates, Targeted
  <2> QED BY <1>1, <1>2, <2>2, Moved DEF PseudoFree, tables
<1>3. CASE PseudoTaken(q)
  BY <1>1, <1>3, Answered DEF PseudoTaken, Statuses, tables
<1>4. CASE Insert(q)
  <2>1. CASE Answer(q, 409) /\ UNCHANGED users
    BY <1>1, <1>4, <2>1, Answered DEF Insert, Statuses
  <2>2. CASE LET u == NewAccount(call[q]) IN
             users' = users \cup {u} /\ Hold(q, u.pseudo, u.role) /\ Reply(q, 201)
    <3>1. call[q] \in Calls
      BY <1>4 DEF Insert, TypeInv, RequestOK
    <3>2. RowsOK
      BY <1>1, <1>4, <2>2, <3>1, InsertRows DEF Insert
    <3> QED BY <2>2, <3>2, Replied DEF Statuses
  <2> QED BY <1>4, <2>1, <2>2, Zenon DEF Insert
<1> QED BY <1>2, <1>3, <1>4

LEMMA FetchTargetType ==
    ASSUME TypeInv, NEW q \in Requests, FetchTarget(q)
    PROVE  TypeInv'
<1> DEFINE Self(u) == u.pseudo = caller[q].pseudo
<1>1. PICK u \in Named(users, call[q].name) :
        /\ loaded' = [loaded EXCEPT ![q] = IF Self(u) THEN caller[q] ELSE u]
        /\ Go(q, IF Self(u) /\ call[q].role # "admin" THEN "demote" ELSE "commit")
  BY Zenon DEF FetchTarget
<1> DEFINE l == IF Self(u) THEN caller[q] ELSE u
           to == IF Self(u) /\ call[q].role # "admin" THEN "demote" ELSE "commit"
<1>2. /\ TypeOK /\ RequestOK(q) /\ pc[q] = "fetch" /\ users \subseteq Account
      /\ demoting \subseteq Requests /\ overlapped \in BOOLEAN
      /\ held \in [Requests -> SUBSET Roles] /\ caller \in [Requests -> Account \cup {NoAccount}]
      /\ UNCHANGED <<users, links, demoting, call, caller, held, overlapped>>
  BY DEF FetchTarget, TypeInv, TypeOK, tables
<1>3. caller[q] \in Account /\ call[q] \in Calls /\ call[q].op = "role" /\ caller[q].role = "admin"
  BY <1>2 DEF RequestOK, RoleStates
<1>4. u \in users /\ Lower[u.pseudo] = Lower[call[q].name]
  BY DEF Named
<1>5. l \in Account /\ l.pseudo = u.pseudo /\ to \in States
  BY <1>2, <1>3, <1>4 DEF States
<1>6. Go(q, to) /\ loaded' = [loaded EXCEPT ![q] = l]
  BY <1>1
<1>7. to \in {"demote", "commit"} /\ (to = "demote" => call[q].role # "admin")
  OBVIOUS
<1> HIDE DEF l, to
<1>8. pc'[q] = to /\ loaded'[q] = l
  BY <1>2, <1>5, <1>6, GoEffect DEF TypeOK
<1>9. RequestOK(q)'
  BY <1>2, <1>3, <1>4, <1>5, <1>7, <1>8 DEF RequestOK, RoleStates, LinkStates, Targeted
<1>10. caller' = [caller EXCEPT ![q] = caller[q]]
  BY <1>2
<1> QED BY <1>2, <1>3, <1>5, <1>6, <1>9, <1>10, Went

LEMMA UpdateRoleType ==
    ASSUME TypeInv, NEW q \in Requests,
           TargetMissing(q) \/ FlushDemotion(q) \/ AnotherAdmin(q) \/ LastAdmin(q)
    PROVE  TypeInv'
<1> USE DEF States
<1>1. TypeOK /\ demoting \subseteq Requests /\ RequestOK(q)
  BY DEF TypeInv, TypeOK
<1>2. CASE TargetMissing(q)
  BY <1>1, <1>2, Answered DEF TargetMissing, Statuses, tables
<1>3. CASE FlushDemotion(q)
  <2>1. pc'[q] = "count" /\ pc[q] = "demote"
    BY <1>1, <1>3, GoEffect DEF FlushDemotion
  <2>2. RequestOK(q)'
    BY <1>1, <1>3, <2>1
       DEF FlushDemotion, session, tables, RequestOK, RoleStates, LinkStates, Targeted
  <2> QED BY <1>1, <1>3, <2>2, Moved DEF FlushDemotion, tables
<1>4. CASE AnotherAdmin(q)
  <2>1. pc'[q] = "commit" /\ pc[q] = "count"
    BY <1>1, <1>4, GoEffect DEF AnotherAdmin
  <2>2. RequestOK(q)'
    BY <1>1, <1>4, <2>1
       DEF AnotherAdmin, session, tables, RequestOK, RoleStates, LinkStates, Targeted
  <2> QED BY <1>1, <1>4, <2>2, Moved DEF AnotherAdmin, tables
<1>5. CASE LastAdmin(q)
  BY <1>1, <1>5, Answered DEF LastAdmin, Statuses, tables
<1> QED BY <1>2, <1>3, <1>4, <1>5

\* The role of the account p becomes the role asked for.
LEMMA CommitRows ==
    ASSUME TypeInv, NEW q \in Requests, CommitRole(q)
    PROVE  RowsOK /\ Reply(q, 200) /\ call[q].role \in Roles
<1>1. TypeOK /\ users \subseteq Account /\ demoting \subseteq Requests
  BY DEF TypeInv, TypeOK
<1>2. call[q] \in Calls /\ call[q].role \in Roles
  BY CallType DEF TypeInv, RequestOK, CommitRole
<1>3. /\ demoting' = demoting \ {q} /\ Reply(q, 200) /\ UNCHANGED <<links, overlapped>>
  BY DEF CommitRole
<1>4. CASE Drop(q) /\ UNCHANGED users
  <2>1. held' \in [Requests -> SUBSET Roles]
    BY <1>1, <1>4, HeldType
  <2> QED BY <1>1, <1>2, <1>3, <1>4, <2>1 DEF RowsOK, Kept, TypeOK
<1>5. CASE /\ users' = Updated(loaded[q].pseudo, call[q].role)
           /\ Hold(q, loaded[q].pseudo, call[q].role)
  <2>1. held' \in [Requests -> SUBSET Roles]
    BY <1>1, <1>2, <1>5, HeldType
  <2>2. users' \subseteq Account /\ Kept
    BY <1>1, <1>2, <1>5, UpdateType DEF Kept
  <2> QED BY <1>1, <1>2, <1>3, <2>1, <2>2 DEF RowsOK, TypeOK
<1>6. \/ Drop(q) /\ UNCHANGED users
      \/ /\ users' = Updated(loaded[q].pseudo, call[q].role)
         /\ Hold(q, loaded[q].pseudo, call[q].role)
  BY Zenon DEF CommitRole, Updated
<1> QED BY <1>4, <1>5, <1>6

LEMMA CommitRoleType ==
    ASSUME TypeInv, NEW q \in Requests, CommitRole(q)
    PROVE  TypeInv'
  BY CommitRows, Replied DEF Statuses

LEMMA LinkType ==
    ASSUME TypeInv, NEW q \in Requests, pc[q] \in {"linkcheck", "insertlink"}
    PROVE  Link(q) \in Pseudos \X Pseudos
<1> DEFINE child == CHOOSE u \in Named(users, call[q].child) : TRUE
<1>1. /\ loaded[q] \in Account /\ Named(users, call[q].child) # {}
      /\ users \subseteq Account
  BY DEF TypeInv, TypeOK, RequestOK, LinkStates
<1>2. child \in Named(users, call[q].child)
  BY <1>1
<1>3. child \in Account
  BY <1>1, <1>2 DEF Named
<1> HIDE DEF child
<1>4. loaded[q].pseudo \in Pseudos /\ child.pseudo \in Pseudos
  BY <1>1, <1>3, AccountType
<1> QED BY <1>4 DEF Link, child

LEMMA AddChildType ==
    ASSUME TypeInv, NEW q \in Requests,
           \/ ParentMissing(q) \/ FetchParent(q) \/ FetchChild(q)
           \/ LinkCheck(q) \/ InsertLink(q)
    PROVE  TypeInv'
<1> USE DEF States, Statuses
<1>1. TypeOK /\ demoting \subseteq Requests /\ RequestOK(q) /\ users \subseteq Account
  BY DEF TypeInv, TypeOK
<1>2. CASE ParentMissing(q)
  BY <1>1, <1>2, Answered DEF ParentMissing, tables
<1>3. CASE FetchParent(q)
  <2>1. PICK u \in Named(users, call[q].name) :
          IF caller[q].pseudo = u.pseudo \/ caller[q].role = "admin"
          THEN /\ loaded' = [loaded EXCEPT ![q] = u]
               /\ Go(q, "child")
               /\ UNCHANGED <<call, caller, held>>
          ELSE Answer(q, 403)
    BY <1>3, Zenon DEF FetchParent
  <2>2. pc[q] = "parent" /\ UNCHANGED <<users, links, demoting, overlapped>>
    BY <1>3 DEF FetchParent, tables
  <2>3. CASE Answer(q, 403)
    BY <1>1, <2>2, <2>3, Answered
  <2>4. CASE /\ loaded' = [loaded EXCEPT ![q] = u]
             /\ Go(q, "child")
             /\ UNCHANGED <<call, caller, held>>
    <3>1. u \in Account /\ caller[q] \in Account
      BY <1>1, <2>2 DEF Named, RequestOK, LinkStates
    <3>2. pc'[q] = "child" /\ loaded'[q] = u /\ caller' = [caller EXCEPT ![q] = caller[q]]
      BY <1>1, <2>4, GoEffect DEF TypeOK
    <3>3. RequestOK(q)'
      BY <1>1, <2>2, <2>4, <3>1, <3>2 DEF RequestOK, RoleStates, LinkStates, Targeted
    <3>4. overlapped' \in BOOLEAN /\ held' \in [Requests -> SUBSET Roles]
      BY <1>1, <2>2, <2>4 DEF TypeOK
    <3> QED BY <1>1, <2>2, <2>4, <3>1, <3>2, <3>3, <3>4, Went
  <2> QED BY <2>1, <2>3, <2>4, Zenon
<1>4. CASE FetchChild(q)
  <2>1. pc[q] = "child" /\ UNCHANGED <<users, links, demoting, overlapped>>
    BY <1>4 DEF FetchChild, tables
  <2>2. CASE Answer(q, 404)
    BY <1>1, <2>1, <2>2, Answered
  <2>3. CASE Named(users, call[q].child) # {} /\ Go(q, "linkcheck") /\ UNCHANGED session
    <3>1. pc'[q] = "linkcheck"
      BY <1>1, <2>3, GoEffect
    <3>2. RequestOK(q)'
      BY <1>1, <2>1, <2>3, <3>1 DEF RequestOK, RoleStates, LinkStates, Targeted, session, Named
    <3> QED BY <1>1, <2>1, <2>3, <3>2, Moved
  <2> QED BY <1>4, <2>2, <2>3, Zenon DEF FetchChild
<1>5. CASE LinkCheck(q)
  <2>1. pc[q] = "linkcheck" /\ UNCHANGED <<users, links, demoting, overlapped>>
    BY <1>5 DEF LinkCheck, tables
  <2>2. CASE Answer(q, 200)
    BY <1>1, <2>1, <2>2, Answered
  <2>3. CASE Go(q, "insertlink") /\ UNCHANGED session
    <3>1. pc'[q] = "insertlink"
      BY <1>1, <2>3, GoEffect
    <3>2. RequestOK(q)'
      BY <1>1, <2>1, <2>3, <3>1 DEF RequestOK, RoleStates, LinkStates, Targeted, session, Named
    <3> QED BY <1>1, <2>1, <2>3, <3>2, Moved
  <2> QED BY <1>5, <2>2, <2>3, Zenon DEF LinkCheck
<1>6. CASE InsertLink(q)
  <2>1. Link(q) \in Pseudos \X Pseudos
    BY <1>6, LinkType DEF InsertLink
  <2>2. PICK status \in {200, 201} : Answer(q, status)
    BY <1>6 DEF InsertLink
  <2>3. held' \in [Requests -> SUBSET Roles]
    BY <1>1, <2>2, HeldType DEF Answer
  <2>4. links' = links \cup {Link(q)} /\ UNCHANGED <<users, demoting, overlapped>>
    BY <1>6 DEF InsertLink
  <2>5. RowsOK
    BY <1>1, <2>1, <2>3, <2>4 DEF RowsOK, Kept, TypeOK
  <2> QED BY <2>2, <2>5, Replied DEF Answer
<1> QED BY <1>2, <1>3, <1>4, <1>5, <1>6

LEMMA StepType ==
    ASSUME TypeInv, NEW q \in Requests, Step(q)
    PROVE  TypeInv'
<1>1. CASE CommitFails(q)
  <2>1. demoting' \subseteq Requests
    BY <1>1 DEF CommitFails, TypeInv, TypeOK
  <2> QED BY <1>1, <2>1, Answered DEF CommitFails, Statuses, tables
<1> QED
  BY <1>1, AuthoriseType, RegisterType, FetchTargetType, UpdateRoleType, CommitRoleType,
     AddChildType, Zenon DEF Step

LEMMA TypeStep == TypeInv /\ [Next]_vars => TypeInv'
<1> SUFFICES ASSUME TypeInv, [Next]_vars PROVE TypeInv'
  OBVIOUS
<1>1. CASE UNCHANGED vars
  BY <1>1 DEF vars, tables, session, TypeInv, TypeOK, RequestOK, Named
<1> QED BY <1>1, ReceiveType, StepType, Zenon DEF Next

\* Rows, requests and answers keep their types.
THEOREM TypeCorrect == Spec => []TypeOK
<1>1. TypeInv => TypeOK
  BY DEF TypeInv
<1> QED BY <1>1, TypeInit, TypeStep, PTL DEF Spec

-----------------------------------------------------------------------------
(* Unique pseudos *)

LEMMA UniqueStep == TypeInv /\ Unique(users) /\ [Next]_vars => Unique(users')
<1> SUFFICES ASSUME TypeInv, Unique(users), [Next]_vars PROVE Unique(users')
  OBVIOUS
<1>1. ASSUME UNCHANGED users PROVE Unique(users')
  BY <1>1
<1>2. ASSUME NEW q \in Requests, Insert(q) PROVE Unique(users')
  <2>1. CASE /\ Named(users, call[q].name) = {}
             /\ users' = users \cup {NewAccount(call[q])}
    <3>1. call[q] \in Calls
      BY <1>2 DEF Insert, TypeInv, RequestOK
    <3>2. NewAccount(call[q]).pseudo = call[q].name
      BY <3>1, NewAccountType
    <3>3. \A u \in users : Lower[u.pseudo] # Lower[call[q].name]
      BY <2>1 DEF Named
    <3> QED BY <2>1, <3>2, <3>3 DEF Unique
  <2> QED BY <1>1, <1>2, <2>1, Zenon DEF Insert
<1>3. ASSUME NEW q \in Requests, CommitRole(q) PROVE Unique(users')
  <2>1. CASE users' = Updated(loaded[q].pseudo, call[q].role)
    <3>1. users \subseteq Account /\ call[q].role \in Roles
      BY <1>3, CommitRows DEF TypeInv, TypeOK
    <3>2. SUFFICES ASSUME NEW v \in users', NEW w \in users', Lower[v.pseudo] = Lower[w.pseudo]
                   PROVE  v = w
      BY DEF Unique
    <3> DEFINE image(u) == IF u.pseudo = loaded[q].pseudo
                           THEN [u EXCEPT !.role = call[q].role] ELSE u
    <3>3. \A x \in users' : \E u \in users : x.pseudo = u.pseudo /\ x = image(u)
      BY <2>1, <3>1, UpdateType
    <3> HIDE DEF image
    <3>4. PICK a \in users : v.pseudo = a.pseudo /\ v = image(a)
      BY <3>3, Zenon
    <3>5. PICK b \in users : w.pseudo = b.pseudo /\ w = image(b)
      BY <3>3, Zenon
    <3>6. a = b
      BY <3>2, <3>4, <3>5 DEF Unique
    <3> QED BY <3>4, <3>5, <3>6
  <2> QED BY <1>1, <1>3, <2>1, Zenon DEF CommitRole, Updated
<1>4. ASSUME NEW q \in Requests,
             \/ Receive(q) \/ Authorise(q) \/ PseudoFree(q) \/ PseudoTaken(q)
             \/ TargetMissing(q) \/ FetchTarget(q) \/ FlushDemotion(q)
             \/ AnotherAdmin(q) \/ LastAdmin(q)
      PROVE  UNCHANGED users
  BY <1>4 DEF Receive, Authorise, PseudoFree, PseudoTaken, TargetMissing, FetchTarget,
              FlushDemotion, AnotherAdmin, LastAdmin, tables
<1>5. ASSUME NEW q \in Requests,
             \/ ParentMissing(q) \/ FetchParent(q) \/ FetchChild(q) \/ LinkCheck(q)
             \/ InsertLink(q) \/ CommitFails(q)
      PROVE  UNCHANGED users
  BY <1>5 DEF ParentMissing, FetchParent, FetchChild, LinkCheck, InsertLink, CommitFails,
              tables
<1>6. ASSUME UNCHANGED vars PROVE UNCHANGED users
  BY <1>6 DEF vars, tables
<1> QED BY <1>1, <1>2, <1>3, <1>4, <1>5, <1>6, Zenon DEF Next, Step

\* Registrations, creations and role changes in any interleaving leave no two
\* accounts whose pseudos differ only in case.
THEOREM PseudosAreUnique == Spec => []UniquePseudos
<1>1. Init => Unique(users)
  BY Constants DEF Init
<1>2. TypeInv /\ UniquePseudos /\ [Next]_vars => UniquePseudos'
  BY UniqueStep DEF UniquePseudos
<1> QED BY <1>1, <1>2, TypeInit, TypeStep, PTL DEF Spec, UniquePseudos

-----------------------------------------------------------------------------
(* An administrator remains *)

\* The only role change under way finds its caller still an administrator,
\* and, past the count, another administrator than the account it demotes.
AdminInv ==
    ~overlapped =>
        /\ Admins(users) # {}
        /\ \A q, d \in Changing : q = d
        /\ \A q \in Changing :
              /\ caller[q] \in users
              /\ pc[q] = "commit" /\ call[q].role # "admin" => OtherAdmins(q) # {}

LEMMA ChangingIs ==
    ASSUME TypeInv
    PROVE  \A q : q \in Changing <=> q \in Requests /\ pc[q] \in RoleStates
  BY DEF TypeInv, RequestOK, Changing, RoleStates

\* Steps of q that change no role, and after which q is no new role change.
LEMMA AdminQuiet ==
    ASSUME TypeInv, TypeInv', AdminInv, NEW q \in Requests, Others(q),
           users \subseteq users', UNCHANGED overlapped,
           pc'[q] \in RoleStates =>
              /\ pc[q] \in RoleStates /\ caller'[q] = caller[q]
              /\ ~overlapped /\ pc'[q] = "commit" /\ call'[q].role # "admin" =>
                    \E u \in users : u.role = "admin" /\ u.pseudo # loaded'[q].pseudo
    PROVE  AdminInv'
<1> SUFFICES ASSUME ~overlapped PROVE AdminInv'
  BY DEF AdminInv
<1>1. /\ Admins(users) # {} /\ \A d, e \in Changing : d = e
      /\ \A d \in Changing :
            /\ caller[d] \in users
            /\ pc[d] = "commit" /\ call[d].role # "admin" => OtherAdmins(d) # {}
  BY DEF AdminInv
<1>2. Changing' \subseteq Changing
  BY ChangingIs DEF Others, Changing, RoleStates
<1>3. Admins(users') # {} /\ \A d, e \in Changing' : d = e
  BY <1>1, <1>2 DEF Admins
<1>4. ASSUME NEW d \in Changing'
      PROVE  /\ caller'[d] \in users'
             /\ pc'[d] = "commit" /\ call'[d].role # "admin" => OtherAdmins(d)' # {}
  <2>1. d \in Requests /\ d \in Changing
    BY <1>2, <1>4 DEF Changing
  <2>2. CASE d = q
    <3>1. pc'[q] \in RoleStates
      BY <1>4, <2>2 DEF Changing, RoleStates
    <3> QED BY <1>1, <2>1, <2>2, <3>1 DEF OtherAdmins, Admins
  <2>3. CASE d # q
    BY <1>1, <2>1, <2>3 DEF Others, OtherAdmins, Admins
  <2> QED BY <2>2, <2>3
<1> QED BY <1>3, <1>4 DEF AdminInv

LEMMA StepOthers ==
    ASSUME TypeInv, NEW q \in Requests, Receive(q) \/ Step(q)
    PROVE  Others(q)
<1>0. TypeOK
  BY DEF TypeInv
<1>r. ASSUME NEW status, Reply(q, status) PROVE Others(q)
  BY <1>0, <1>r DEF TypeOK, Reply, Others
<1>g. ASSUME NEW to, Go(q, to), UNCHANGED <<call, caller, loaded>> PROVE Others(q)
  BY <1>0, <1>g DEF TypeOK, Go, Others
<1>1. CASE Receive(q)
  <2>1. PICK c \in Calls, to \in States :
          call' = [call EXCEPT ![q] = c] /\ pc' = [pc EXCEPT ![q] = to]
    BY <1>1, Zenon DEF Receive, States
  <2>2. UNCHANGED <<caller, loaded>>
    BY <1>1 DEF Receive
  <2> QED BY <1>0, <2>1, <2>2 DEF TypeOK, Others
<1>2. CASE Authorise(q)
  <2>1. PICK u \in users :
          AuthoriseLink(q, u) \/ AuthoriseCreate(q, u) \/ AuthoriseRole(q, u) \/ Forbid(q, u)
    BY <1>2, Zenon DEF Authorise
  <2>2. CASE \E to : Go(q, to) /\ caller' = [caller EXCEPT ![q] = u] /\ UNCHANGED <<call, loaded>>
    BY <1>0, <2>2 DEF TypeOK, Go, Others
  <2>3. CASE Forbid(q, u)
    BY <1>r, <2>3 DEF Forbid, Answer
  <2>4. CASE AuthoriseCreate(q, u)
    BY <1>g, <2>4 DEF AuthoriseCreate, session
  <2> QED BY <2>1, <2>2, <2>3, <2>4, Zenon DEF AuthoriseLink, AuthoriseRole
<1>3. CASE FetchTarget(q)
  <2>1. \E to, l : Go(q, to) /\ loaded' = [loaded EXCEPT ![q] = l] /\ UNCHANGED <<call, caller>>
    BY <1>3, Zenon DEF FetchTarget
  <2> QED BY <1>0, <2>1 DEF TypeOK, Go, Others
<1>4. CASE FetchParent(q)
  <2>1. CASE Answer(q, 403)
    BY <1>r, <2>1 DEF Answer
  <2>2. CASE \E to, l : Go(q, to) /\ loaded' = [loaded EXCEPT ![q] = l] /\ UNCHANGED <<call, caller>>
    BY <1>0, <2>2 DEF TypeOK, Go, Others
  <2> QED BY <1>4, <2>1, <2>2, Zenon DEF FetchParent
<1>5. CASE PseudoFree(q) \/ FlushDemotion(q) \/ AnotherAdmin(q)
  <2>1. (\E to : Go(q, to)) /\ UNCHANGED session
    BY <1>5, Zenon DEF PseudoFree, FlushDemotion, AnotherAdmin
  <2> QED BY <1>g, <2>1 DEF session
<1>6. CASE PseudoTaken(q) \/ Insert(q) \/ TargetMissing(q) \/ LastAdmin(q) \/ CommitRole(q)
           \/ ParentMissing(q) \/ InsertLink(q) \/ CommitFails(q)
  <2>1. \E status : Reply(q, status)
    <3>1. CASE \/ PseudoTaken(q) \/ TargetMissing(q) \/ LastAdmin(q)
               \/ ParentMissing(q) \/ InsertLink(q) \/ CommitFails(q)
      BY <3>1, Answering, Zenon DEF Answer
    <3>2. CASE Insert(q)
      BY <3>2, Zenon DEF Insert, Answer
    <3>3. CASE CommitRole(q)
      BY <3>3, Zenon DEF CommitRole
    <3> QED BY <1>6, <3>1, <3>2, <3>3, Zenon
  <2> QED BY <1>r, <2>1
<1>7. CASE FetchChild(q) \/ LinkCheck(q)
  <2>1. (\E status : Reply(q, status)) \/ (\E to : Go(q, to) /\ UNCHANGED session)
    BY <1>7, Zenon DEF FetchChild, LinkCheck, Answer
  <2> QED BY <1>g, <1>r, <2>1 DEF session
<1> QED BY <1>1, <1>2, <1>3, <1>4, <1>5, <1>6, <1>7, Zenon DEF Step

LEMMA CommitKeepsAdmin ==
    ASSUME TypeInv, AdminInv, NEW q \in Requests, CommitRole(q), ~overlapped
    PROVE  Admins(users') # {}
<1>1. /\ Admins(users) # {} /\ pc[q] = "commit"
      /\ q \in Changing /\ (call[q].role # "admin" => OtherAdmins(q) # {})
  BY ChangingIs DEF AdminInv, CommitRole, RoleStates
<1>2. CASE users' = Updated(loaded[q].pseudo, call[q].role)
  <2>1. \A u \in users : \E v \in users' :
          v.role = IF u.pseudo = loaded[q].pseudo THEN call[q].role ELSE u.role
    BY <1>2, CommitRows, UpdateType DEF TypeInv, TypeOK
  <2>2. CASE call[q].role = "admin"
    BY <1>1, <2>1, <2>2 DEF Admins
  <2>3. CASE call[q].role # "admin"
    BY <1>1, <2>1, <2>3 DEF Admins, OtherAdmins
  <2> QED BY <2>2, <2>3
<1> QED BY <1>1, <1>2, Zenon DEF CommitRole, Updated

LEMMA AdminStep == TypeInv /\ AdminInv /\ [Next]_vars => AdminInv'
<1> SUFFICES ASSUME TypeInv, AdminInv, [Next]_vars PROVE AdminInv'
  OBVIOUS
<1>0. TypeInv' /\ TypeOK
  BY TypeStep DEF TypeInv
<1>s. ASSUME NEW q \in Requests, Others(q), UNCHANGED <<users, overlapped>>,
             pc'[q] \notin RoleStates
      PROVE  AdminInv'
  BY <1>0, <1>s, AdminQuiet
<1>r. ASSUME NEW q \in Requests, NEW status, Reply(q, status) PROVE pc'[q] \notin RoleStates
  BY <1>0, <1>r DEF Reply, TypeOK, RoleStates
<1>g. ASSUME NEW q \in Requests, NEW to, Go(q, to) PROVE pc'[q] = to
  BY <1>0, <1>g DEF Go, TypeOK
<1>1. ASSUME NEW q \in Requests, Receive(q) PROVE AdminInv'
  <2>1. pc'[q] \notin RoleStates
    BY <1>0, <1>1 DEF Receive, TypeOK, RoleStates
  <2> QED BY <1>1, <1>s, <2>1, StepOthers DEF Receive, tables
<1>2. ASSUME NEW q \in Requests, Authorise(q) PROVE AdminInv'
  <2>0. Others(q) /\ UNCHANGED users /\ pc[q] = "authorise"
    BY <1>2, StepOthers DEF Step, Authorise, tables
  <2>1. PICK u \in users : /\ u.pseudo = call[q].by
                           /\ \/ AuthoriseLink(q, u) \/ AuthoriseCreate(q, u)
                              \/ AuthoriseRole(q, u) \/ Forbid(q, u)
    BY <1>2, Zenon DEF Authorise
  <2>2. CASE AuthoriseLink(q, u) \/ AuthoriseCreate(q, u)
    <3>1. pc'[q] \notin RoleStates /\ UNCHANGED overlapped
      BY <1>g, <2>2 DEF AuthoriseLink, AuthoriseCreate, RoleStates
    <3> QED BY <1>s, <2>0, <3>1
  <2>3. CASE Forbid(q, u)
    BY <1>r, <1>s, <2>0, <2>3 DEF Forbid, Answer
  <2>4. CASE AuthoriseRole(q, u)
    <3>1. SUFFICES ASSUME ~overlapped' PROVE AdminInv'
      BY DEF AdminInv
    <3>2. ~overlapped /\ Changing = {} /\ caller'[q] = u /\ pc'[q] = "fetch"
      <4>1. ~overlapped /\ Changing = {}
        BY <2>4, <3>1, Zenon DEF AuthoriseRole
      <4>2. caller'[q] = u /\ pc'[q] = "fetch"
        BY <1>0, <1>g, <2>4 DEF AuthoriseRole, TypeOK
      <4> QED BY <4>1, <4>2
    <3>3. \A d \in Changing' : d = q
      BY <2>0, <3>2 DEF Others, Changing
    <3> QED BY <2>0, <3>2, <3>3 DEF AdminInv, Admins
  <2> QED BY <2>1, <2>2, <2>3, <2>4
<1>3. ASSUME NEW q \in Requests, Insert(q) PROVE AdminInv'
  <2>1. users \subseteq users' /\ pc'[q] \notin RoleStates /\ UNCHANGED overlapped
    BY <1>3, <1>r DEF Insert, Answer
  <2> QED BY <1>0, <1>3, <2>1, StepOthers, AdminQuiet DEF Step
<1>4. ASSUME NEW q \in Requests, FetchTarget(q) PROVE AdminInv'
  <2>1. PICK u \in Named(users, call[q].name) :
          LET self == u.pseudo = caller[q].pseudo IN
          /\ loaded' = [loaded EXCEPT ![q] = IF self THEN caller[q] ELSE u]
          /\ Go(q, IF self /\ call[q].role # "admin" THEN "demote" ELSE "commit")
    BY <1>4, Zenon DEF FetchTarget
  <2>2. /\ UNCHANGED <<users, call, caller, overlapped>> /\ pc[q] = "fetch" /\ q \in Changing
        /\ caller[q].role = "admin"
    BY <1>4, ChangingIs DEF FetchTarget, RoleStates, tables, TypeInv, RequestOK
  <2>3. pc'[q] = "commit" /\ call[q].role # "admin" =>
           u.pseudo # caller[q].pseudo /\ loaded'[q] = u
    BY <1>0, <1>g, <2>1 DEF TypeOK
  <2>4. ~overlapped => caller[q] \in users
    BY <2>2 DEF AdminInv
  <2>5. Others(q)
    BY <1>4, StepOthers DEF Step
  <2>6. ~overlapped /\ pc'[q] = "commit" /\ call'[q].role # "admin" =>
           \E v \in users : v.role = "admin" /\ v.pseudo # loaded'[q].pseudo
    BY <2>2, <2>3, <2>4
  <2> QED BY <1>0, <2>2, <2>5, <2>6, AdminQuiet DEF RoleStates
<1>5. ASSUME NEW q \in Requests, FlushDemotion(q) PROVE AdminInv'
  <2>1. /\ pc[q] = "demote" /\ pc'[q] = "count"
        /\ UNCHANGED <<users, call, caller, overlapped>>
    BY <1>5, <1>g DEF FlushDemotion, tables, session
  <2> QED BY <1>0, <1>5, <2>1, StepOthers, AdminQuiet DEF Step, RoleStates
<1>6. ASSUME NEW q \in Requests, AnotherAdmin(q) PROVE AdminInv'
  <2>1. /\ pc[q] = "count" /\ UNCHANGED <<users, call, caller, loaded, overlapped>>
        /\ \E u \in users : u.role = "admin" /\ u.pseudo # loaded[q].pseudo
    BY <1>6 DEF AnotherAdmin, tables, session, OtherAdmins, Admins
  <2> QED BY <1>0, <1>6, <2>1, StepOthers, AdminQuiet DEF Step, RoleStates
<1>7. ASSUME NEW q \in Requests, CommitRole(q) PROVE AdminInv'
  <2>1. SUFFICES ASSUME ~overlapped PROVE AdminInv'
    BY <1>7 DEF AdminInv, CommitRole
  <2>2. Admins(users') # {}
    BY <1>7, <2>1, CommitKeepsAdmin
  <2>3. q \in Changing /\ \A d \in Changing : d = q
    BY <1>7, <2>1, ChangingIs DEF AdminInv, CommitRole, RoleStates
  <2>4. pc'[q] \notin RoleStates /\ Others(q)
    BY <1>7, <1>r, StepOthers DEF CommitRole, Step
  <2>5. Changing' = {}
    BY <2>3, <2>4 DEF Changing, Others, RoleStates
  <2> QED BY <2>2, <2>5 DEF AdminInv
<1>8. ASSUME NEW q \in Requests,
             \/ PseudoTaken(q) \/ TargetMissing(q) \/ LastAdmin(q)
             \/ ParentMissing(q) \/ InsertLink(q) \/ CommitFails(q)
      PROVE  AdminInv'
  <2>1. (\E status : Reply(q, status)) /\ UNCHANGED <<users, overlapped>>
    BY <1>8, Answering, Zenon DEF Answer
  <2> QED BY <1>8, <1>r, <1>s, <2>1, StepOthers DEF Step
<1>9. ASSUME NEW q \in Requests,
             PseudoFree(q) \/ FetchParent(q) \/ FetchChild(q) \/ LinkCheck(q)
      PROVE  AdminInv'
  <2>1. /\ (\E status : Reply(q, status)) \/ \E to \in LinkStates \cup {"insert"} : Go(q, to)
        /\ UNCHANGED <<users, overlapped>>
    BY <1>9, Zenon DEF PseudoFree, FetchParent, FetchChild, LinkCheck, Answer, tables, LinkStates
  <2>2. pc'[q] \notin RoleStates
    BY <1>g, <1>r, <2>1 DEF LinkStates, RoleStates
  <2> QED BY <1>9, <1>s, <2>1, <2>2, StepOthers DEF Step
<1>10. ASSUME UNCHANGED vars PROVE AdminInv'
  BY <1>10 DEF vars, tables, session, AdminInv, Admins, Changing, OtherAdmins
<1> QED
  BY <1>1, <1>2, <1>3, <1>4, <1>5, <1>6, <1>7, <1>8, <1>9, <1>10, Zenon DEF Next, Step

\* As long as no two role changes overlap, no demotion leaves the school
\* without an administrator.
THEOREM AnAdminRemains == Spec => []AdminRemains
<1>1. Init => AdminInv
  BY Constants DEF Init, AdminInv, Admins, Changing, NoCall
<1>2. AdminInv => AdminRemains
  BY DEF AdminInv, AdminRemains
<1> QED BY <1>1, <1>2, TypeInit, TypeStep, AdminStep, PTL DEF Spec

-----------------------------------------------------------------------------
(* True answers *)

\* While a role change is under way, held has the roles of its target, that
\* of the object its session loaded, and that of its caller, should the
\* caller turn out to be the target.
HeldOK(q) ==
    pc[q] \in RoleStates =>
        /\ \A u \in Named(users, call[q].name) : u.role \in held[q]
        /\ Lower[caller[q].pseudo] = Lower[call[q].name] => caller[q].role \in held[q]
        /\ pc[q] \in Targeted => loaded[q].role \in held[q]

HeldInv == \A q \in Requests : HeldOK(q)

\* A row that is new or has another role than before is taken note of.
LEMMA HeldBystander ==
    ASSUME TypeInv, HeldInv, NEW q \in Requests, Others(q), NEW d \in Requests, d # q,
           NEW p, NEW role \in Roles,
           UNCHANGED held \/ Drop(q) \/ Hold(q, p, role)
           \/ \E roles : held' = [held EXCEPT ![q] = roles],
           \A v \in users' : \/ v \in users
                             \/ /\ Hold(q, p, role)
                                /\ Lower[v.pseudo] = Lower[p] /\ v.role = role
    PROVE  HeldOK(d)'
<1>1. SUFFICES ASSUME pc[d] \in RoleStates PROVE HeldOK(d)'
  BY DEF HeldOK, Others
<1>2. HeldOK(d) /\ d \in Changing /\ held \in [Requests -> SUBSET Roles]
  BY <1>1, ChangingIs DEF HeldInv, TypeInv, TypeOK
<1>3. held[d] \subseteq held'[d]
  BY <1>2 DEF Drop, Hold
<1>4. ASSUME NEW v \in Named(users', call[d].name) PROVE v.role \in held'[d]
  <2>1. CASE v \in users
    BY <1>1, <1>2, <1>3, <1>4, <2>1 DEF HeldOK, Named
  <2>2. CASE Hold(q, p, role) /\ Lower[v.pseudo] = Lower[p] /\ v.role = role
    <3>1. Lower[call[d].name] = Lower[p]
      BY <1>4, <2>2 DEF Named
    <3>2. held'[d] = held[d] \cup {role}
      BY <1>2, <2>2, <3>1 DEF Hold
    <3> QED BY <2>2, <3>2
  <2> QED BY <1>4, <2>1, <2>2 DEF Named
<1> QED BY <1>1, <1>2, <1>3, <1>4 DEF HeldOK, Others

\* Steps of q that write no account.
LEMMA HeldQuiet ==
    ASSUME TypeInv, HeldInv, NEW q \in Requests, Others(q), UNCHANGED users,
           UNCHANGED held \/ Drop(q) \/ \E roles : held' = [held EXCEPT ![q] = roles],
           HeldOK(q)'
    PROVE  HeldInv'
<1>1. "eleve" \in Roles
  BY DEF Roles
<1>2. \A v \in users' : v \in users
  OBVIOUS
<1>3. ASSUME NEW d \in Requests, d # q PROVE HeldOK(d)'
  BY <1>1, <1>2, <1>3, HeldBystander
<1> QED BY <1>3 DEF HeldInv

LEMMA HeldStep == TypeInv /\ HeldInv /\ [Next]_vars => HeldInv'
<1> SUFFICES ASSUME TypeInv, HeldInv, [Next]_vars PROVE HeldInv'
  OBVIOUS
<1>0. TypeInv' /\ TypeOK
  BY TypeStep DEF TypeInv
<1>i. ASSUME NEW q \in Requests, pc'[q] \notin RoleStates PROVE HeldOK(q)'
  BY <1>i DEF HeldOK
<1>r. ASSUME NEW q \in Requests, NEW status, Reply(q, status) PROVE HeldOK(q)'
  BY <1>0, <1>i, <1>r DEF Reply, TypeOK, RoleStates
<1>g. ASSUME NEW q \in Requests, NEW to, Go(q, to) PROVE pc'[q] = to
  BY <1>0, <1>g DEF Go, TypeOK
<1>1. ASSUME NEW q \in Requests, Receive(q) PROVE HeldInv'
  <2>1. pc'[q] \notin RoleStates
    BY <1>0, <1>1 DEF Receive, TypeOK, RoleStates
  <2> QED BY <1>1, <1>i, <2>1, StepOthers, HeldQuiet DEF Receive, tables
<1>2. ASSUME NEW q \in Requests, Authorise(q) PROVE HeldInv'
  <2>0. Others(q) /\ UNCHANGED users
    BY <1>2, StepOthers DEF Step, Authorise, tables
  <2>1. PICK u \in users : /\ u.pseudo = call[q].by
                           /\ \/ AuthoriseLink(q, u) \/ AuthoriseCreate(q, u)
                              \/ AuthoriseRole(q, u) \/ Forbid(q, u)
    BY <1>2, Zenon DEF Authorise
  <2>2. CASE AuthoriseLink(q, u) \/ AuthoriseCreate(q, u)
    <3>1. pc'[q] \notin RoleStates /\ UNCHANGED held
      BY <1>g, <2>2 DEF AuthoriseLink, AuthoriseCreate, RoleStates, session
    <3> QED BY <1>i, <2>0, <3>1, HeldQuiet
  <2>3. CASE Forbid(q, u)
    BY <1>r, <2>0, <2>3, HeldQuiet DEF Forbid, Answer
  <2>4. CASE AuthoriseRole(q, u)
    <3> DEFINE roles == {v.role : v \in Named(users, call[q].name)}
    <3>1. held' = [held EXCEPT ![q] = roles] /\ UNCHANGED call
      BY <2>4 DEF AuthoriseRole
    <3>2. held'[q] = roles /\ caller'[q] = u /\ pc'[q] = "fetch" /\ call'[q] = call[q]
      BY <1>0, <1>g, <2>4, <3>1 DEF AuthoriseRole, TypeOK
    <3>3. \A v \in Named(users, call[q].name) : v.role \in roles
      OBVIOUS
    <3>4. Lower[u.pseudo] = Lower[call[q].name] => u \in Named(users, call[q].name)
      BY DEF Named
    <3> HIDE DEF roles
    <3>5. HeldOK(q)'
      BY <2>0, <3>2, <3>3, <3>4 DEF HeldOK, Targeted
    <3> QED BY <2>0, <3>1, <3>5, HeldQuiet
  <2> QED BY <2>1, <2>2, <2>3, <2>4
<1>3. ASSUME NEW q \in Requests, Insert(q) PROVE HeldInv'
  <2> DEFINE n == NewAccount(call[q])
  <2>0. Others(q) /\ HeldOK(q)' /\ n.role \in Roles
    BY <1>3, <1>r, StepOthers, NewAccountType, AccountType
       DEF Insert, Answer, Step, TypeInv, RequestOK
  <2>1. CASE Answer(q, 409) /\ UNCHANGED users
    BY <2>0, <2>1, HeldQuiet DEF Answer
  <2>2. CASE users' = users \cup {n} /\ Hold(q, n.pseudo, n.role)
    <3>1. \A v \in users' :
             \/ v \in users
             \/ Hold(q, n.pseudo, n.role) /\ Lower[v.pseudo] = Lower[n.pseudo] /\ v.role = n.role
      BY <2>2
    <3> HIDE DEF n
    <3>2. ASSUME NEW d \in Requests, d # q PROVE HeldOK(d)'
      BY <2>0, <2>2, <3>1, <3>2, HeldBystander
    <3> QED BY <2>0, <3>2 DEF HeldInv
  <2> QED BY <1>3, <2>1, <2>2, Zenon DEF Insert
<1>4. ASSUME NEW q \in Requests, FetchTarget(q) PROVE HeldInv'
  <2>1. PICK u \in Named(users, call[q].name) :
          LET self == u.pseudo = caller[q].pseudo IN
          /\ loaded' = [loaded EXCEPT ![q] = IF self THEN caller[q] ELSE u]
          /\ Go(q, IF self /\ call[q].role # "admin" THEN "demote" ELSE "commit")
    BY <1>4, Zenon DEF FetchTarget
  <2>2. UNCHANGED <<users, call, caller, held>> /\ pc[q] \in RoleStates /\ Others(q)
    BY <1>4, StepOthers DEF Step, FetchTarget, RoleStates, tables
  <2>3. /\ \A v \in Named(users, call[q].name) : v.role \in held[q]
        /\ Lower[caller[q].pseudo] = Lower[call[q].name] => caller[q].role \in held[q]
    BY <2>2 DEF HeldInv, HeldOK
  <2>4. loaded'[q] = IF u.pseudo = caller[q].pseudo THEN caller[q] ELSE u
    BY <1>0, <2>1 DEF TypeOK
  <2>5. loaded'[q].role \in held[q]
    BY <2>3, <2>4 DEF Named
  <2>6. HeldOK(q)'
    BY <2>2, <2>3, <2>5 DEF HeldOK, Named
  <2> QED BY <2>2, <2>6, HeldQuiet
<1>5. ASSUME NEW q \in Requests, FlushDemotion(q) \/ AnotherAdmin(q) PROVE HeldInv'
  <2>1. /\ UNCHANGED <<users, call, caller, loaded, held>> /\ Others(q)
        /\ pc[q] \in RoleStates /\ pc[q] \in Targeted
    BY <1>5, StepOthers
       DEF Step, FlushDemotion, AnotherAdmin, RoleStates, Targeted, tables, session
  <2>2. HeldOK(q)'
    BY <2>1 DEF HeldInv, HeldOK, Named
  <2> QED BY <2>1, <2>2, HeldQuiet
<1>6. ASSUME NEW q \in Requests, CommitRole(q) PROVE HeldInv'
  <2> DEFINE p == loaded[q].pseudo
             role == call[q].role
  <2>0. Others(q) /\ HeldOK(q)' /\ role \in Roles /\ users \subseteq Account
    BY <1>6, <1>r, StepOthers, CommitRows DEF Step, TypeInv, TypeOK
  <2>1. CASE Drop(q) /\ UNCHANGED users
    BY <2>0, <2>1, HeldQuiet
  <2>2. CASE users' = Updated(p, role) /\ Hold(q, p, role)
    <3>1. \A v \in Updated(p, role) : \E u \in users :
             /\ v.pseudo = u.pseudo
             /\ v.role = IF u.pseudo = p THEN role ELSE u.role
             /\ v = IF u.pseudo = p THEN [u EXCEPT !.role = role] ELSE u
      BY <2>0, UpdateType
    <3> HIDE DEF p, role
    <3>2. \A v \in users' :
             \/ v \in users
             \/ Hold(q, p, role) /\ Lower[v.pseudo] = Lower[p] /\ v.role = role
      BY <2>2, <3>1, Zenon
    <3>3. ASSUME NEW d \in Requests, d # q PROVE HeldOK(d)'
      BY <2>0, <2>2, <3>2, <3>3, HeldBystander
    <3> QED BY <2>0, <3>3 DEF HeldInv
  <2> QED BY <1>6, <2>1, <2>2, Zenon DEF CommitRole, Updated
<1>7. ASSUME NEW q \in Requests,
             \/ PseudoTaken(q) \/ TargetMissing(q) \/ LastAdmin(q)
             \/ ParentMissing(q) \/ InsertLink(q) \/ CommitFails(q)
      PROVE  HeldInv'
  <2>1. (\E status : Answer(q, status)) /\ UNCHANGED users
    BY <1>7, Answering, Zenon
  <2>2. Drop(q) /\ HeldOK(q)'
    BY <1>r, <2>1 DEF Answer
  <2>3. Others(q)
    BY <1>7, StepOthers DEF Step
  <2> QED BY <2>1, <2>2, <2>3, HeldQuiet
<1>8. ASSUME NEW q \in Requests,
             PseudoFree(q) \/ FetchParent(q) \/ FetchChild(q) \/ LinkCheck(q)
      PROVE  HeldInv'
  <2>1. /\ \/ \E status : Answer(q, status)
           \/ UNCHANGED held /\ \E to \in LinkStates \cup {"insert"} : Go(q, to)
        /\ UNCHANGED users
    BY <1>8, Zenon DEF PseudoFree, FetchParent, FetchChild, LinkCheck, tables, session, LinkStates
  <2>2. HeldOK(q)' /\ (UNCHANGED held \/ Drop(q))
    BY <1>g, <1>i, <1>r, <2>1 DEF Answer, LinkStates, RoleStates
  <2>3. Others(q)
    BY <1>8, StepOthers DEF Step
  <2> QED BY <2>1, <2>2, <2>3, HeldQuiet
<1>9. ASSUME UNCHANGED vars PROVE HeldInv'
  BY <1>9 DEF vars, tables, session, HeldInv, HeldOK, Named
<1> QED
  BY <1>1, <1>2, <1>3, <1>4, <1>5, <1>6, <1>7, <1>8, <1>9, Zenon DEF Next, Step

\* What AnswersAreTrue says of one request.
TrueAnswer(q) ==
    LET c == call[q]  status == reply'[q]
        before == Named(users, c.name)  after == Named(users', c.name) IN
    /\ status = 201 => IF c.op = "link" THEN Link(q) \notin links /\ Link(q) \in links'
                       ELSE before = {} /\ after = {NewAccount(c)}
    /\ status = 200 => IF c.op = "link" THEN Link(q) \in links
                       ELSE c.role \in held[q] \cup {u.role : u \in after}
    /\ status = 409 => IF c.op = "role" THEN OtherAdmins(q) = {} ELSE before # {}
    /\ status >= 400 => UNCHANGED tables

\* Answers that promise nothing but that nothing was written.
LEMMA RefusalIsTrue ==
    ASSUME TypeInv, NEW q \in Requests, NEW status \in {403, 404, 500},
           Reply(q, status), UNCHANGED tables
    PROVE  TrueAnswer(q)
<1>1. reply'[q] = status
  BY DEF TypeInv, TypeOK, Reply
<1> QED BY <1>1 DEF TrueAnswer

LEMMA InsertIsTrue ==
    ASSUME TypeInv, NEW q \in Requests, Insert(q)
    PROVE  TrueAnswer(q)
<1> DEFINE n == NewAccount(call[q])
<1>1. call[q] \in Calls /\ call[q].op \in {"register", "create"} /\ UNCHANGED links
  BY DEF Insert, TypeInv, RequestOK
<1>2. CASE Named(users, call[q].name) = {} /\ users' = users \cup {n} /\ Reply(q, 201)
  <2>1. reply'[q] = 201
    BY <1>2 DEF TypeInv, TypeOK, Reply
  <2>2. n.pseudo = call[q].name
    BY <1>1, NewAccountType
  <2> HIDE DEF n
  <2>3. Named(users', call[q].name) = {n}
    BY <1>2, <2>2 DEF Named
  <2> QED BY <1>1, <1>2, <2>1, <2>3 DEF TrueAnswer, n
<1>3. CASE Named(users, call[q].name) # {} /\ Reply(q, 409) /\ UNCHANGED users
  <2>1. reply'[q] = 409
    BY <1>3 DEF TypeInv, TypeOK, Reply
  <2> QED BY <1>1, <1>3, <2>1 DEF TrueAnswer, tables
<1> QED BY <1>2, <1>3, Zenon DEF Insert, Answer

LEMMA CommitIsTrue ==
    ASSUME TypeInv, HeldInv, NEW q \in Requests, CommitRole(q)
    PROVE  TrueAnswer(q)
<1> DEFINE p == loaded[q].pseudo
           role == call[q].role
<1>1. reply'[q] = 200
  BY DEF CommitRole, TypeInv, TypeOK, Reply
<1>2. /\ call[q].op = "role" /\ loaded[q].role \in held[q]
      /\ Lower[p] = Lower[call[q].name] /\ \E u \in users : u.pseudo = p
  BY DEF CommitRole, TypeInv, RequestOK, HeldInv, HeldOK, RoleStates, Targeted
<1>3. role \in held[q] \cup {u.role : u \in Named(users', call[q].name)}
  <2>1. CASE call[q].role = loaded[q].role
    BY <1>2, <2>1
  <2>2. CASE users' = Updated(p, role)
    <3>1. \A u \in users : \E v \in users' :
             v.pseudo = u.pseudo /\ v.role = IF u.pseudo = p THEN role ELSE u.role
      BY <2>2, CommitRows, UpdateType DEF TypeInv, TypeOK
    <3> HIDE DEF p, role
    <3>2. PICK v \in users' : v.pseudo = p /\ v.role = role
      BY <1>2, <3>1
    <3>3. v \in Named(users', call[q].name)
      BY <1>2, <3>2 DEF Named
    <3> QED BY <3>2, <3>3
  <2> QED BY <2>1, <2>2, Zenon DEF CommitRole, RoleDiffers, Updated
<1> QED BY <1>1, <1>2, <1>3 DEF TrueAnswer

LEMMA StepIsTrue ==
    ASSUME TypeInv, HeldInv, NEW q \in Requests, Step(q), pc'[q] = "idle"
    PROVE  TrueAnswer(q)
<1>0. TypeOK
  BY DEF TypeInv
<1>g. ASSUME NEW to \in States \ {"idle"}, Go(q, to) PROVE FALSE
  BY <1>0, <1>g, GoEffect
<1>r. ASSUME NEW status, Reply(q, status) PROVE reply'[q] = status
  BY <1>0, <1>r DEF TypeOK, Reply
<1>1. CASE Authorise(q)
  <2>1. PICK u \in users :
          AuthoriseLink(q, u) \/ AuthoriseCreate(q, u) \/ AuthoriseRole(q, u) \/ Forbid(q, u)
    BY <1>1, Zenon DEF Authorise
  <2>2. ~AuthoriseLink(q, u) /\ ~AuthoriseCreate(q, u) /\ ~AuthoriseRole(q, u)
    BY <1>g DEF AuthoriseLink, AuthoriseCreate, AuthoriseRole, States
  <2>3. Reply(q, 403) /\ UNCHANGED tables
    BY <1>1, <2>1, <2>2 DEF Authorise, Forbid, Answer
  <2> QED BY <2>3, RefusalIsTrue
<1>2. CASE PseudoTaken(q)
  <2>1. reply'[q] = 409 /\ call[q].op # "role" /\ UNCHANGED tables
        /\ Named(users, call[q].name) # {}
    BY <1>2, <1>r DEF PseudoTaken, Answer, TypeInv, RequestOK
  <2> QED BY <2>1 DEF TrueAnswer
<1>3. CASE LastAdmin(q)
  <2>1. reply'[q] = 409 /\ call[q].op = "role" /\ UNCHANGED tables /\ OtherAdmins(q) = {}
    BY <1>3, <1>r DEF LastAdmin, Answer, TypeInv, RequestOK, RoleStates
  <2> QED BY <2>1 DEF TrueAnswer
<1>4. CASE TargetMissing(q) \/ ParentMissing(q) \/ CommitFails(q)
  <2>1. PICK status \in {404, 500} : Reply(q, status) /\ UNCHANGED tables
    BY <1>4 DEF TargetMissing, ParentMissing, CommitFails, Answer
  <2> QED BY <2>1, RefusalIsTrue
<1>5. CASE FetchParent(q) \/ FetchChild(q)
  <2>1. \/ \E status \in {403, 404} : Reply(q, status)
        \/ \E to \in {"child", "linkcheck"} : Go(q, to)
    BY <1>5, Zenon DEF FetchParent, FetchChild, Answer
  <2>2. PICK status \in {403, 404} : Reply(q, status)
    BY <1>g, <2>1 DEF States
  <2>3. UNCHANGED tables
    BY <1>5 DEF FetchParent, FetchChild
  <2> QED BY <2>2, <2>3, RefusalIsTrue
<1>6. CASE LinkCheck(q)
  <2>1. Link(q) \in links /\ Reply(q, 200)
    BY <1>6, <1>g DEF LinkCheck, Answer, States
  <2>2. reply'[q] = 200 /\ call[q].op = "link"
    BY <1>6, <1>r, <2>1 DEF LinkCheck, TypeInv, RequestOK, LinkStates
  <2> QED BY <2>1, <2>2 DEF TrueAnswer
<1>7. CASE InsertLink(q)
  <2>1. /\ reply'[q] = IF Link(q) \in links THEN 200 ELSE 201
        /\ Link(q) \in links' /\ call[q].op = "link"
    BY <1>7, <1>r DEF InsertLink, Answer, TypeInv, RequestOK, LinkStates
  <2> QED BY <2>1 DEF TrueAnswer
<1>8. CASE PseudoFree(q) \/ FlushDemotion(q) \/ AnotherAdmin(q) \/ FetchTarget(q)
  <2>1. \E to \in {"insert", "count", "commit", "demote"} : Go(q, to)
    BY <1>8, Zenon DEF PseudoFree, FlushDemotion, AnotherAdmin, FetchTarget
  <2> QED BY <1>g, <2>1 DEF States
<1> QED
  BY <1>1, <1>2, <1>3, <1>4, <1>5, <1>6, <1>7, <1>8, InsertIsTrue, CommitIsTrue, Zenon DEF Step

\* Whatever the other requests do meanwhile, the status a request gets is
\* true of the tables at its answer.
THEOREM AnswersHold == Spec => AnswersAreTrue
<1>1. ASSUME TypeInv, HeldInv, Next, NEW q \in Requests, pc[q] # "idle", pc'[q] = "idle"
      PROVE  TrueAnswer(q)
  <2>1. PICK d \in Requests : Receive(d) \/ Step(d)
    BY <1>1, Zenon DEF Next
  <2>2. d = q
    BY <1>1, <2>1, StepOthers DEF Others
  <2>3. ~Receive(q)
    BY <1>1 DEF Receive
  <2> QED BY <1>1, <2>1, <2>2, <2>3, StepIsTrue
<1>2. TypeInv /\ HeldInv /\ [Next]_vars =>
      [\A q \in Requests : pc[q] # "idle" /\ pc'[q] = "idle" =>
        LET c == call[q]  status == reply'[q]
            before == Named(users, c.name)  after == Named(users', c.name) IN
        /\ status = 201 => IF c.op = "link" THEN Link(q) \notin links /\ Link(q) \in links'
                           ELSE before = {} /\ after = {NewAccount(c)}
        /\ status = 200 => IF c.op = "link" THEN Link(q) \in links
                           ELSE c.role \in held[q] \cup {u.role : u \in after}
        /\ status = 409 => IF c.op = "role" THEN OtherAdmins(q) = {} ELSE before # {}
        /\ status >= 400 => UNCHANGED tables]_vars
  BY <1>1, Zenon DEF TrueAnswer
<1>3. Init => HeldInv
  BY DEF Init, HeldInv, HeldOK, RoleStates
<1> QED
  BY <1>2, <1>3, TypeInit, TypeStep, HeldStep, PTL DEF Spec, AnswersAreTrue

-----------------------------------------------------------------------------
(* What stands behind EveryRequestAnswered *)

\* How many more steps a request may take until it is answered, at most.
Distance(state) ==
    IF state = "authorise" THEN 5
    ELSE IF state \in {"fetch", "parent"} THEN 4
    ELSE IF state \in {"demote", "child"} THEN 3
    ELSE IF state \in {"count", "precheck", "linkcheck"} THEN 2
    ELSE IF state \in {"commit", "insert", "insertlink"} THEN 1
    ELSE 0

\* Every step begins a request or takes one nearer to its answer, and moves no
\* other: the handlers of register, users and children have no retry.
THEOREM RequestsRunDown ==
    Spec => [][\E q \in Requests :
                  /\ pc[q] = "idle" \/ Distance(pc'[q]) < Distance(pc[q])
                  /\ \A d \in Requests \ {q} : pc'[d] = pc[d]]_vars
<1> DEFINE Nearer == \E q \in Requests :
                        /\ pc[q] = "idle" \/ Distance(pc'[q]) < Distance(pc[q])
                        /\ \A d \in Requests \ {q} : pc'[d] = pc[d]
<1>1. ASSUME TypeInv, Next PROVE Nearer
  <2>1. PICK q \in Requests : Receive(q) \/ Step(q)
    BY <1>1 DEF Next
  <2>2. Others(q)
    BY <1>1, <2>1, StepOthers
  <2>3. TypeOK
    BY <1>1 DEF TypeInv
  <2>4. CASE Receive(q)
    BY <2>2, <2>4 DEF Receive, Others
  <2>g. ASSUME NEW to, Go(q, to) PROVE pc'[q] = to
    BY <2>3, <2>g DEF Go, TypeOK
  <2>r. ASSUME NEW status, Reply(q, status) PROVE pc'[q] = "idle"
    BY <2>3, <2>r DEF Reply, TypeOK
  <2>5. CASE Step(q)
    <3>1. CASE Authorise(q)
      <4>1. pc[q] = "authorise"
        BY <3>1 DEF Authorise
      <4>2. PICK u \in users :
               AuthoriseLink(q, u) \/ AuthoriseCreate(q, u) \/ AuthoriseRole(q, u) \/ Forbid(q, u)
        BY <3>1, Zenon DEF Authorise
      <4>3. Go(q, "parent") \/ Go(q, "precheck") \/ Go(q, "fetch") \/ Reply(q, 403)
        BY <4>2, Zenon DEF AuthoriseLink, AuthoriseCreate, AuthoriseRole, Forbid, Answer
      <4>4. pc'[q] \in {"parent", "precheck", "fetch", "idle"}
        BY <2>g, <2>r, <4>3
      <4> QED BY <2>2, <4>1, <4>4 DEF Distance, Others
    <3>2. CASE PseudoFree(q) \/ PseudoTaken(q)
      <4>1. pc[q] = "precheck" /\ (Go(q, "insert") \/ Reply(q, 409))
        BY <3>2, Zenon DEF PseudoFree, PseudoTaken, Answer
      <4>2. pc'[q] \in {"insert", "idle"}
        BY <2>g, <2>r, <4>1
      <4> QED BY <2>2, <4>1, <4>2 DEF Distance, Others
    <3>3. CASE Insert(q) \/ CommitRole(q) \/ InsertLink(q) \/ CommitFails(q)
      <4>1. pc[q] \in {"insert", "commit", "insertlink"}
        BY <3>3 DEF Insert, CommitRole, InsertLink, CommitFails
      <4>2. \E status : Reply(q, status)
        <5>1. CASE Insert(q)
          BY <5>1, Zenon DEF Insert, Answer
        <5>2. CASE CommitRole(q)
          BY <5>2, Zenon DEF CommitRole
        <5>3. CASE InsertLink(q) \/ CommitFails(q)
          BY <5>3, Zenon DEF InsertLink, CommitFails, Answer
        <5> QED BY <3>3, <5>1, <5>2, <5>3
      <4>3. pc'[q] = "idle"
        BY <2>r, <4>2
      <4> QED BY <2>2, <4>1, <4>3 DEF Distance, Others
    <3>4. CASE TargetMissing(q) \/ ParentMissing(q) \/ LastAdmin(q)
      <4>1. pc[q] \in {"fetch", "parent", "count"}
        BY <3>4 DEF TargetMissing, ParentMissing, LastAdmin
      <4>2. \E status : Reply(q, status)
        BY <3>4, Zenon DEF TargetMissing, ParentMissing, LastAdmin, Answer
      <4>3. pc'[q] = "idle"
        BY <2>r, <4>2
      <4> QED BY <2>2, <4>1, <4>3 DEF Distance, Others
    <3>5. CASE FetchTarget(q)
      <4>1. pc[q] = "fetch" /\ \E to \in {"demote", "commit"} : Go(q, to)
        <5>1. PICK u \in Named(users, call[q].name) :
                 Go(q, IF u.pseudo = caller[q].pseudo /\ call[q].role # "admin"
                       THEN "demote" ELSE "commit")
          BY <3>5, Zenon DEF FetchTarget
        <5>2. CASE u.pseudo = caller[q].pseudo /\ call[q].role # "admin"
          BY <3>5, <5>1, <5>2 DEF FetchTarget
        <5>3. CASE ~(u.pseudo = caller[q].pseudo /\ call[q].role # "admin")
          BY <3>5, <5>1, <5>3 DEF FetchTarget
        <5> QED BY <5>2, <5>3
      <4>2. pc'[q] \in {"demote", "commit"}
        BY <2>g, <4>1
      <4> QED BY <2>2, <4>1, <4>2 DEF Distance, Others
    <3>6. CASE FlushDemotion(q) \/ AnotherAdmin(q)
      <4>1. \/ pc[q] = "demote" /\ Go(q, "count")
            \/ pc[q] = "count" /\ Go(q, "commit")
        BY <3>6, Zenon DEF FlushDemotion, AnotherAdmin
      <4>2. \/ pc[q] = "demote" /\ pc'[q] = "count"
            \/ pc[q] = "count" /\ pc'[q] = "commit"
        BY <2>g, <4>1
      <4> QED BY <2>2, <4>2 DEF Distance, Others
    <3>7. CASE FetchParent(q) \/ FetchChild(q) \/ LinkCheck(q)
      <4>1. \/ pc[q] = "parent" /\ (Go(q, "child") \/ Reply(q, 403))
            \/ pc[q] = "child" /\ (Go(q, "linkcheck") \/ Reply(q, 404))
            \/ pc[q] = "linkcheck" /\ (Go(q, "insertlink") \/ Reply(q, 200))
        BY <3>7, Zenon DEF FetchParent, FetchChild, LinkCheck, Answer
      <4>2. \/ pc[q] = "parent" /\ pc'[q] \in {"child", "idle"}
            \/ pc[q] = "child" /\ pc'[q] \in {"linkcheck", "idle"}
            \/ pc[q] = "linkcheck" /\ pc'[q] \in {"insertlink", "idle"}
        BY <2>g, <2>r, <4>1
      <4> QED BY <2>2, <4>2 DEF Distance, Others
    <3> QED BY <2>5, <3>1, <3>2, <3>3, <3>4, <3>5, <3>6, <3>7, Zenon DEF Step
  <2> QED BY <2>1, <2>4, <2>5
<1>2. Init => TypeInv
  BY TypeInit
<1> QED BY <1>1, <1>2, TypeStep, PTL DEF Spec

\* Who locks a row is between its flush and its commit, and is the only one.
LocksInv ==
    /\ \A d \in demoting : pc[d] \in {"count", "commit"}
    /\ \A d, e \in demoting : loaded[d].pseudo = loaded[e].pseudo => d = e

LEMMA LocksStep == TypeInv /\ LocksInv /\ [Next]_vars => LocksInv'
<1> SUFFICES ASSUME TypeInv, LocksInv, [Next]_vars PROVE LocksInv'
  OBVIOUS
<1>0. TypeOK
  BY DEF TypeInv
<1>1. ASSUME NEW q \in Requests, Receive(q) \/ Step(q) PROVE LocksInv'
  <2>1. Others(q) /\ demoting \subseteq Requests
    BY <1>0, <1>1, StepOthers DEF TypeOK
  <2>2. ASSUME demoting' \subseteq demoting,
               q \in demoting' => pc'[q] \in {"count", "commit"} /\ loaded'[q] = loaded[q]
        PROVE  LocksInv'
    BY <2>1, <2>2 DEF LocksInv, Others
  <2>3. CASE FlushDemotion(q)
    <3>1. /\ demoting' = demoting \cup {q} /\ loaded' = loaded
          /\ Unlocked(q) /\ pc'[q] = "count"
      BY <1>0, <2>3 DEF FlushDemotion, Go, TypeOK, session
    <3> QED BY <2>1, <3>1 DEF LocksInv, Others, Unlocked
  <2>4. CASE AnotherAdmin(q)
    <3>1. demoting' = demoting /\ loaded' = loaded /\ pc'[q] = "commit"
      BY <1>0, <2>4 DEF AnotherAdmin, Go, TypeOK, session
    <3> QED BY <2>2, <3>1
  <2>5. CASE LastAdmin(q) \/ CommitRole(q) \/ CommitFails(q)
    <3>1. demoting' = demoting \ {q}
      BY <2>5 DEF LastAdmin, CommitRole, CommitFails
    <3> QED BY <2>2, <3>1
  <2>6. CASE \/ Receive(q) \/ Authorise(q) \/ PseudoFree(q) \/ PseudoTaken(q) \/ Insert(q)
             \/ TargetMissing(q) \/ FetchTarget(q) \/ ParentMissing(q) \/ FetchParent(q)
             \/ FetchChild(q) \/ LinkCheck(q) \/ InsertLink(q)
    <3>1. demoting' = demoting
      BY <2>6 DEF Receive, Authorise, PseudoFree, PseudoTaken, Insert, TargetMissing,
           FetchTarget, ParentMissing, FetchParent, FetchChild, LinkCheck, InsertLink
    <3>2. pc[q] \notin {"count", "commit"}
      BY <2>6 DEF Receive, Authorise, PseudoFree, PseudoTaken, Insert, TargetMissing,
           FetchTarget, ParentMissing, FetchParent, FetchChild, LinkCheck, InsertLink
    <3> QED BY <2>2, <3>1, <3>2 DEF LocksInv
  <2> QED BY <1>1, <2>3, <2>4, <2>5, <2>6, Zenon DEF Step
<1>2. CASE UNCHANGED vars
  BY <1>2 DEF vars, session, LocksInv
<1> QED BY <1>1, <1>2 DEF Next

\* A request that a row's lock keeps from going on.
Waits(q) ==
    /\ ~Unlocked(q)
    /\ pc[q] = "demote" \/ (pc[q] = "commit" /\ RoleDiffers(q))

\* A role change that waits for a row waits for the one demotion that locks it,
\* which waits for nobody: no two administrators who change each other's or
\* their own roles block each other, as the count takes no lock (update_role).
THEOREM WaitsAreForOne ==
    Spec => [](\A q \in Requests : Waits(q) =>
                  \E d \in demoting :
                     /\ loaded[d].pseudo = loaded[q].pseudo
                     /\ pc[d] \in {"count", "commit"} /\ ~Waits(d)
                     /\ \A e \in demoting : loaded[e].pseudo = loaded[q].pseudo => e = d)
<1> DEFINE OneHolder ==
              \A q \in Requests : Waits(q) =>
                 \E d \in demoting :
                    /\ loaded[d].pseudo = loaded[q].pseudo
                    /\ pc[d] \in {"count", "commit"} /\ ~Waits(d)
                    /\ \A e \in demoting : loaded[e].pseudo = loaded[q].pseudo => e = d
<1>1. LocksInv => OneHolder
  BY DEF LocksInv, Waits, Unlocked
<1>2. Init => TypeInv /\ LocksInv
  BY TypeInit DEF Init, LocksInv
<1> QED BY <1>1, <1>2, TypeStep, LocksStep, PTL DEF Spec
=============================================================================
