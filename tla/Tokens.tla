------------------------------- MODULE Tokens -------------------------------
(***************************************************************************)
(* The tokens of /api/auth as the server keeps them: login, refresh and    *)
(* logout (api/auth/router.py), decode_token (core/auth/jwt.py),           *)
(* get_current_user (core/auth/middleware.py) and the in-process blacklist *)
(* (core/auth/token_blacklist.py).  The handlers are plain functions that  *)
(* FastAPI runs in its thread pool, so that their steps interleave.        *)
(*                                                                         *)
(* A login or a refresh issues an access and a refresh token together; the *)
(* two are one pair, and a token is its type and the number of its pair.   *)
(* Lifetimes are fixed per type, hence tokens of a type expire in the      *)
(* order of their pairs, and an access token before its refresh token.     *)
(* The signature is abstracted away: only issued tokens exist.             *)
(***************************************************************************)
EXTENDS Naturals, Sequences

CONSTANTS
    Clients,    \* connections: each has at most one request under way
    Users,
    NoUser,
    Asked,      \* bound: the operations a client of TokensSpec asks for
    MaxPairs,   \* bound: pairs the server can issue
    MaxExpired  \* bound: tokens of a type that may expire

ASSUME TokensAssumption ==
    /\ MaxPairs \in Nat /\ MaxExpired \in Nat
    /\ NoUser \notin Users

VARIABLES
    pairs,      \* the pairs issued: their owner and the pair they replaced
    expired,    \* per type, the number of pairs whose token has expired
    revoked,    \* token_blacklist._revoked, the set of jti
    job,        \* per connection, its request and how far it has come
    told,       \* history: tokens whose revocation was answered since boot
    excused     \* history: pairs whose refresh token two requests had passed
                \* the blacklist with, or that a restart pardoned

tokenVars == <<pairs, expired, revoked, job, told, excused>>

Types == {"access", "refresh"}
NoToken == [type |-> "none", pair |-> 0]
Token == [type : Types, pair : 1..MaxPairs]
Issued == [type : Types, pair : DOMAIN pairs]

Ops == {"login", "refresh", "logout", "call"}
Settled == {"none", "answered", "refused", "lost"}
Working == {"sent", "authorised", "decoded", "rotated"}

Job == [op : Ops \cup {"none"}, token : Token \cup {NoToken},
        user : Users \cup {NoUser}, at : Settled \cup Working,
        pair : 0..MaxPairs]

\* What a client still sees of a request that ended.
Ended(at, p) == [op |-> "none", token |-> NoToken, user |-> NoUser,
                 at |-> at, pair |-> p]
NoJob == Ended("none", 0)

\* A request a client may send: any token the server ever issued, or none.
Question ==
    [op : {"login"}, token : {NoToken}, user : Users, at : {"sent"}, pair : {0}]
    \cup [op : Ops \ {"login"}, token : Issued \cup {NoToken},
          user : {NoUser}, at : {"sent"}, pair : {0}]

At(c, op, at) == job[c].op = op /\ job[c].at = at
Move(c, at) == job' = [job EXCEPT ![c].at = at]

End(c, at) == job' = [job EXCEPT ![c] = Ended(at, 0)]

-----------------------------------------------------------------------------
(* decode_token: expiry, type and blacklist *)

\* Mutated check: the blacklist is not looked at.
ValidUnlessExpired(token, type) ==
    /\ token.type = type
    /\ token.pair > expired[type]

Valid(token, type) ==
    /\ token.type = type
    /\ token.pair > expired[type]
    /\ token \notin revoked

(* create_access_token and create_refresh_token *)
Answer(c, owner, from) ==
    /\ Len(pairs) < MaxPairs
    /\ pairs' = Append(pairs, [owner |-> owner, from |-> from])
    /\ job' = [job EXCEPT ![c] = Ended("answered", Len(pairs) + 1)]

-----------------------------------------------------------------------------
(* The handlers *)

LoginSucceeds(c) ==
    /\ At(c, "login", "sent")
    /\ Answer(c, job[c].user, 0)
    /\ UNCHANGED <<expired, revoked, told, excused>>

\* Unknown pseudo or wrong password.
LoginRefused(c) ==
    /\ At(c, "login", "sent")
    /\ End(c, "refused")
    /\ UNCHANGED <<pairs, expired, revoked, told, excused>>

\* get_current_user, before any protected handler.  Accounts are never
\* deleted, so that the subject of a token always exists.
Authorise(c) ==
    /\ job[c].op \in {"call", "logout"} /\ job[c].at = "sent"
    /\ IF ~Valid(job[c].token, "access") THEN End(c, "refused")
       ELSE IF job[c].op = "call" THEN End(c, "answered")
       ELSE Move(c, "authorised")
    /\ UNCHANGED <<pairs, expired, revoked, told, excused>>

\* logout decodes its token again and blacklists it; a token that expired
\* or was revoked since get_current_user is left alone.  204 either way.
Logout(c) ==
    /\ At(c, "logout", "authorised")
    /\ revoked' = IF Valid(job[c].token, "access")
                  THEN revoked \cup {job[c].token} ELSE revoked
    /\ told' = told \cup {job[c].token}
    /\ End(c, "answered")
    /\ UNCHANGED <<pairs, expired, excused>>

\* refresh, steps 1 and 2.
DecodeRefresh(c) ==
    /\ At(c, "refresh", "sent")
    /\ IF Valid(job[c].token, "refresh")
       THEN /\ Move(c, "decoded")
            /\ excused' = IF \E d \in Clients \ {c} :
                                /\ job[d].token = job[c].token
                                /\ job[d].at \in {"decoded", "rotated"}
                          THEN excused \cup {job[c].token.pair} ELSE excused
       ELSE End(c, "refused") /\ UNCHANGED excused
    /\ UNCHANGED <<pairs, expired, revoked, told>>

\* Mutated refresh: the old refresh token stays good.
RotateWithoutRevoking(c) ==
    /\ At(c, "refresh", "decoded")
    /\ Move(c, "rotated")
    /\ UNCHANGED <<pairs, expired, revoked, told, excused>>

\* refresh, step 3: the old jti is blacklisted before the new pair exists.
RotateRefresh(c) ==
    /\ At(c, "refresh", "decoded")
    /\ revoked' = revoked \cup {job[c].token}
    /\ Move(c, "rotated")
    /\ UNCHANGED <<pairs, expired, told, excused>>

IssueRefreshed(c) ==
    /\ At(c, "refresh", "rotated")
    /\ Answer(c, pairs[job[c].token.pair].owner, job[c].token.pair)
    /\ told' = told \cup {job[c].token}
    /\ UNCHANGED <<expired, revoked, excused>>

Serve(c) ==
    \/ LoginSucceeds(c) \/ LoginRefused(c) \/ Authorise(c) \/ Logout(c)
    \/ DecodeRefresh(c) \/ RotateRefresh(c) \/ IssueRefreshed(c)

-----------------------------------------------------------------------------
(* Time, failures and clients *)

\* The request or its answer is lost, or the handler raises (500): whatever
\* the server did before stays done.
Lose(c) ==
    /\ job[c].at \in Working \cup {"answered", "refused"}
    /\ End(c, "lost")
    /\ UNCHANGED <<pairs, expired, revoked, told, excused>>

Expire(type) ==
    /\ expired[type] < MaxExpired
    /\ expired[type] < IF type = "access" THEN Len(pairs) ELSE expired["access"]
    /\ expired' = [expired EXCEPT ![type] = @ + 1]
    /\ UNCHANGED <<pairs, revoked, job, told, excused>>

\* The blacklist lives in the process: a restart empties it and drops the
\* requests under way.
Restart ==
    /\ revoked' = {}
    /\ told' = {}
    /\ excused' = DOMAIN pairs
    /\ job' = [c \in Clients |-> IF job[c].at \in Working
                                 THEN Ended("lost", 0) ELSE job[c]]
    /\ UNCHANGED <<pairs, expired>>

\* A client sends its next request, whatever became of the last one.
Ask(c) ==
    /\ job[c].at \in Settled
    /\ \E question \in Question :
          /\ question.op \in Asked
          /\ question.op # "login" => question.token # NoToken
          /\ job' = [job EXCEPT ![c] = question]
    /\ UNCHANGED <<pairs, expired, revoked, told, excused>>

\* Several connections at once take note of answers or send requests: what
\* one turn of a page's JavaScript may do.
ClientsAct ==
    /\ job' \in [Clients -> Job]
    /\ \A c \in Clients :
          \/ job'[c] = job[c]
          \/ job[c].at \in Settled /\ job'[c] \in Question \cup {NoJob}
    /\ UNCHANGED <<pairs, expired, revoked, told, excused>>

TokensInit ==
    /\ pairs = <<>>
    /\ expired = [type \in Types |-> 0]
    /\ revoked = {}
    /\ job = [c \in Clients |-> NoJob]
    /\ told = {}
    /\ excused = {}

TokensNext ==
    \/ \E c \in Clients : Ask(c) \/ Serve(c) \/ Lose(c)
    \/ \E type \in Types : Expire(type)
    \/ Restart

TokensSpec == TokensInit /\ [][TokensNext]_tokenVars

\* The server under clients that may do several things at once.
ServerSpec == TokensInit /\ [][TokensNext \/ ClientsAct]_tokenVars

-----------------------------------------------------------------------------
(* Properties *)

TokensTypeOK ==
    /\ pairs \in Seq([owner : Users, from : 0..MaxPairs])
    /\ Len(pairs) <= MaxPairs
    /\ expired \in [Types -> 0..MaxPairs]
    /\ revoked \subseteq Token
    /\ job \in [Clients -> Job]
    /\ told \subseteq Token
    /\ excused \subseteq 1..MaxPairs

\* Once a logout or a refresh has answered, the server accepts the token it
\* revoked no more until it restarts, however requests interleave
\* (refresh's and logout's docstrings, api/auth/router.py:262 and 340).
RevokedNeverAccepted ==
    [][\A c \in Clients :
          /\ job[c].at = "sent" /\ job[c].op # "login"
          /\ job'[c].at \in {"authorised", "decoded", "answered"}
          => job[c].token \notin told]_tokenVars

\* A refresh token is traded for two pairs only if two requests had passed
\* the blacklist check before either blacklisted it, or if the server forgot
\* the first trade in a restart (the check and add of refresh, router.py:273
\* and 311).
TradedOnce ==
    \A i, j \in DOMAIN pairs :
        i # j /\ pairs[i].from = pairs[j].from /\ pairs[i].from # 0
        => pairs[i].from \in excused
=============================================================================
