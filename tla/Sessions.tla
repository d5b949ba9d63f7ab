------------------------------ MODULE Sessions ------------------------------
(***************************************************************************)
(* Browser pages over the tokens of Tokens.tla: the axios interceptors of  *)
(* lib/api.ts (bearer on every request; on a 401 one shared refresh, one   *)
(* retry), the authStore with its copy in localStorage, the login form and *)
(* the logout button of the header.                                        *)
(*                                                                         *)
(* A page is a loaded document: it has a store and a refreshPromise of its *)
(* own, and shares localStorage with the other pages of the browser.  Its  *)
(* JavaScript runs in turns, so that everything between two awaits that    *)
(* really wait, the reactions of all the waiters of one promise included,  *)
(* is one action here.  setTokens and clearTokens always handle both       *)
(* tokens, so that a store is the number of a pair, 0 when empty.          *)
(***************************************************************************)
EXTENDS Tokens

CONSTANTS
    Pages,
    PageOf,     \* the page of each request
    NoRequest

\* The clients are the requests of pages, each on a connection of its own.
Requests == Clients

ASSUME SessionsAssumption ==
    /\ PageOf \in [Requests -> Pages]
    /\ NoRequest \notin Requests

VARIABLES
    store,          \* per page, the pair in the authStore
    storage,        \* the pair in localStorage
    persists,       \* FALSE where localStorage throws (private mode)
    phase,          \* per request: idle, sent, waiting for a refresh, gone
    kind,           \* per request: an API call, a login or a logout
    retried,        \* originalRequest._retried
    refreshPromise, \* per page, the request whose refresh is shared
    awaits,         \* the request whose refresh a waiting request awaits
    leaving,        \* window.location.assign was called
    presented,      \* history: pairs a page has presented since it loaded
    signedIn,       \* history: the user whose login the page last completed, or
                    \* whose session it took over from localStorage
    straddled       \* history: a refresh was under way at the last change of
                    \* signedIn

pageVars == <<store, storage, persists, phase, kind, retried, refreshPromise,
              awaits, leaving>>
historyVars == <<presented, signedIn, straddled>>
serverVars == <<pairs, expired, revoked, told, excused>>
vars == <<tokenVars, pageVars, historyVars>>

RequestsOf(t) == {r \in Requests : PageOf[r] = t}
AccessToken(p) == IF p = 0 THEN NoToken ELSE [type |-> "access", pair |-> p]
RefreshToken(p) == [type |-> "refresh", pair |-> p]
Owner(p) == IF p = 0 THEN NoUser ELSE pairs[p].owner

Exchange(op, token, user) ==
    [op |-> op, token |-> token, user |-> user, at |-> "sent", pair |-> 0]

\* Requests of R change phase; those that become idle forget their locals.
Phase(R, to) ==
    /\ phase' = [r \in Requests |-> IF r \in R THEN to ELSE phase[r]]
    /\ awaits' = [r \in Requests |-> IF r \in R THEN NoRequest ELSE awaits[r]]

Forget(R) ==
    /\ Phase(R, "idle")
    /\ kind' = [r \in Requests |-> IF r \in R THEN "call" ELSE kind[r]]
    /\ retried' = [r \in Requests |-> r \notin R /\ retried[r]]

(* localStorage: an error of getItem, setItem or removeItem is swallowed; *)
(* what cannot be read is no pair; writing 0 is clearAuthStorage           *)
readAuthStorage == IF persists THEN storage ELSE 0
writeAuthStorage(p) == storage' = IF persists THEN p ELSE storage

(* authStore.setTokens and clearTokens *)
SetTokens(t, p) == store' = [store EXCEPT ![t] = p] /\ writeAuthStorage(p)
\* Mutated: only localStorage is cleared.
ClearStorage(t) == writeAuthStorage(0) /\ UNCHANGED store
ClearTokens(t) == SetTokens(t, 0)

-----------------------------------------------------------------------------
(* The user and the page *)

Start(r, what, exchange) ==
    /\ phase[r] = "idle" /\ ~leaving[PageOf[r]]
    /\ phase' = [phase EXCEPT ![r] = "sent"]
    /\ kind' = [kind EXCEPT ![r] = what]
    /\ job' = [job EXCEPT ![r] = exchange]
    /\ UNCHANGED <<serverVars, persists, retried, refreshPromise, awaits,
                   leaving, presented>>

\* Any call of a page: the request interceptor adds the bearer of the store.
Call(r) ==
    /\ Start(r, "call", Exchange("call", AccessToken(store[PageOf[r]]), NoUser))
    /\ UNCHANGED <<store, storage, signedIn, straddled>>

\* The login form is shown to a page without tokens; its submit button is
\* disabled while a login is under way.
LoginSubmit(r, u) ==
    LET t == PageOf[r] IN
    /\ store[t] = 0
    /\ \A q \in RequestsOf(t) : phase[q] = "idle" \/ kind[q] # "login"
    /\ Start(r, "login", Exchange("login", NoToken, u))
    /\ ClearTokens(t)
    /\ signedIn' = [signedIn EXCEPT ![t] = NoUser]
    /\ straddled' = [straddled EXCEPT ![t] = refreshPromise[t] # NoRequest]

\* Header.handleLogout clears the store first; the interceptor then finds no
\* bearer for the logout request.
LogoutClick(r) ==
    LET t == PageOf[r] IN
    /\ store[t] # 0
    /\ ClearTokens(t)
    /\ Start(r, "logout", Exchange("logout", AccessToken(store'[t]), NoUser))
    /\ signedIn' = [signedIn EXCEPT ![t] = NoUser]
    /\ straddled' = [straddled EXCEPT ![t] = refreshPromise[t] # NoRequest]

\* A page is (re)loaded, by the user or by a redirect: a new document reads
\* localStorage (authStore.hydrate), and finds no session where it throws.  The
\* server may still be busy with the requests of the old one; nobody reads their
\* answers.
Load(t) ==
    LET mine == RequestsOf(t)
        busy == {r \in mine : job[r].at \in Working}
    IN  /\ leaving' = [leaving EXCEPT ![t] = FALSE]
        /\ store' = [store EXCEPT ![t] = readAuthStorage]
        /\ phase' = [r \in Requests |-> IF r \in busy THEN "gone"
                                        ELSE IF r \in mine THEN "idle" ELSE phase[r]]
        /\ awaits' = [r \in Requests |-> IF r \in mine THEN NoRequest ELSE awaits[r]]
        /\ kind' = [r \in Requests |-> IF r \in mine THEN "call" ELSE kind[r]]
        /\ retried' = [r \in Requests |-> r \notin mine /\ retried[r]]
        /\ job' = [c \in Clients |-> IF c \in mine \ busy THEN NoJob ELSE job[c]]
        /\ refreshPromise' = [refreshPromise EXCEPT ![t] = NoRequest]
        /\ presented' = [presented EXCEPT ![t] = {}]
        /\ signedIn' = [signedIn EXCEPT ![t] = Owner(readAuthStorage)]
        /\ straddled' = [straddled EXCEPT ![t] = FALSE]
        /\ UNCHANGED <<serverVars, persists, storage>>

\* A navigation inside the document mounts AuthGuard, which hydrates again: the
\* page takes over the session that another page has refreshed, begun or ended,
\* and loses its own where localStorage throws.
Mount(t) ==
    /\ store' = [store EXCEPT ![t] = readAuthStorage]
    /\ IF store[t] = readAuthStorage THEN UNCHANGED <<signedIn, straddled>>
       ELSE /\ signedIn' = [signedIn EXCEPT ![t] = Owner(readAuthStorage)]
            /\ straddled' = [straddled EXCEPT ![t] =
                   IF Owner(readAuthStorage) = signedIn[t] THEN @
                   ELSE refreshPromise[t] # NoRequest]
    /\ UNCHANGED <<tokenVars, persists, storage, phase, kind, retried,
                   refreshPromise, awaits, leaving, presented>>

Gone(r) ==
    /\ phase[r] = "gone" /\ job[r].at \in Settled
    /\ phase' = [phase EXCEPT ![r] = "idle"]
    /\ job' = [job EXCEPT ![r] = NoJob]
    /\ UNCHANGED <<serverVars, persists, store, storage, kind, retried,
                   refreshPromise, awaits, leaving, historyVars>>

-----------------------------------------------------------------------------
(* The response interceptor *)

Succeed(r) ==
    LET t == PageOf[r] IN
    /\ phase[r] = "sent" /\ job[r].at = "answered"
    /\ IF kind[r] = "login"
       THEN /\ SetTokens(t, job[r].pair)
            /\ signedIn' = [signedIn EXCEPT ![t] = Owner(job[r].pair)]
            /\ straddled' = [straddled EXCEPT ![t] = refreshPromise[t] # NoRequest]
       ELSE UNCHANGED <<store, storage, signedIn, straddled>>
    /\ Forget({r})
    /\ job' = [job EXCEPT ![r] = NoJob]
    /\ UNCHANGED <<serverVars, persists, refreshPromise, leaving, presented>>

\* Not a 401, a 401 of a bootstrap path, or the second 401: thrown on.
Throw(r) ==
    /\ phase[r] = "sent"
    /\ \/ job[r].at = "lost"
       \/ job[r].at = "refused" /\ (kind[r] = "login" \/ retried[r])
    /\ Forget({r})
    /\ job' = [job EXCEPT ![r] = NoJob]
    /\ UNCHANGED <<serverVars, persists, store, storage, refreshPromise, leaving,
                   historyVars>>

Stale(r) ==
    /\ phase[r] = "sent" /\ job[r].at = "refused"
    /\ kind[r] # "login" /\ ~retried[r]

NoRefreshToken(r) ==
    LET t == PageOf[r] IN
    /\ Stale(r) /\ store[t] = 0
    /\ ClearTokens(t)
    /\ leaving' = [leaving EXCEPT ![t] = TRUE]
    /\ Forget({r})
    /\ job' = [job EXCEPT ![r] = NoJob]
    /\ UNCHANGED <<serverVars, persists, refreshPromise, historyVars>>

\* Mutated interceptor: every request refreshes for itself.
StartOwnRefresh(r) ==
    LET t == PageOf[r] IN
    /\ Stale(r) /\ store[t] # 0
    /\ retried' = [retried EXCEPT ![r] = TRUE]
    /\ phase' = [phase EXCEPT ![r] = "waiting"]
    /\ awaits' = [awaits EXCEPT ![r] = r]
    /\ refreshPromise' = [refreshPromise EXCEPT ![t] = r]
    /\ job' = [job EXCEPT ![r] = Exchange("refresh", RefreshToken(store[t]), NoUser)]
    /\ presented' = [presented EXCEPT ![t] = @ \cup {store[t]}]
    /\ UNCHANGED <<serverVars, persists, store, storage, kind, leaving, signedIn,
                   straddled>>

\* refresh(currentRefreshToken), on a connection of its own; the request's
\* is free, so that the model uses that one.
StartRefresh(r) ==
    LET t == PageOf[r] IN
    /\ Stale(r) /\ store[t] # 0 /\ refreshPromise[t] = NoRequest
    /\ retried' = [retried EXCEPT ![r] = TRUE]
    /\ phase' = [phase EXCEPT ![r] = "waiting"]
    /\ awaits' = [awaits EXCEPT ![r] = r]
    /\ refreshPromise' = [refreshPromise EXCEPT ![t] = r]
    /\ job' = [job EXCEPT ![r] = Exchange("refresh", RefreshToken(store[t]), NoUser)]
    /\ presented' = [presented EXCEPT ![t] = @ \cup {store[t]}]
    /\ UNCHANGED <<serverVars, persists, store, storage, kind, leaving, signedIn,
                   straddled>>

JoinRefresh(r) ==
    LET t == PageOf[r] IN
    /\ Stale(r) /\ store[t] # 0 /\ refreshPromise[t] # NoRequest
    /\ retried' = [retried EXCEPT ![r] = TRUE]
    /\ phase' = [phase EXCEPT ![r] = "waiting"]
    /\ awaits' = [awaits EXCEPT ![r] = refreshPromise[t]]
    /\ job' = [job EXCEPT ![r] = NoJob]
    /\ UNCHANGED <<serverVars, persists, store, storage, kind, refreshPromise,
                   leaving, historyVars>>

\* Mutated: the requests that joined a refresh are not resumed.
StarterOnly(r) == {q \in {r} : awaits[q] = r}

Waiters(r) == {q \in Requests : awaits[q] = r}

\* Mutated interceptor: the refresh is not awaited.
RefreshedAtOnce(r) ==
    LET t == PageOf[r]  p == job[r].pair IN
    /\ phase[r] = "waiting"
    /\ SetTokens(t, p)
    /\ job' = [c \in Clients |-> IF c \in Waiters(r)
                                 THEN Exchange(kind[c], AccessToken(p), NoUser)
                                 ELSE job[c]]
    /\ Phase(Waiters(r), "sent")
    /\ refreshPromise' = [refreshPromise EXCEPT ![t] = NoRequest]
    /\ UNCHANGED <<serverVars, persists, kind, retried, leaving, historyVars>>

\* Every waiter stores the rotated pair, sends its request again with the
\* new bearer and resets refreshPromise in its finally.
Refreshed(r) ==
    LET t == PageOf[r]  p == job[r].pair IN
    /\ phase[r] = "waiting" /\ job[r].at = "answered"
    /\ SetTokens(t, p)
    /\ job' = [c \in Clients |-> IF c \in Waiters(r)
                                 THEN Exchange(kind[c], AccessToken(p), NoUser)
                                 ELSE job[c]]
    /\ Phase(Waiters(r), "sent")
    /\ refreshPromise' = [refreshPromise EXCEPT ![t] = NoRequest]
    /\ UNCHANGED <<serverVars, persists, kind, retried, leaving, historyVars>>

\* Every waiter wipes the store, redirects to /login and throws.
RefreshFailed(r) ==
    LET t == PageOf[r] IN
    /\ phase[r] = "waiting" /\ job[r].at \in {"refused", "lost"}
    /\ ClearTokens(t)
    /\ leaving' = [leaving EXCEPT ![t] = TRUE]
    /\ Forget(Waiters(r))
    /\ job' = [job EXCEPT ![r] = NoJob]
    /\ refreshPromise' = [refreshPromise EXCEPT ![t] = NoRequest]
    /\ UNCHANGED <<serverVars, persists, historyVars>>

React(r) ==
    \/ Succeed(r) \/ Throw(r) \/ NoRefreshToken(r) \/ StartRefresh(r)
    \/ JoinRefresh(r) \/ Refreshed(r) \/ RefreshFailed(r) \/ Gone(r)

-----------------------------------------------------------------------------
(* The server, time and failures *)

Served(c) == Serve(c) /\ UNCHANGED <<pageVars, historyVars>>
Broken(c) == Lose(c) /\ UNCHANGED <<pageVars, historyVars>>
Clock == \E type \in Types : Expire(type) /\ UNCHANGED <<pageVars, historyVars>>
Reboot == Restart /\ UNCHANGED <<pageVars, historyVars>>

Init ==
    /\ TokensInit
    /\ store = [t \in Pages |-> 0]
    /\ storage = 0
    /\ persists \in BOOLEAN
    /\ phase = [r \in Requests |-> "idle"]
    /\ kind = [r \in Requests |-> "call"]
    /\ retried = [r \in Requests |-> FALSE]
    /\ refreshPromise = [t \in Pages |-> NoRequest]
    /\ awaits = [r \in Requests |-> NoRequest]
    /\ leaving = [t \in Pages |-> FALSE]
    /\ presented = [t \in Pages |-> {}]
    /\ signedIn = [t \in Pages |-> NoUser]
    /\ straddled = [t \in Pages |-> FALSE]

Next ==
    \/ \E r \in Requests : Call(r) \/ LogoutClick(r) \/ React(r)
    \/ \E r \in Requests, u \in Users : LoginSubmit(r, u)
    \/ \E t \in Pages : Load(t) \/ Mount(t)
    \/ \E c \in Clients : Served(c) \/ Broken(c)
    \/ Clock
    \/ Reboot

\* An exchange ends with an answer or an error, and a page runs the
\* reactions to it.
Fairness ==
    /\ \A c \in Clients : WF_vars(job[c].at \in Working /\ (Served(c) \/ Broken(c)))
    /\ \A r \in Requests : WF_vars(React(r))

Spec == Init /\ [][Next]_vars /\ Fairness

-----------------------------------------------------------------------------
(* Properties *)

\* A page never presents one refresh token twice, although several of its
\* requests fail together and the server rotates the token at its first use:
\* the purpose of the shared refreshPromise (lib/api.ts, "race condition
\* protection").
PresentedOnce ==
    [][\A r \in Requests :
          phase[r] # "waiting" /\ awaits'[r] = r
          => store[PageOf[r]] \notin presented[PageOf[r]]]_vars

\* The tokens of a page are those of the user who signed in on it last, or whose
\* session it took over from another page, unless a refresh was under way while
\* the user changed: its late answer may bring the former session back
\* (lib/api.ts, setTokens after await).
SessionIsTheUsers ==
    \A t \in Pages :
        store[t] # 0 /\ ~straddled[t] => Owner(store[t]) = signedIn[t]

\* Pages are clients as Tokens.tla assumes them: what is proved of the server
\* there holds under the pages.
ServerContract == ServerSpec

\* Every request of a page ends: answered, thrown, or dropped with its page.
RequestsEnd ==
    \A r \in Requests : phase[r] # "idle" ~> phase[r] = "idle"

\* The logout request carries the access token, as handleLogout's comment
\* says ("so the request can carry it", components/Header.tsx:80).
LogoutCarriesBearer ==
    \A r \in Requests :
        kind[r] = "logout" /\ phase[r] = "sent" /\ ~retried[r]
        => job[r].token # NoToken
=============================================================================
