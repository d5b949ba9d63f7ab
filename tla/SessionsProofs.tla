--------------------------- MODULE SessionsProofs ---------------------------
(***************************************************************************)
(* What the pages of Sessions.tla guarantee, for any number of pages,      *)
(* requests and users.                                                     *)
(*                                                                         *)
(* Neither property of the pages is inductive.  That a page's tokens are   *)
(* its user's rests on the refresh under way: the token it trades, and the *)
(* pair it is answered with, are the user's too (RefreshOK).  That no      *)
(* token is presented twice rests on a pair that was answered and not yet  *)
(* taken being nowhere else (FreshOK).  Both rest on refreshPromise and    *)
(* the requests that await it agreeing (WaitsOK, PromiseOK).               *)
(***************************************************************************)
EXTENDS Sessions, TokensProofs

Known == {0} \cup DOMAIN pairs

PageTypesOK ==
    /\ store \in [Pages -> Known]
    /\ persists \in BOOLEAN
    /\ storage \in Known /\ (persists \/ storage = 0)
    /\ phase \in [Requests -> {"idle", "sent", "waiting", "gone"}]
    /\ kind \in [Requests -> {"call", "login", "logout"}]
    /\ retried \in [Requests -> BOOLEAN]
    /\ refreshPromise \in [Pages -> Requests \cup {NoRequest}]
    /\ awaits \in [Requests -> Requests \cup {NoRequest}]
    /\ leaving \in [Pages -> BOOLEAN]
    /\ presented \in [Pages -> SUBSET DOMAIN pairs]
    /\ signedIn \in [Pages -> Users \cup {NoUser}]
    /\ straddled \in [Pages -> BOOLEAN]

\* A request waits for the refresh its page shares, and for no other.
WaitsOK(r) ==
    /\ phase[r] = "idle" => job[r].at = "none"
    /\ awaits[r] = IF phase[r] = "waiting" THEN refreshPromise[PageOf[r]]
                   ELSE NoRequest
    /\ phase[r] = "waiting" => awaits[r] # NoRequest /\ kind[r] # "login"
    /\ phase[r] = "waiting" /\ awaits[r] # r => job[r].at = "none"

PromiseOK(t) ==
    refreshPromise[t] # NoRequest =>
        /\ PageOf[refreshPromise[t]] = t
        /\ phase[refreshPromise[t]] = "waiting"

\* The refresh under way trades a token of the page's user for another.
RefreshOK(r) ==
    phase[r] = "waiting" /\ awaits[r] = r =>
        /\ job[r].at # "none"
        /\ job[r].at \in Working =>
              /\ job[r].op = "refresh"
              /\ job[r].token.pair \in DOMAIN pairs
              /\ straddled[PageOf[r]]
                 \/ Owner(job[r].token.pair) = signedIn[PageOf[r]]
        /\ job[r].at = "answered" =>
              /\ job[r].pair # 0
              /\ straddled[PageOf[r]]
                 \/ Owner(job[r].pair) = signedIn[PageOf[r]]

\* A pair is nowhere but in the answer that brings it.
FreshOK(r) ==
    job[r].at = "answered" /\ job[r].pair # 0 =>
        /\ job[r].pair \in DOMAIN pairs
        /\ \A q \in Requests \ {r} :
              job[q].at = "answered" => job[q].pair # job[r].pair
        /\ \A t \in Pages : /\ store[t] # job[r].pair
                            /\ job[r].pair \notin presented[t]
        /\ storage # job[r].pair

Unpresented(t) ==
    refreshPromise[t] = NoRequest =>
        store[t] \notin presented[t] /\ storage \notin presented[t]

PagesInv ==
    /\ \A r \in Requests : WaitsOK(r)
    /\ \A t \in Pages : PromiseOK(t)
FreshInv ==
    /\ \A r \in Requests : FreshOK(r)
    /\ \A t \in Pages : Unpresented(t)
UserInv ==
    /\ \A r \in Requests : RefreshOK(r)
    /\ SessionIsTheUsers

SessionsInv == PageTypesOK /\ PagesInv /\ FreshInv /\ UserInv

-----------------------------------------------------------------------------
(* What a page reads in localStorage and leaves there *)

\* Where localStorage throws there is nothing in it to be missed.
LEMMA ReadIsStorage ==
    ASSUME PageTypesOK
    PROVE  readAuthStorage = storage
  BY DEF PageTypesOK, readAuthStorage

LEMMA WrittenStorage ==
    ASSUME PageTypesOK, NEW t, NEW p, SetTokens(t, p)
    PROVE  storage' = IF persists THEN p ELSE 0
  BY DEF PageTypesOK, SetTokens, writeAuthStorage

-----------------------------------------------------------------------------
(* A step of a page is a step of its clients *)

LEMMA SessionQuestions ==
    ASSUME StateOK, NEW p \in Known
    PROVE  /\ \A op \in {"call", "logout"} :
                 Exchange(op, AccessToken(p), NoUser) \in Question
           /\ p # 0 => Exchange("refresh", RefreshToken(p), NoUser) \in Question
           /\ \A u \in Users : Exchange("login", NoToken, u) \in Question
<1>1. p # 0 => RefreshToken(p) \in Issued
  BY DEF Known, RefreshToken, Issued, Types
<1>2. AccessToken(p) \in Issued \cup {NoToken}
  BY DEF Known, AccessToken, Issued, Types
<1> QED BY <1>1, <1>2 DEF Exchange, Question, Ops

LEMMA NoJobType ==
    ASSUME TypeInv
    PROVE  NoJob \in Job /\ NoJob.at = "none"
<1>1. 0 \in 0..MaxPairs
  BY TokensAssumption
<1> QED BY <1>1, EndedType DEF NoJob, Settled

LEMMA Acts ==
    ASSUME TypeInv, UNCHANGED serverVars, job' = [c \in Clients |-> job'[c]],
           \A c \in Clients :
              \/ job'[c] = job[c]
              \/ job[c].at \in Settled /\ job'[c] \in Question \cup {NoJob}
    PROVE  /\ ClientsAct
           /\ \A c \in Clients : job'[c] = job[c] \/ job'[c].at \in {"sent", "none"}
<1>1. \A q \in Question : q \in Job /\ q.at = "sent"
  BY QuestionType DEF TypeInv
<1>2. NoJob \in Job /\ NoJob.at = "none"
  BY NoJobType
<1>3. \A c \in Clients : job[c] \in Job
  BY DEF TypeInv, JobsOK
<1>4. \A c \in Clients : job'[c] \in Job
  BY <1>1, <1>2, <1>3
<1> QED BY <1>1, <1>2, <1>4 DEF ClientsAct, serverVars

LEMMA OneActs ==
    ASSUME TypeInv, UNCHANGED serverVars, NEW r \in Clients,
           NEW X \in Question \cup {NoJob},
           job[r].at \in Settled, job' = [job EXCEPT ![r] = X]
    PROVE  /\ ClientsAct /\ X.at \in {"sent", "none"}
           /\ job'[r] = X /\ \A c \in Clients \ {r} : job'[c] = job[c]
<1>1. job \in [Clients -> Job]
  BY DEF TypeInv, JobsOK
<1>2. /\ job'[r] = X /\ \A c \in Clients \ {r} : job'[c] = job[c]
      /\ job' = [c \in Clients |-> job'[c]]
  BY <1>1
<1>3. ClientsAct
  BY <1>2, Acts
<1>4. X.at \in {"sent", "none"}
  BY NoJobType, QuestionType DEF TypeInv
<1> QED BY <1>2, <1>3, <1>4

\* The requests that await a refresh are those of its page that wait.
LEMMA WaitersAre ==
    ASSUME PageTypesOK, PagesInv, NEW r \in Requests,
           phase[r] = "waiting", job[r].at # "none"
    PROVE  /\ awaits[r] = r /\ refreshPromise[PageOf[r]] = r
           /\ Waiters(r) = {q \in RequestsOf(PageOf[r]) : phase[q] = "waiting"}
           /\ r \in Waiters(r)
           /\ \A q \in Waiters(r) :
                 /\ kind[q] \in {"call", "logout"}
                 /\ q # r => job[q].at = "none"
<1>1. awaits[r] = r /\ refreshPromise[PageOf[r]] = r
  BY DEF PagesInv, WaitsOK
<1>2. ASSUME NEW q \in Requests, awaits[q] = r
      PROVE  /\ PageOf[q] = PageOf[r] /\ phase[q] = "waiting"
             /\ kind[q] \in {"call", "logout"}
             /\ q # r => job[q].at = "none"
  <2>1. r # NoRequest /\ PageOf[q] \in Pages
    BY SessionsAssumption
  <2>2. phase[q] = "waiting" /\ refreshPromise[PageOf[q]] = r
    BY <1>2, <2>1 DEF PagesInv, WaitsOK
  <2>3. PageOf[q] = PageOf[r]
    BY <2>1, <2>2 DEF PagesInv, PromiseOK
  <2> QED BY <1>2, <2>2, <2>3 DEF PagesInv, WaitsOK, PageTypesOK
<1>3. ASSUME NEW q \in Requests, PageOf[q] = PageOf[r], phase[q] = "waiting"
      PROVE  awaits[q] = r
  BY <1>1, <1>3 DEF PagesInv, WaitsOK
<1> QED BY <1>1, <1>2, <1>3 DEF Waiters, RequestsOf

PageAction ==
    \/ \E r \in Requests : Call(r) \/ LogoutClick(r) \/ React(r)
    \/ \E r \in Requests, u \in Users : LoginSubmit(r, u)
    \/ \E t \in Pages : Load(t) \/ Mount(t)

\* What one turn of a page does to the connections.
LEMMA PagesAct ==
    ASSUME TypeInv, PageTypesOK, PagesInv, FreshInv, PageAction
    PROVE  ClientsAct
<1>s. \A p \in Known :
         /\ \A op \in {"call", "logout"} :
               Exchange(op, AccessToken(p), NoUser) \in Question
         /\ p # 0 => Exchange("refresh", RefreshToken(p), NoUser) \in Question
         /\ \A u \in Users : Exchange("login", NoToken, u) \in Question
  BY SessionQuestions DEF TypeInv
<1>p. \A r \in Requests : PageOf[r] \in Pages /\ store[PageOf[r]] \in Known
  BY SessionsAssumption DEF PageTypesOK
<1>i. \A r \in Requests : phase[r] = "idle" => job[r].at \in Settled
  BY DEF PagesInv, WaitsOK, Settled
<1>1. ASSUME NEW r \in Requests, Call(r) PROVE ClientsAct
  <2> DEFINE X == Exchange("call", AccessToken(store[PageOf[r]]), NoUser)
  <2>1. X \in Question /\ job[r].at \in Settled
    BY <1>s, <1>p, <1>i, <1>1 DEF Call, Start
  <2>2. job' = [job EXCEPT ![r] = X] /\ UNCHANGED serverVars
    BY <1>1 DEF Call, Start
  <2> QED BY <2>1, <2>2, OneActs DEF Requests
<1>2. ASSUME NEW r \in Requests, NEW u \in Users, LoginSubmit(r, u) PROVE ClientsAct
  <2> DEFINE X == Exchange("login", NoToken, u)
  <2>1. X \in Question /\ job[r].at \in Settled
    BY <1>s, <1>p, <1>i, <1>2 DEF LoginSubmit, Start
  <2>2. job' = [job EXCEPT ![r] = X] /\ UNCHANGED serverVars
    BY <1>2 DEF LoginSubmit, Start
  <2> QED BY <2>1, <2>2, OneActs DEF Requests
<1>3. ASSUME NEW r \in Requests, LogoutClick(r) PROVE ClientsAct
  <2> DEFINE X == Exchange("logout", AccessToken(0), NoUser)
  <2>1. X \in Question /\ job[r].at \in Settled
    BY <1>s, <1>p, <1>i, <1>3 DEF LogoutClick, Start, Known
  <2>2. store'[PageOf[r]] = 0
    BY <1>3, <1>p DEF LogoutClick, ClearTokens, SetTokens, PageTypesOK
  <2>3. job' = [job EXCEPT ![r] = X] /\ UNCHANGED serverVars
    BY <1>3, <2>2 DEF LogoutClick, Start
  <2> QED BY <2>1, <2>3, OneActs DEF Requests
<1>4. ASSUME NEW r \in Requests,
             Succeed(r) \/ Throw(r) \/ NoRefreshToken(r) \/ JoinRefresh(r) \/ Gone(r)
      PROVE  ClientsAct
  <2>1. job' = [job EXCEPT ![r] = NoJob] /\ UNCHANGED serverVars
    BY <1>4 DEF Succeed, Throw, NoRefreshToken, JoinRefresh, Gone
  <2>2. job[r].at \in Settled
    BY <1>4 DEF Succeed, Throw, NoRefreshToken, JoinRefresh, Gone, Stale, Settled
  <2> QED BY <2>1, <2>2, OneActs DEF Requests
<1>5. ASSUME NEW r \in Requests, RefreshFailed(r) PROVE ClientsAct
  <2>1. job' = [job EXCEPT ![r] = NoJob] /\ UNCHANGED serverVars
    BY <1>5 DEF RefreshFailed
  <2>2. job[r].at \in Settled
    BY <1>5 DEF RefreshFailed, Settled
  <2> QED BY <2>1, <2>2, OneActs DEF Requests
<1>6. ASSUME NEW r \in Requests, StartRefresh(r) PROVE ClientsAct
  <2> DEFINE X == Exchange("refresh", RefreshToken(store[PageOf[r]]), NoUser)
  <2>1. X \in Question /\ job[r].at \in Settled
    BY <1>s, <1>p, <1>6 DEF StartRefresh, Stale, Settled
  <2>2. job' = [job EXCEPT ![r] = X] /\ UNCHANGED serverVars
    BY <1>6 DEF StartRefresh
  <2> QED BY <2>1, <2>2, OneActs DEF Requests
<1>7. ASSUME NEW r \in Requests, Refreshed(r) PROVE ClientsAct
  <2> DEFINE p == job[r].pair
             X(c) == Exchange(kind[c], AccessToken(p), NoUser)
  <2>1. p \in Known
    BY <1>7 DEF Refreshed, FreshInv, FreshOK, Known
  <2>2. \A c \in Waiters(r) :
           kind[c] \in {"call", "logout"} /\ job[c].at \in Settled
    BY <1>7, WaitersAre DEF Refreshed, Settled
  <2>3. \A c \in Waiters(r) : X(c) \in Question
    BY <1>s, <2>1, <2>2
  <2>4. /\ UNCHANGED serverVars
        /\ job' = [c \in Clients |-> IF c \in Waiters(r) THEN X(c) ELSE job[c]]
    BY <1>7 DEF Refreshed
  <2> HIDE DEF X
  <2>5. job' = [c \in Clients |-> job'[c]]
    BY <2>4
  <2>6. \A c \in Clients :
           \/ job'[c] = job[c]
           \/ job[c].at \in Settled /\ job'[c] \in Question \cup {NoJob}
    BY <2>2, <2>3, <2>4
  <2> QED BY <2>4, <2>5, <2>6, Acts
<1>8. ASSUME NEW t \in Pages, Load(t) PROVE ClientsAct
  <2>1. UNCHANGED serverVars /\ job' = [c \in Clients |-> job'[c]]
    BY <1>8 DEF Load
  <2>2. ASSUME NEW c \in Clients
        PROVE  job'[c] = job[c] \/ (job[c].at \in Settled /\ job'[c] = NoJob)
    <3>1. job[c].at \in Settled \cup Working
      BY DEF TypeInv, JobsOK, Job
    <3>2. job'[c] = job[c] \/ (job[c].at \notin Working /\ job'[c] = NoJob)
      BY <1>8 DEF Load, RequestsOf, Requests
    <3> QED BY <3>1, <3>2
  <2> QED BY <2>1, <2>2, Acts
<1>9. ASSUME NEW t \in Pages, Mount(t) PROVE ClientsAct
  BY <1>9 DEF Mount, tokenVars, ClientsAct, TypeInv, JobsOK
<1> QED
  BY <1>1, <1>2, <1>3, <1>4, <1>5, <1>6, <1>7, <1>8, <1>9 DEF PageAction, React

-----------------------------------------------------------------------------
(* A step of a page keeps the invariants *)

LEMMA OwnerIs ==
    ASSUME StateOK, NEW p \in Known
    PROVE  Owner(p) \in Users \cup {NoUser}
  BY OwnerType DEF Owner, Known

LEMMA PageTypesStep ==
    ASSUME StateOK, PageTypesOK, FreshInv, PageAction
    PROVE  PageTypesOK'
<1>k. ASSUME UNCHANGED serverVars
      PROVE  Known' = Known /\ 0 \in Known /\ DOMAIN pairs' = DOMAIN pairs
  BY <1>k DEF serverVars, Known
<1>p. \A r \in Requests : PageOf[r] \in Pages
  BY SessionsAssumption
<1>1. ASSUME NEW r \in Requests, Call(r) PROVE PageTypesOK'
  BY <1>1, <1>k, <1>p DEF Call, Start, PageTypesOK
<1>2. ASSUME NEW r \in Requests, NEW u \in Users, LoginSubmit(r, u) PROVE PageTypesOK'
  BY <1>2, <1>k, <1>p DEF LoginSubmit, Start, ClearTokens, SetTokens, writeAuthStorage, PageTypesOK
<1>3. ASSUME NEW r \in Requests, LogoutClick(r) PROVE PageTypesOK'
  BY <1>3, <1>k, <1>p DEF LogoutClick, Start, ClearTokens, SetTokens, writeAuthStorage, PageTypesOK
<1>4. ASSUME NEW r \in Requests, Succeed(r) PROVE PageTypesOK'
  <2>1. job[r].pair \in Known
    BY <1>4 DEF Succeed, FreshInv, FreshOK, Known
  <2>2. Owner(job[r].pair) \in Users \cup {NoUser}
    BY <2>1, OwnerIs
  <2>3. UNCHANGED <<serverVars, refreshPromise, leaving, presented>>
    BY <1>4 DEF Succeed
  <2>4. CASE kind[r] = "login"
    BY <1>4, <1>k, <1>p, <2>1, <2>2, <2>3, <2>4 DEF Succeed, SetTokens, writeAuthStorage, Forget, Phase, PageTypesOK
  <2>5. CASE kind[r] # "login"
    BY <1>4, <1>k, <1>p, <2>3, <2>5 DEF Succeed, Forget, Phase, PageTypesOK
  <2> QED BY <2>4, <2>5
<1>5. ASSUME NEW r \in Requests, Throw(r) PROVE PageTypesOK'
  BY <1>5, <1>k, <1>p DEF Throw, Forget, Phase, historyVars, PageTypesOK
<1>6. ASSUME NEW r \in Requests, NoRefreshToken(r) PROVE PageTypesOK'
  BY <1>6, <1>k, <1>p DEF NoRefreshToken, ClearTokens, SetTokens, writeAuthStorage, Forget, Phase, historyVars, PageTypesOK
<1>7. ASSUME NEW r \in Requests, StartRefresh(r) PROVE PageTypesOK'
  <2>1. store[PageOf[r]] \in DOMAIN pairs
    BY <1>7, <1>p DEF StartRefresh, PageTypesOK, Known
  <2> QED BY <1>7, <1>k, <1>p, <2>1 DEF StartRefresh, Stale, PageTypesOK
<1>8. ASSUME NEW r \in Requests, JoinRefresh(r) PROVE PageTypesOK'
  BY <1>8, <1>k, <1>p DEF JoinRefresh, historyVars, PageTypesOK
<1>9. ASSUME NEW r \in Requests, Refreshed(r) PROVE PageTypesOK'
  <2>1. job[r].pair \in Known
    BY <1>9 DEF Refreshed, FreshInv, FreshOK, Known
  <2> QED BY <1>9, <1>k, <1>p, <2>1 DEF Refreshed, SetTokens, writeAuthStorage, Phase, historyVars, PageTypesOK
<1>10. ASSUME NEW r \in Requests, RefreshFailed(r) PROVE PageTypesOK'
  BY <1>10, <1>k, <1>p DEF RefreshFailed, ClearTokens, SetTokens, writeAuthStorage, Forget, Phase, historyVars, PageTypesOK
<1>11. ASSUME NEW r \in Requests, Gone(r) PROVE PageTypesOK'
  BY <1>11, <1>k, <1>p DEF Gone, historyVars, PageTypesOK
<1>12. ASSUME NEW t \in Pages, Load(t) PROVE PageTypesOK'
  <2>1. Owner(storage) \in Users \cup {NoUser}
    BY OwnerIs DEF PageTypesOK
  <2> QED BY <1>12, <1>k, <1>p, <2>1, ReadIsStorage DEF Load, PageTypesOK
<1>13. ASSUME NEW t \in Pages, Mount(t) PROVE PageTypesOK'
  <2>1. Owner(storage) \in Users \cup {NoUser}
    BY OwnerIs DEF PageTypesOK
  <2>2. /\ UNCHANGED <<serverVars, persists, storage, phase, kind, retried, refreshPromise, awaits,
                       leaving, presented>>
        /\ store' = [store EXCEPT ![t] = storage]
    BY <1>13, ReadIsStorage DEF Mount, tokenVars, serverVars
  <2>3. /\ signedIn' \in [Pages -> Users \cup {NoUser}]
        /\ straddled' \in [Pages -> BOOLEAN]
    <3>1. IF store[t] = storage THEN UNCHANGED <<signedIn, straddled>>
          ELSE /\ signedIn' = [signedIn EXCEPT ![t] = Owner(storage)]
               /\ straddled' = [straddled EXCEPT ![t] =
                                   IF Owner(storage) = signedIn[t] THEN @
                                   ELSE refreshPromise[t] # NoRequest]
      BY <1>13, ReadIsStorage DEF Mount
    <3> QED BY <2>1, <3>1 DEF PageTypesOK
  <2> QED BY <1>k, <2>2, <2>3 DEF PageTypesOK
<1> QED
  BY <1>1, <1>2, <1>3, <1>4, <1>5, <1>6, <1>7, <1>8, <1>9, <1>10, <1>11, <1>12, <1>13
     DEF PageAction, React

\* What the connections look like after a turn of a page: the pages' own
\* requests have been sent or forgotten.
LEMMA PagesInvStep ==
    ASSUME TypeInv, PageTypesOK, PagesInv, FreshInv, PageAction
    PROVE  PagesInv'
<1>f. job \in [Requests -> Job] /\ NoJob.at = "none"
  BY NoJobType DEF TypeInv, JobsOK, Requests
<1>p. NoRequest \notin Requests /\ \A r \in Requests : PageOf[r] \in Pages
  BY SessionsAssumption
<1>1. ASSUME NEW r \in Requests, Call(r) PROVE PagesInv'
  BY <1>1, <1>f, <1>p DEF Call, Start, PageTypesOK, PagesInv, WaitsOK, PromiseOK
<1>2. ASSUME NEW r \in Requests, NEW u \in Users, LoginSubmit(r, u) PROVE PagesInv'
  BY <1>2, <1>f, <1>p DEF LoginSubmit, Start, PageTypesOK, PagesInv, WaitsOK, PromiseOK
<1>3. ASSUME NEW r \in Requests, LogoutClick(r) PROVE PagesInv'
  BY <1>3, <1>f, <1>p DEF LogoutClick, Start, PageTypesOK, PagesInv, WaitsOK, PromiseOK
<1>4. ASSUME NEW r \in Requests, Succeed(r) \/ Throw(r) \/ NoRefreshToken(r)
      PROVE  PagesInv'
  <2>1. /\ phase[r] = "sent" /\ UNCHANGED refreshPromise
        /\ job' = [job EXCEPT ![r] = NoJob] /\ Forget({r})
    BY <1>4 DEF Succeed, Throw, NoRefreshToken, Stale, historyVars
  <2> QED BY <2>1, <1>f, <1>p DEF Forget, Phase, PageTypesOK, PagesInv, WaitsOK, PromiseOK
<1>5. ASSUME NEW r \in Requests, StartRefresh(r) PROVE PagesInv'
  BY <1>5, <1>f, <1>p DEF StartRefresh, Stale, PageTypesOK, PagesInv, WaitsOK, PromiseOK
<1>6. ASSUME NEW r \in Requests, JoinRefresh(r) PROVE PagesInv'
  BY <1>6, <1>f, <1>p DEF JoinRefresh, Stale, PageTypesOK, PagesInv, WaitsOK, PromiseOK
<1>7. ASSUME NEW r \in Requests, Refreshed(r) PROVE PagesInv'
  <2>1. /\ Waiters(r) = {q \in RequestsOf(PageOf[r]) : phase[q] = "waiting"}
        /\ r \in Waiters(r)
    BY <1>7, WaitersAre DEF Refreshed
  <2>2. /\ refreshPromise' = [refreshPromise EXCEPT ![PageOf[r]] = NoRequest]
        /\ Phase(Waiters(r), "sent") /\ UNCHANGED kind
        /\ \A c \in Clients \ Waiters(r) : job'[c] = job[c]
    BY <1>7 DEF Refreshed
  <2> QED BY <2>1, <2>2, <1>f, <1>p
          DEF Phase, RequestsOf, PageTypesOK, PagesInv, WaitsOK, PromiseOK, Requests
<1>8. ASSUME NEW r \in Requests, RefreshFailed(r) PROVE PagesInv'
  <2>1. /\ Waiters(r) = {q \in RequestsOf(PageOf[r]) : phase[q] = "waiting"}
        /\ r \in Waiters(r)
        /\ \A q \in Waiters(r) : q # r => job[q].at = "none"
    BY <1>8, WaitersAre DEF RefreshFailed
  <2>2. /\ refreshPromise' = [refreshPromise EXCEPT ![PageOf[r]] = NoRequest]
        /\ Forget(Waiters(r)) /\ job' = [job EXCEPT ![r] = NoJob]
    BY <1>8 DEF RefreshFailed
  <2> QED BY <2>1, <2>2, <1>f, <1>p
          DEF Forget, Phase, RequestsOf, PageTypesOK, PagesInv, WaitsOK, PromiseOK
<1>9. ASSUME NEW r \in Requests, Gone(r) PROVE PagesInv'
  BY <1>9, <1>f, <1>p DEF Gone, PageTypesOK, PagesInv, WaitsOK, PromiseOK
<1>10. ASSUME NEW t \in Pages, Load(t) PROVE PagesInv'
  BY <1>10, <1>f, <1>p DEF Load, RequestsOf, PageTypesOK, PagesInv, WaitsOK, PromiseOK, Requests
<1>11. ASSUME NEW t \in Pages, Mount(t) PROVE PagesInv'
  BY <1>11 DEF Mount, tokenVars, PagesInv, WaitsOK, PromiseOK
<1> QED
  BY <1>1, <1>2, <1>3, <1>4, <1>5, <1>6, <1>7, <1>8, <1>9, <1>10, <1>11
     DEF PageAction, React

\* The only pair that comes to the pages is one that leaves an answer.
LEMMA FreshMoves ==
    ASSUME FreshInv, UNCHANGED pairs, NEW p,
           p = 0 \/ \E r \in Requests : /\ job[r].at = "answered" /\ job[r].pair = p
                                       /\ job'[r].at # "answered",
           \A q \in Requests : job'[q] = job[q] \/ job'[q].at # "answered",
           storage' \in {0, p, storage},
           \A t \in Pages : /\ store'[t] \in {0, p, store[t], storage}
                           /\ presented'[t] \subseteq presented[t] \cup {store[t]}
    PROVE  \A q \in Requests : FreshOK(q)'
<1> SUFFICES ASSUME NEW q \in Requests, job'[q].at = "answered", job'[q].pair # 0
             PROVE  FreshOK(q)'
  BY DEF FreshOK
<1>1. job'[q] = job[q] /\ FreshOK(q)
  BY DEF FreshInv
<1>2. p = 0 \/ p # job[q].pair
  BY <1>1 DEF FreshOK
<1> QED BY <1>1, <1>2 DEF FreshOK

LEMMA FreshStep ==
    ASSUME TypeInv, PageTypesOK, PagesInv, FreshInv, PageAction
    PROVE  FreshInv'
<1>p. \A r \in Requests : PageOf[r] \in Pages
  BY SessionsAssumption
<1>n. \A t \in Pages : 0 \notin presented[t]
  BY IssuedTokens, TokensAssumption DEF TypeInv, PageTypesOK
<1>c. \A q \in Requests : job'[q] = job[q] \/ job'[q].at # "answered"
  <2>1. \A q \in Question : q.at = "sent"
    BY QuestionType DEF TypeInv
  <2> QED BY <2>1, PagesAct, NoJobType DEF ClientsAct, Requests
<1>q. ASSUME UNCHANGED <<pairs, presented>>, storage' \in {0, storage},
             \A t \in Pages :
                /\ store'[t] \in {0, store[t], storage}
                /\ refreshPromise'[t] = NoRequest =>
                      refreshPromise[t] = NoRequest \/ (store'[t] = 0 /\ storage' = 0)
      PROVE  FreshInv'
  <2>1. \A q \in Requests : FreshOK(q)'
    BY <1>c, <1>q, FreshMoves
  <2>2. \A t \in Pages : Unpresented(t)'
    BY <1>n, <1>q DEF FreshInv, Unpresented
  <2> QED BY <2>1, <2>2 DEF FreshInv
<1>1. ASSUME NEW r \in Requests, Call(r) \/ Throw(r) \/ JoinRefresh(r) \/ Gone(r)
      PROVE  FreshInv'
  BY <1>1, <1>q DEF Call, Start, Throw, JoinRefresh, Gone, historyVars, serverVars
<1>2. ASSUME NEW r \in Requests, NEW u \in Users, LoginSubmit(r, u) PROVE FreshInv'
  BY <1>2, <1>q, WrittenStorage DEF LoginSubmit, Start, ClearTokens, SetTokens, serverVars, PageTypesOK
<1>3. ASSUME NEW r \in Requests, LogoutClick(r) PROVE FreshInv'
  BY <1>3, <1>q, WrittenStorage DEF LogoutClick, Start, ClearTokens, SetTokens, serverVars, PageTypesOK
<1>4. ASSUME NEW r \in Requests, NoRefreshToken(r) PROVE FreshInv'
  BY <1>4, <1>q, WrittenStorage DEF NoRefreshToken, ClearTokens, SetTokens, serverVars, historyVars, PageTypesOK
<1>5. ASSUME NEW r \in Requests, RefreshFailed(r) PROVE FreshInv'
  BY <1>5, <1>q, <1>p, WrittenStorage
     DEF RefreshFailed, ClearTokens, SetTokens, serverVars, historyVars, PageTypesOK
<1>6. ASSUME NEW r \in Requests, Succeed(r) PROVE FreshInv'
  <2>1. /\ job' = [job EXCEPT ![r] = NoJob] /\ job[r].at = "answered"
        /\ UNCHANGED <<pairs, refreshPromise, presented>>
    BY <1>6 DEF Succeed, serverVars
  <2>2. CASE kind[r] # "login"
    BY <1>6, <1>q, <2>1, <2>2 DEF Succeed
  <2>3. CASE kind[r] = "login"
    <3> DEFINE p == job[r].pair
    <3>1. store' = [store EXCEPT ![PageOf[r]] = p] /\ storage' \in {0, p}
      BY <1>6, <2>3, WrittenStorage DEF Succeed, SetTokens
    <3>2. \A t \in Pages : store'[t] \in {p, store[t]}
      BY <3>1 DEF PageTypesOK
    <3>3. job'[r].at # "answered"
      BY <2>1, NoJobType DEF TypeInv, JobsOK, Requests
    <3>4. \A q \in Requests : FreshOK(q)'
      BY <1>c, <2>1, <3>1, <3>2, <3>3, FreshMoves
    <3>5. \A t \in Pages : p \notin presented[t]
      BY <1>n, <2>1 DEF FreshInv, FreshOK
    <3>6. \A t \in Pages : Unpresented(t)'
      BY <1>n, <2>1, <3>1, <3>2, <3>5 DEF FreshInv, Unpresented
    <3> QED BY <3>4, <3>6 DEF FreshInv
  <2> QED BY <2>2, <2>3
<1>7. ASSUME NEW r \in Requests, Refreshed(r) PROVE FreshInv'
  <2> DEFINE p == job[r].pair
  <2>1. /\ store' = [store EXCEPT ![PageOf[r]] = p] /\ storage' \in {0, p}
        /\ refreshPromise' = [refreshPromise EXCEPT ![PageOf[r]] = NoRequest]
        /\ job[r].at = "answered" /\ UNCHANGED <<pairs, presented>>
    BY <1>7, WrittenStorage DEF Refreshed, SetTokens, serverVars, historyVars
  <2>2. /\ store'[PageOf[r]] = p
        /\ \A t \in Pages \ {PageOf[r]} :
              store'[t] = store[t] /\ refreshPromise'[t] = refreshPromise[t]
    BY <1>p, <2>1 DEF PageTypesOK
  <2>3. job'[r].at # "answered"
    <3>1. r \in Waiters(r)
      BY <1>7, WaitersAre DEF Refreshed
    <3> QED BY <1>7, <3>1 DEF Refreshed, Exchange, Requests
  <2>4. \A q \in Requests : FreshOK(q)'
    BY <1>c, <2>1, <2>2, <2>3, FreshMoves
  <2>5. \A t \in Pages : p \notin presented[t]
    BY <1>n, <1>p, <2>1 DEF FreshInv, FreshOK
  <2>6. \A t \in Pages : Unpresented(t)'
    BY <1>n, <2>1, <2>2, <2>5 DEF FreshInv, Unpresented
  <2> QED BY <2>4, <2>6 DEF FreshInv
<1>8. ASSUME NEW r \in Requests, StartRefresh(r) PROVE FreshInv'
  <2> DEFINE t == PageOf[r]
  <2>1. /\ UNCHANGED <<pairs, store, storage>>
        /\ presented' = [presented EXCEPT ![t] = @ \cup {store[t]}]
        /\ refreshPromise' = [refreshPromise EXCEPT ![t] = r]
    BY <1>8 DEF StartRefresh, serverVars
  <2>2. /\ refreshPromise'[t] = r /\ r # NoRequest
        /\ presented'[t] = presented[t] \cup {store[t]}
        /\ \A u \in Pages \ {t} :
              presented'[u] = presented[u] /\ refreshPromise'[u] = refreshPromise[u]
    BY <1>p, <2>1, SessionsAssumption DEF PageTypesOK
  <2>3. \A u \in Pages : presented'[u] \subseteq presented[u] \cup {store[u]}
    BY <2>2
  <2>4. \A q \in Requests : FreshOK(q)'
    BY <1>c, <2>1, <2>3, FreshMoves
  <2>5. \A u \in Pages : Unpresented(u)'
    BY <2>1, <2>2 DEF FreshInv, Unpresented
  <2> QED BY <2>4, <2>5 DEF FreshInv
<1>9. ASSUME NEW t \in Pages, Load(t) PROVE FreshInv'
  <2>1. /\ UNCHANGED <<pairs, storage>> /\ presented' = [presented EXCEPT ![t] = {}]
        /\ store' = [store EXCEPT ![t] = storage]
        /\ refreshPromise' = [refreshPromise EXCEPT ![t] = NoRequest]
    BY <1>9, ReadIsStorage DEF Load, serverVars
  <2>2. /\ presented'[t] = {} /\ store'[t] = storage
        /\ \A u \in Pages \ {t} : /\ presented'[u] = presented[u]
                                   /\ store'[u] = store[u]
                                   /\ refreshPromise'[u] = refreshPromise[u]
    BY <2>1 DEF PageTypesOK
  <2>3. \A q \in Requests : FreshOK(q)'
    <3>1. \A u \in Pages : /\ store'[u] \in {0, 0, store[u], storage}
                           /\ presented'[u] \subseteq presented[u] \cup {store[u]}
      BY <2>2
    <3> QED BY <1>c, <2>1, <3>1, FreshMoves
  <2>4. \A u \in Pages : Unpresented(u)'
    BY <2>1, <2>2 DEF FreshInv, Unpresented
  <2> QED BY <2>3, <2>4 DEF FreshInv
<1>10. ASSUME NEW t \in Pages, Mount(t) PROVE FreshInv'
  BY <1>10, <1>q, ReadIsStorage DEF Mount, tokenVars, PageTypesOK
<1> QED
  BY <1>1, <1>2, <1>3, <1>4, <1>5, <1>6, <1>7, <1>8, <1>9, <1>10 DEF PageAction, React

\* A page that changes its user while a refresh is under way is marked, and
\* no other step of a page touches what is known of the refresh.
LEMMA UserStep ==
    ASSUME TypeInv, PageTypesOK, PagesInv, FreshInv, UserInv, PageAction
    PROVE  UserInv'
<1>p. NoRequest \notin Requests /\ \A r \in Requests : PageOf[r] \in Pages
  BY SessionsAssumption
<1>f. job \in [Requests -> Job]
  BY DEF TypeInv, JobsOK, Requests
<1>r. ASSUME UNCHANGED pairs,
             \A t \in Pages :
                \/ signedIn'[t] = signedIn[t] /\ straddled'[t] = straddled[t]
                \/ straddled'[t] = (refreshPromise[t] # NoRequest),
             \A q \in Requests : phase'[q] = "waiting" /\ awaits'[q] = q =>
                phase[q] = "waiting" /\ awaits[q] = q /\ job'[q] = job[q]
      PROVE  \A q \in Requests : RefreshOK(q)'
  <2> SUFFICES ASSUME NEW q \in Requests, phase'[q] = "waiting", awaits'[q] = q
               PROVE  RefreshOK(q)'
    BY DEF RefreshOK
  <2>1. phase[q] = "waiting" /\ awaits[q] = q /\ job'[q] = job[q] /\ RefreshOK(q)
    BY <1>r DEF UserInv
  <2>2. refreshPromise[PageOf[q]] # NoRequest
    BY <2>1, <1>p DEF PagesInv, WaitsOK
  <2> QED BY <1>r, <1>p, <2>1, <2>2 DEF RefreshOK, Owner
<1>s. ASSUME UNCHANGED pairs,
             \A t \in Pages :
                \/ store'[t] = 0
                \/ /\ store'[t] = store[t]
                   /\ signedIn'[t] = signedIn[t] /\ straddled'[t] = straddled[t]
                \/ signedIn'[t] = Owner(store'[t])
                \/ straddled'[t]
      PROVE  SessionIsTheUsers'
  BY <1>s DEF UserInv, SessionIsTheUsers, Owner
<1>1. ASSUME NEW r \in Requests, Call(r) \/ Throw(r) \/ Gone(r) PROVE UserInv'
  <2>1. UNCHANGED <<pairs, store, signedIn, straddled>>
    BY <1>1 DEF Call, Start, Throw, Gone, historyVars, serverVars
  <2>2. \A q \in Requests : phase'[q] = "waiting" =>
           phase[q] = "waiting" /\ awaits'[q] = awaits[q] /\ job'[q] = job[q]
    BY <1>1, <1>f DEF Call, Start, Throw, Gone, Forget, Phase, PageTypesOK
  <2> QED BY <1>r, <1>s, <2>1, <2>2 DEF UserInv
<1>2. ASSUME NEW r \in Requests, LogoutClick(r) \/ \E u \in Users : LoginSubmit(r, u)
      PROVE  UserInv'
  <2> DEFINE t == PageOf[r]
  <2>1. /\ store' = [store EXCEPT ![t] = 0] /\ UNCHANGED pairs
        /\ signedIn' = [signedIn EXCEPT ![t] = NoUser]
        /\ straddled' = [straddled EXCEPT ![t] = refreshPromise[t] # NoRequest]
    BY <1>2 DEF LogoutClick, LoginSubmit, Start, ClearTokens, SetTokens, serverVars
  <2>2. \A q \in Requests : phase'[q] = "waiting" =>
           phase[q] = "waiting" /\ awaits'[q] = awaits[q] /\ job'[q] = job[q]
    BY <1>2, <1>f DEF LogoutClick, LoginSubmit, Start, PageTypesOK
  <2>3. /\ store'[t] = 0 /\ straddled'[t] = (refreshPromise[t] # NoRequest)
        /\ \A u \in Pages \ {t} : /\ store'[u] = store[u] /\ signedIn'[u] = signedIn[u]
                                   /\ straddled'[u] = straddled[u]
    BY <1>p, <2>1 DEF PageTypesOK
  <2> QED BY <1>r, <1>s, <2>1, <2>2, <2>3 DEF UserInv
<1>3. ASSUME NEW r \in Requests, Succeed(r) PROVE UserInv'
  <2> DEFINE t == PageOf[r]
  <2>1. UNCHANGED pairs
    BY <1>3 DEF Succeed, serverVars
  <2>2. \A q \in Requests : phase'[q] = "waiting" =>
           phase[q] = "waiting" /\ awaits'[q] = awaits[q] /\ job'[q] = job[q]
    BY <1>3, <1>f DEF Succeed, Forget, Phase, PageTypesOK
  <2>3. CASE kind[r] # "login"
    BY <1>3, <1>r, <1>s, <2>1, <2>2, <2>3 DEF Succeed, UserInv
  <2>4. CASE kind[r] = "login"
    <3>1. /\ store' = [store EXCEPT ![t] = job[r].pair]
          /\ signedIn' = [signedIn EXCEPT ![t] = Owner(job[r].pair)]
          /\ straddled' = [straddled EXCEPT ![t] = refreshPromise[t] # NoRequest]
      BY <1>3, <2>4 DEF Succeed, SetTokens
    <3>2. /\ signedIn'[t] = Owner(store'[t])
          /\ straddled'[t] = (refreshPromise[t] # NoRequest)
          /\ \A u \in Pages \ {t} : /\ store'[u] = store[u] /\ signedIn'[u] = signedIn[u]
                                     /\ straddled'[u] = straddled[u]
      BY <1>p, <3>1 DEF PageTypesOK
    <3> QED BY <1>r, <1>s, <2>1, <2>2, <3>2 DEF UserInv
  <2> QED BY <2>3, <2>4
<1>4. ASSUME NEW r \in Requests, NoRefreshToken(r) PROVE UserInv'
  <2>1. /\ store' = [store EXCEPT ![PageOf[r]] = 0]
        /\ UNCHANGED <<pairs, signedIn, straddled>>
    BY <1>4 DEF NoRefreshToken, ClearTokens, SetTokens, serverVars, historyVars
  <2>2. \A q \in Requests : phase'[q] = "waiting" =>
           phase[q] = "waiting" /\ awaits'[q] = awaits[q] /\ job'[q] = job[q]
    BY <1>4, <1>f DEF NoRefreshToken, Stale, Forget, Phase, PageTypesOK
  <2>3. \A u \in Pages : store'[u] \in {0, store[u]}
    BY <2>1 DEF PageTypesOK
  <2> QED BY <1>r, <1>s, <2>1, <2>2, <2>3 DEF UserInv
<1>5. ASSUME NEW r \in Requests, StartRefresh(r) PROVE UserInv'
  <2> DEFINE t == PageOf[r]
  <2>1. /\ UNCHANGED <<pairs, store, signedIn, straddled>> /\ store[t] # 0
        /\ job' = [job EXCEPT ![r] = Exchange("refresh", RefreshToken(store[t]), NoUser)]
        /\ phase' = [phase EXCEPT ![r] = "waiting"] /\ awaits' = [awaits EXCEPT ![r] = r]
    BY <1>5 DEF StartRefresh, serverVars
  <2>2. /\ job'[r].at = "sent" /\ job'[r].op = "refresh" /\ job'[r].token.pair = store[t]
        /\ \A q \in Requests \ {r} :
              job'[q] = job[q] /\ phase'[q] = phase[q] /\ awaits'[q] = awaits[q]
    BY <1>f, <2>1 DEF Exchange, RefreshToken, PageTypesOK
  <2>3. store[t] \in DOMAIN pairs /\ (straddled[t] \/ Owner(store[t]) = signedIn[t])
    BY <1>p, <2>1 DEF UserInv, SessionIsTheUsers, PageTypesOK, Known
  <2>4. RefreshOK(r)'
    BY <2>1, <2>2, <2>3 DEF RefreshOK, Owner, Working
  <2>5. \A q \in Requests \ {r} : RefreshOK(q)'
    BY <2>1, <2>2 DEF UserInv, RefreshOK, Owner
  <2> QED BY <1>s, <2>1, <2>4, <2>5 DEF UserInv
<1>6. ASSUME NEW r \in Requests, JoinRefresh(r) PROVE UserInv'
  <2>1. UNCHANGED <<pairs, store, signedIn, straddled>>
    BY <1>6 DEF JoinRefresh, historyVars, serverVars
  <2>2. phase[r] = "sent" /\ refreshPromise[PageOf[r]] # r
    BY <1>6, <1>p DEF JoinRefresh, Stale, PagesInv, PromiseOK
  <2>3. \A q \in Requests : phase'[q] = "waiting" /\ awaits'[q] = q =>
           phase[q] = "waiting" /\ awaits[q] = q /\ job'[q] = job[q]
    BY <1>6, <1>f, <2>2 DEF JoinRefresh, PageTypesOK
  <2> QED BY <1>r, <1>s, <2>1, <2>3 DEF UserInv
<1>7. ASSUME NEW r \in Requests, Refreshed(r) PROVE UserInv'
  <2> DEFINE t == PageOf[r]
             p == job[r].pair
  <2>1. /\ phase[r] = "waiting" /\ job[r].at = "answered"
        /\ store' = [store EXCEPT ![t] = p] /\ Phase(Waiters(r), "sent")
        /\ UNCHANGED <<pairs, signedIn, straddled>>
        /\ \A c \in Clients \ Waiters(r) : job'[c] = job[c]
    BY <1>7 DEF Refreshed, SetTokens, serverVars, historyVars
  <2>2. awaits[r] = r
    BY <2>1, WaitersAre
  <2>3. straddled[t] \/ Owner(p) = signedIn[t]
    BY <2>1, <2>2 DEF UserInv, RefreshOK
  <2>4. \A q \in Requests : phase'[q] = "waiting" =>
           phase[q] = "waiting" /\ awaits'[q] = awaits[q] /\ job'[q] = job[q]
    BY <2>1 DEF Phase, Requests
  <2>5. store'[t] = p /\ \A u \in Pages \ {t} : store'[u] = store[u]
    BY <1>p, <2>1 DEF PageTypesOK
  <2> QED BY <1>r, <1>s, <2>1, <2>3, <2>4, <2>5 DEF UserInv
<1>8. ASSUME NEW r \in Requests, RefreshFailed(r) PROVE UserInv'
  <2>1. /\ store' = [store EXCEPT ![PageOf[r]] = 0] /\ Forget(Waiters(r))
        /\ job' = [job EXCEPT ![r] = NoJob] /\ r \in Waiters(r)
        /\ UNCHANGED <<pairs, signedIn, straddled>>
    BY <1>8, WaitersAre DEF RefreshFailed, ClearTokens, SetTokens, serverVars, historyVars
  <2>2. \A q \in Requests : phase'[q] = "waiting" =>
           phase[q] = "waiting" /\ awaits'[q] = awaits[q] /\ job'[q] = job[q]
    BY <1>f, <2>1 DEF Forget, Phase
  <2>3. \A u \in Pages : store'[u] \in {0, store[u]}
    BY <2>1 DEF PageTypesOK
  <2> QED BY <1>r, <1>s, <2>1, <2>2, <2>3 DEF UserInv
<1>9. ASSUME NEW t \in Pages, Load(t) PROVE UserInv'
  <2>1. /\ store' = [store EXCEPT ![t] = storage] /\ UNCHANGED pairs
        /\ signedIn' = [signedIn EXCEPT ![t] = Owner(storage)]
        /\ straddled' = [straddled EXCEPT ![t] = FALSE]
    BY <1>9, ReadIsStorage DEF Load, serverVars
  <2>2. \A q \in Requests : phase'[q] = "waiting" =>
           /\ PageOf[q] # t /\ phase[q] = "waiting"
           /\ awaits'[q] = awaits[q] /\ job'[q] = job[q]
    BY <1>9, <1>f DEF Load, RequestsOf, Requests
  <2>3. /\ store'[t] = storage /\ signedIn'[t] = Owner(storage)
        /\ \A u \in Pages \ {t} : /\ store'[u] = store[u] /\ signedIn'[u] = signedIn[u]
                                   /\ straddled'[u] = straddled[u]
    BY <2>1 DEF PageTypesOK
  <2>4. ASSUME NEW q \in Requests PROVE RefreshOK(q)'
    BY <1>p, <2>1, <2>2, <2>3 DEF UserInv, RefreshOK, Owner
  <2>5. SessionIsTheUsers'
    BY <1>s, <2>1, <2>3
  <2> QED BY <2>4, <2>5 DEF UserInv
<1>10. ASSUME NEW t \in Pages, Mount(t) PROVE UserInv'
  <2>1. /\ store' = [store EXCEPT ![t] = storage]
        /\ UNCHANGED <<pairs, job, phase, awaits>>
    BY <1>10, ReadIsStorage DEF Mount, tokenVars
  <2>2. store'[t] = storage /\ \A u \in Pages \ {t} : store'[u] = store[u]
    BY <2>1 DEF PageTypesOK
  <2>3. CASE store[t] = storage
    <3>1. UNCHANGED <<signedIn, straddled>>
      BY <1>10, <2>3, ReadIsStorage DEF Mount
    <3> QED BY <1>r, <1>s, <2>1, <2>2, <2>3, <3>1 DEF UserInv
  <2>4. CASE store[t] # storage
    <3>1. /\ signedIn' = [signedIn EXCEPT ![t] = Owner(storage)]
          /\ straddled' = [straddled EXCEPT ![t] =
                              IF Owner(storage) = signedIn[t] THEN @
                              ELSE refreshPromise[t] # NoRequest]
      BY <1>10, <2>4, ReadIsStorage DEF Mount
    <3>2. /\ signedIn'[t] = Owner(storage)
          /\ straddled'[t] = IF Owner(storage) = signedIn[t] THEN straddled[t]
                             ELSE refreshPromise[t] # NoRequest
          /\ \A u \in Pages \ {t} : signedIn'[u] = signedIn[u] /\ straddled'[u] = straddled[u]
      BY <3>1 DEF PageTypesOK
    <3>3. \A q \in Requests : RefreshOK(q)'
      BY <1>r, <2>1, <3>2
    <3>4. SessionIsTheUsers'
      BY <1>s, <2>1, <2>2, <3>2
    <3> QED BY <3>3, <3>4 DEF UserInv
  <2> QED BY <2>3, <2>4
<1> QED
  BY <1>1, <1>2, <1>3, <1>4, <1>5, <1>6, <1>7, <1>8, <1>9, <1>10 DEF PageAction, React

-----------------------------------------------------------------------------
(* A step of the server keeps the invariants *)

ServerAction ==
    \/ \E c \in Clients : Serve(c) \/ Lose(c)
    \/ \E type \in Types : Expire(type)
    \/ Restart

\* What a step of the server that issues no pair may do to an exchange.
Eased(c) ==
    \/ job'[c] = job[c]
    \/ /\ job[c].at \in Working /\ job'[c].at \in Working
       /\ job'[c].op = job[c].op /\ job'[c].token = job[c].token
    \/ job[c].at # "none" /\ job'[c].at \in {"refused", "lost"}
    \/ /\ job[c].at \in Working /\ job[c].op # "refresh"
       /\ job'[c].at = "answered" /\ job'[c].pair = 0

Eases == UNCHANGED pairs /\ \A c \in Clients : Eased(c)

\* The other step of the server: an exchange is answered with a new pair, and
\* a refresh with one of the same owner.
Issues(c) ==
    \E owner \in Users, from \in {0} \cup DOMAIN pairs :
        /\ Answer(c, owner, from) /\ job[c].at \in Working
        /\ job[c].op = "refresh" =>
              job[c].token.pair # 0 /\ owner = Owner(job[c].token.pair)

LEMMA EndEases ==
    ASSUME TypeInv, NEW c \in Clients, NEW at \in {"refused", "lost"},
           End(c, at), job[c].at # "none", UNCHANGED pairs
    PROVE  Eases
<1>1. Ended(at, 0).at = at
  BY DEF Ended
<1> QED BY <1>1 DEF End, Eases, Eased, TypeInv, JobsOK

LEMMA MoveEases ==
    ASSUME TypeInv, NEW c \in Clients, NEW at \in Working,
           Move(c, at), job[c].at \in Working, UNCHANGED pairs
    PROVE  Eases
<1>1. ASSUME NEW j \in Job
      PROVE  [j EXCEPT !.at = at].op = j.op
  BY DEF Job
<1>2. job[c] \in Job /\ job'[c] = [job[c] EXCEPT !.at = at]
  BY Zenon DEF TypeInv, JobsOK, Move
<1>3. job'[c].op = job[c].op
  BY <1>1, <1>2
<1> QED BY <1>3, MoveType DEF Eases, Eased

LEMMA ServerEffects ==
    ASSUME TypeInv, ServerAction
    PROVE  Eases \/ \E c \in Clients : Issues(c)
<1>j. \A c \in Clients : job[c] \in Job /\ Carries(job[c])
  BY DEF TypeInv, JobsOK
<1>w. "none" \notin Working
  BY DEF Working
<1>1. ASSUME NEW c \in Clients, LoginSucceeds(c) PROVE Issues(c)
  <2>1. job[c].user \in Users /\ job[c].at \in Working /\ job[c].op # "refresh"
    BY <1>1, <1>j DEF LoginSucceeds, At, Carries, Working
  <2>2. Answer(c, job[c].user, 0)
    BY <1>1 DEF LoginSucceeds
  <2> QED BY <2>1, <2>2 DEF Issues
<1>2. ASSUME NEW c \in Clients, LoginRefused(c) PROVE Eases
  BY <1>2, EndEases DEF LoginRefused, At
<1>3. ASSUME NEW c \in Clients, Authorise(c) PROVE Eases
  <2>1. job[c].op \in {"call", "logout"} /\ job[c].at = "sent" /\ UNCHANGED pairs
    BY <1>3 DEF Authorise
  <2>2. CASE End(c, "refused")
    BY <2>1, <2>2, EndEases
  <2>3. CASE End(c, "answered")
    <3>1. Ended("answered", 0).at = "answered" /\ Ended("answered", 0).pair = 0
      BY DEF Ended
    <3> QED BY <1>j, <2>1, <2>3, <3>1 DEF End, Eases, Eased, Working, TypeInv, JobsOK
  <2>4. CASE Move(c, "authorised")
    BY <2>1, <2>4, MoveEases DEF Working
  <2> QED BY <1>3, <2>2, <2>3, <2>4 DEF Authorise
<1>4. ASSUME NEW c \in Clients, Logout(c) PROVE Eases
  <2>1. Ended("answered", 0).at = "answered" /\ Ended("answered", 0).pair = 0
    BY DEF Ended
  <2> QED BY <1>4, <2>1 DEF Logout, At, End, Eases, Eased, Working, TypeInv, JobsOK
<1>5. ASSUME NEW c \in Clients, DecodeRefresh(c) PROVE Eases
  <2>1. job[c].at = "sent" /\ UNCHANGED pairs
    BY <1>5 DEF DecodeRefresh, At
  <2>2. Move(c, "decoded") \/ End(c, "refused")
    BY <1>5 DEF DecodeRefresh
  <2> QED BY <2>1, <2>2, EndEases, MoveEases DEF Working
<1>6. ASSUME NEW c \in Clients, RotateRefresh(c) PROVE Eases
  <2>1. job[c].at = "decoded" /\ UNCHANGED pairs /\ Move(c, "rotated")
    BY <1>6 DEF RotateRefresh, At
  <2> QED BY <2>1, MoveEases DEF Working
<1>7. ASSUME NEW c \in Clients, IssueRefreshed(c) PROVE Issues(c)
  <2> DEFINE p == job[c].token.pair
  <2>1. job[c].at = "rotated" /\ Answer(c, pairs[p].owner, p)
    BY <1>7 DEF IssueRefreshed, At
  <2>2. p \in DOMAIN pairs
    BY <1>j, <2>1 DEF Carries, Trading, Issued
  <2>3. p # 0 /\ pairs[p].owner \in Users
    BY <2>2, IssuedTokens, OwnerType, TokensAssumption DEF TypeInv
  <2> QED BY <2>1, <2>2, <2>3 DEF Issues, Owner, Working
<1>8. ASSUME NEW c \in Clients, Lose(c) PROVE Eases
  BY <1>8, <1>w, EndEases DEF Lose
<1>9. ASSUME NEW type \in Types, Expire(type) PROVE Eases
  BY <1>9 DEF Expire, Eases, Eased
<1>10. ASSUME Restart PROVE Eases
  <2>1. Ended("lost", 0).at = "lost"
    BY DEF Ended
  <2> QED BY <1>10, <1>w, <2>1 DEF Restart, Eases, Eased
<1> QED
  BY <1>1, <1>2, <1>3, <1>4, <1>5, <1>6, <1>7, <1>8, <1>9, <1>10
     DEF ServerAction, Serve

LEMMA EasesKeeps ==
    ASSUME TypeInv, SessionsInv, Eases, UNCHANGED <<pageVars, historyVars>>
    PROVE  SessionsInv'
<1>u. /\ UNCHANGED <<pairs, store, storage, persists, phase, kind, retried, refreshPromise, awaits>>
      /\ UNCHANGED <<leaving, presented, signedIn, straddled>>
      /\ \A r \in Requests : Eased(r)
  BY DEF Eases, pageVars, historyVars, Requests
<1>p. \A r \in Requests : PageOf[r] \in Pages
  BY SessionsAssumption
<1>1. PageTypesOK'
  BY <1>u DEF SessionsInv, PageTypesOK, Known
<1>2. PagesInv'
  BY <1>u DEF SessionsInv, PagesInv, WaitsOK, PromiseOK, Eased, Working
<1>3. FreshInv'
  BY <1>u DEF SessionsInv, FreshInv, FreshOK, Unpresented, Eased, Working
<1>4. UserInv'
  BY <1>u, <1>p DEF SessionsInv, UserInv, RefreshOK, SessionIsTheUsers, Owner, Eased, Working
<1> QED BY <1>1, <1>2, <1>3, <1>4 DEF SessionsInv

LEMMA IssuesKeeps ==
    ASSUME TypeInv, SessionsInv, NEW c \in Clients, Issues(c),
           UNCHANGED <<pageVars, historyVars>>
    PROVE  SessionsInv'
<1> DEFINE n == Len(pairs) + 1
<1>0. PICK owner \in Users, from \in {0} \cup DOMAIN pairs :
         /\ Answer(c, owner, from) /\ job[c].at \in Working
         /\ job[c].op = "refresh" =>
               job[c].token.pair # 0 /\ owner = Owner(job[c].token.pair)
  BY DEF Issues
<1>a. /\ DOMAIN pairs' = DOMAIN pairs \cup {n} /\ n \notin {0} \cup DOMAIN pairs
      /\ \A i \in DOMAIN pairs : pairs'[i] = pairs[i]
      /\ pairs'[n] = [owner |-> owner, from |-> from]
      /\ job' = [job EXCEPT ![c] = Ended("answered", n)]
  BY <1>0, AppendPair DEF TypeInv
<1> HIDE DEF n
<1>j. /\ job'[c].at = "answered" /\ job'[c].pair = n
      /\ \A q \in Requests \ {c} : job'[q] = job[q]
  BY <1>a DEF Ended, TypeInv, JobsOK, Requests
<1>u. /\ UNCHANGED <<store, storage, persists, phase, kind, retried, refreshPromise, awaits>>
      /\ UNCHANGED <<leaving, presented, signedIn, straddled>>
      /\ Known \subseteq Known' /\ n \notin Known
  BY <1>a DEF pageVars, historyVars, Known
<1>o. \A p \in Known : Owner(p)' = Owner(p)
  BY <1>a DEF Known, Owner
<1>p. \A r \in Requests : PageOf[r] \in Pages
  BY SessionsAssumption
<1>1. PageTypesOK'
  BY <1>a, <1>u DEF SessionsInv, PageTypesOK
<1>2. PagesInv'
  BY <1>0, <1>j, <1>u DEF SessionsInv, PagesInv, WaitsOK, PromiseOK, Working, Requests
<1>3. FreshInv'
  BY <1>a, <1>j, <1>u DEF SessionsInv, FreshInv, FreshOK, Unpresented, PageTypesOK, Known
<1>4. RefreshOK(c)'
  <2>1. n # 0 /\ \A p : p = n => Owner(p)' = owner
    BY <1>a DEF Owner
  <2>2. ASSUME phase[c] = "waiting", awaits[c] = c
        PROVE  straddled[PageOf[c]] \/ owner = signedIn[PageOf[c]]
    <3>1. RefreshOK(c)
      BY DEF SessionsInv, UserInv, Requests
    <3> QED BY <1>0, <2>2, <3>1 DEF RefreshOK
  <2>3. phase'[c] = phase[c] /\ awaits'[c] = awaits[c]
    BY <1>u
  <2>4. job'[c].at \notin Working
    BY <1>j DEF Working
  <2>5. straddled' = straddled /\ signedIn' = signedIn
    BY <1>u
  <2>6. Owner(job[c].pair)' = owner /\ job'[c].pair # 0
    BY <1>j, <2>1 DEF Owner
  <2> QED BY <1>j, <2>2, <2>3, <2>4, <2>5, <2>6 DEF RefreshOK
<1>5. ASSUME NEW q \in Requests \ {c} PROVE RefreshOK(q)'
  <2>1. RefreshOK(q) /\ FreshOK(q) /\ job'[q] = job[q]
    BY <1>j DEF SessionsInv, UserInv, FreshInv
  <2>2. job[q].at = "answered" /\ job[q].pair # 0 => Owner(job[q].pair)' = Owner(job[q].pair)
    BY <1>o, <2>1 DEF FreshOK, Known, Owner
  <2>3. job[q].token.pair \in DOMAIN pairs =>
           Owner(job[q].token.pair)' = Owner(job[q].token.pair)
    BY <1>a, <2>1 DEF Owner
  <2> QED BY <1>a, <1>u, <2>1, <2>2, <2>3 DEF RefreshOK
<1>6. SessionIsTheUsers'
  <2>1. \A t \in Pages : Owner(store[t])' = Owner(store[t])
    BY <1>a, <1>u DEF SessionsInv, PageTypesOK, Known, Owner
  <2> QED BY <1>u, <2>1 DEF SessionsInv, UserInv, SessionIsTheUsers
<1>7. UserInv'
  BY <1>4, <1>5, <1>6 DEF UserInv, Requests
<1> QED BY <1>1, <1>2, <1>3, <1>7 DEF SessionsInv

LEMMA SessionsInit == Init => SessionsInv
<1> SUFFICES ASSUME Init PROVE SessionsInv
  OBVIOUS
<1>1. /\ TokensInit /\ job = [c \in Clients |-> NoJob] /\ NoJob.at = "none"
      /\ DOMAIN pairs = {}
  BY DEF Init, TokensInit, NoJob, Ended
<1>2. PageTypesOK
  BY <1>1 DEF Init, PageTypesOK, Known
<1>3. PagesInv
  BY <1>1 DEF Init, PagesInv, WaitsOK, PromiseOK, Requests
<1>4. FreshInv
  BY <1>1 DEF Init, FreshInv, FreshOK, Unpresented, Requests
<1>5. UserInv
  BY <1>1 DEF Init, UserInv, RefreshOK, SessionIsTheUsers, Requests
<1> QED BY <1>2, <1>3, <1>4, <1>5 DEF SessionsInv

LEMMA NextKinds ==
    ASSUME Next
    PROVE  PageAction \/ (ServerAction /\ UNCHANGED <<pageVars, historyVars>>)
<1>1. ASSUME NEW c \in Clients, Served(c) \/ Broken(c)
      PROVE  ServerAction /\ UNCHANGED <<pageVars, historyVars>>
  BY <1>1, Zenon DEF Served, Broken, ServerAction
<1>2. ASSUME Clock PROVE ServerAction /\ UNCHANGED <<pageVars, historyVars>>
  BY <1>2, Zenon DEF Clock, ServerAction
<1>3. ASSUME Reboot PROVE ServerAction /\ UNCHANGED <<pageVars, historyVars>>
  BY <1>3, Zenon DEF Reboot, ServerAction
<1> QED BY <1>1, <1>2, <1>3, Zenon DEF Next, PageAction

\* Every step is one of the server under its clients.
LEMMA ContractStep == TypeInv /\ SessionsInv /\ [Next]_vars => [ServerNext]_tokenVars
<1> SUFFICES ASSUME TypeInv, SessionsInv, [Next]_vars PROVE [ServerNext]_tokenVars
  OBVIOUS
<1>1. CASE PageAction
  BY <1>1, PagesAct DEF SessionsInv, ServerNext
<1>2. CASE ServerAction
  BY <1>2, Zenon DEF ServerAction, ServerNext, TokensNext
<1>3. CASE UNCHANGED vars
  BY <1>3 DEF vars
<1> QED BY <1>1, <1>2, <1>3, NextKinds

LEMMA SessionsStep == TypeInv /\ SessionsInv /\ [Next]_vars => SessionsInv'
<1> SUFFICES ASSUME TypeInv, SessionsInv, [Next]_vars PROVE SessionsInv'
  OBVIOUS
<1>1. CASE PageAction
  BY <1>1, PageTypesStep, PagesInvStep, FreshStep, UserStep DEF SessionsInv, TypeInv
<1>2. CASE ServerAction /\ UNCHANGED <<pageVars, historyVars>>
  BY <1>2, ServerEffects, EasesKeeps, IssuesKeeps
<1>3. CASE UNCHANGED vars
  <2>1. Eases /\ UNCHANGED <<pageVars, historyVars>>
    BY <1>3 DEF vars, tokenVars, Eases, Eased
  <2> QED BY <2>1, EasesKeeps
<1> QED BY <1>1, <1>2, <1>3, NextKinds

\* Whatever the pages do, the server sees clients as Tokens.tla assumes them:
\* they ask with tokens it issued, and only once their last exchange ended.
THEOREM PagesAreClients == Spec => ServerContract
<1>1. Init => TokensInit
  BY DEF Init
<1> QED
  BY <1>1, TypeInit, TypeStep, SessionsInit, SessionsStep, ContractStep, PTL
     DEF Spec, ServerContract, ServerSpec, ServerNext

LEMMA SessionsInvariant == Spec => [](TypeInv /\ SessionsInv)
<1>1. Init => TokensInit
  BY DEF Init
<1> QED
  BY <1>1, TypeInit, TypeStep, SessionsInit, SessionsStep, ContractStep, PTL DEF Spec

\* Pages keep only pairs the server issued, and await only requests.
THEOREM SessionsTypes == Spec => []PageTypesOK
<1>1. SessionsInv => PageTypesOK
  BY DEF SessionsInv
<1> QED BY <1>1, SessionsInvariant, PTL

\* A request that waits waits for an exchange that was begun and whose result
\* the page has not taken yet: no turn of the page loses the refresh that
\* others joined.
THEOREM NobodyWaitsInVain ==
    Spec => [](\A r \in Requests : phase[r] = "waiting" =>
                  /\ awaits[r] \in RequestsOf(PageOf[r])
                  /\ phase[awaits[r]] = "waiting" /\ job[awaits[r]].at # "none")
<1> DEFINE Awaited == \A r \in Requests : phase[r] = "waiting" =>
                         /\ awaits[r] \in RequestsOf(PageOf[r])
                         /\ phase[awaits[r]] = "waiting" /\ job[awaits[r]].at # "none"
<1>1. SessionsInv => Awaited
  <2> SUFFICES ASSUME SessionsInv, NEW r \in Requests, phase[r] = "waiting"
               PROVE  /\ awaits[r] \in RequestsOf(PageOf[r])
                      /\ phase[awaits[r]] = "waiting" /\ job[awaits[r]].at # "none"
    OBVIOUS
  <2> DEFINE q == awaits[r]
  <2>1. q = refreshPromise[PageOf[r]] /\ q \in Requests /\ PageOf[r] \in Pages
    BY SessionsAssumption DEF SessionsInv, PageTypesOK, PagesInv, WaitsOK
  <2>2. PageOf[q] = PageOf[r] /\ phase[q] = "waiting"
    BY <2>1, SessionsAssumption DEF SessionsInv, PagesInv, PromiseOK
  <2>3. awaits[q] = q
    BY <2>1, <2>2 DEF SessionsInv, PagesInv, WaitsOK
  <2> QED BY <2>1, <2>2, <2>3 DEF RequestsOf, SessionsInv, UserInv, RefreshOK
<1> QED BY <1>1, SessionsInvariant, PTL

\* The tokens of a page are those of the user who signed in on it last, or a
\* refresh was under way when its user changed (the late setTokens of
\* lib/api.ts).
THEOREM SessionsBelongToUsers == Spec => []SessionIsTheUsers
<1>1. SessionsInv => SessionIsTheUsers
  BY DEF SessionsInv, UserInv
<1> QED BY <1>1, SessionsInvariant, PTL

\* A request comes to await its own refresh only by starting one.
LEMMA PresentsByRefresh ==
    ASSUME PageTypesOK, PagesInv, Next, NEW r \in Requests,
           phase[r] # "waiting", awaits'[r] = r
    PROVE  \E q \in Requests : StartRefresh(q) /\ awaits'[r] # awaits[r]
<1>p. NoRequest \notin Requests /\ \A q \in Requests : PageOf[q] \in Pages
  BY SessionsAssumption
<1>n. awaits[r] = NoRequest /\ awaits'[r] # awaits[r] /\ awaits'[r] # NoRequest
  BY <1>p DEF PagesInv, WaitsOK
<1>1. CASE PageAction
  <2>1. ASSUME NEW q \in Requests, Call(q) \/ LogoutClick(q) \/ Gone(q) PROVE FALSE
    BY <1>n, <2>1 DEF Call, LogoutClick, Gone, Start
  <2>2. ASSUME NEW q \in Requests, NEW u \in Users, LoginSubmit(q, u) PROVE FALSE
    BY <1>n, <2>2 DEF LoginSubmit, Start
  <2>3. ASSUME NEW q \in Requests, Succeed(q) \/ Throw(q) \/ NoRefreshToken(q) \/ RefreshFailed(q)
        PROVE  FALSE
    BY <1>n, <2>3 DEF Succeed, Throw, NoRefreshToken, RefreshFailed, Forget, Phase
  <2>4. ASSUME NEW q \in Requests, Refreshed(q) PROVE FALSE
    BY <1>n, <2>4 DEF Refreshed, Phase
  <2>5. ASSUME NEW q \in Requests, JoinRefresh(q) PROVE FALSE
    <3>1. q = r /\ refreshPromise[PageOf[r]] = r
      BY <1>n, <2>5 DEF JoinRefresh, PageTypesOK
    <3> QED BY <1>p, <3>1 DEF PagesInv, PromiseOK
  <2>6. ASSUME NEW t \in Pages, Load(t) PROVE FALSE
    BY <1>n, <2>6 DEF Load
  <2>7. ASSUME NEW t \in Pages, Mount(t) PROVE FALSE
    BY <1>n, <2>7 DEF Mount
  <2> QED BY <1>1, <1>n, <2>1, <2>2, <2>3, <2>4, <2>5, <2>6, <2>7 DEF PageAction, React
<1>2. CASE UNCHANGED <<pageVars, historyVars>>
  BY <1>n, <1>2 DEF pageVars
<1> QED BY <1>1, <1>2, NextKinds

\* The shared refreshPromise of lib/api.ts serves its purpose: no page trades
\* one refresh token twice, however its requests fail and whatever the user
\* does meanwhile.
THEOREM TokensArePresentedOnce == Spec => PresentedOnce
<1> DEFINE Once == \A r \in Requests :
                      phase[r] # "waiting" /\ awaits'[r] = r
                      => store[PageOf[r]] \notin presented[PageOf[r]]
<1>1. TypeInv /\ SessionsInv /\ [Next]_vars => [Once]_vars
  <2> SUFFICES ASSUME TypeInv, SessionsInv, Next, NEW r \in Requests,
                      phase[r] # "waiting", awaits'[r] = r
               PROVE  store[PageOf[r]] \notin presented[PageOf[r]]
    OBVIOUS
  <2>1. PICK q \in Requests : StartRefresh(q) /\ awaits'[r] # awaits[r]
    BY PresentsByRefresh DEF SessionsInv
  <2>2. q = r
    BY <2>1 DEF StartRefresh, SessionsInv, PageTypesOK
  <2>3. refreshPromise[PageOf[r]] = NoRequest
    BY <2>1, <2>2 DEF StartRefresh
  <2> QED BY <2>3, SessionsAssumption DEF SessionsInv, FreshInv, Unpresented
<1> QED BY <1>1, SessionsInvariant, PTL DEF Spec, PresentedOnce

\* So that what Tokens.tla promises of its server holds under the pages.
THEOREM PagesTradeOnce == Spec => []TradedOnce /\ RevokedNeverAccepted
  BY PagesAreClients, TradesAreSingle, Revocation, PTL DEF ServerContract

\* localStorage never holds a pair that a page has traded: a page that reads it
\* again, as AuthGuard does, does not come back to a refresh token of its own
\* that is spent, although any page writes localStorage at any time.
THEOREM StorageIsUnspent ==
    Spec => [](\A t \in Pages : refreshPromise[t] = NoRequest => storage \notin presented[t])
<1> DEFINE Unspent == \A t \in Pages : refreshPromise[t] = NoRequest => storage \notin presented[t]
<1>1. SessionsInv => Unspent
  BY DEF SessionsInv, FreshInv, Unpresented
<1> QED BY <1>1, SessionsInvariant, PTL

\* With one page the store and localStorage agree where localStorage works:
\* setTokens and clearTokens write both, and hydrate changes nothing.  Where it
\* throws it stays empty, so that hydrate empties the store of a page that has
\* tokens (readAuthStorage, writeAuthStorage and clearAuthStorage swallow).
THEOREM OnePageMirrors ==
    ASSUME \A t, u \in Pages : t = u
    PROVE  Spec => [](IF persists THEN \A t \in Pages : store[t] = storage
                      ELSE storage = 0)
<1> DEFINE Mirrored == persists => \A t \in Pages : store[t] = storage
           Kept == IF persists THEN \A t \in Pages : store[t] = storage
                   ELSE storage = 0
<1>1. Init => Mirrored
  BY DEF Init
<1>2. TypeInv /\ SessionsInv /\ Mirrored /\ [Next]_vars => Mirrored'
  <2> SUFFICES ASSUME PageTypesOK, Mirrored, [Next]_vars PROVE Mirrored'
    BY DEF SessionsInv
  <2>p. \A r \in Requests : PageOf[r] \in Pages
    BY SessionsAssumption
  <2>s. ASSUME UNCHANGED persists, NEW t \in Pages, NEW p, SetTokens(t, p) PROVE Mirrored'
    BY <2>s DEF SetTokens, writeAuthStorage, PageTypesOK
  <2>1. CASE PageAction
    <3>1. ASSUME NEW r \in Requests, Call(r) \/ Throw(r) \/ StartRefresh(r) \/ JoinRefresh(r) \/ Gone(r)
          PROVE  Mirrored'
      BY <3>1 DEF Call, Start, Throw, StartRefresh, JoinRefresh, Gone
    <3>2. ASSUME NEW r \in Requests,
                 LogoutClick(r) \/ NoRefreshToken(r) \/ RefreshFailed(r) \/ \E u \in Users : LoginSubmit(r, u)
          PROVE  Mirrored'
      BY <2>p, <2>s, <3>2
         DEF LogoutClick, Start, NoRefreshToken, RefreshFailed, LoginSubmit, ClearTokens
    <3>3. ASSUME NEW r \in Requests, Succeed(r) \/ Refreshed(r) PROVE Mirrored'
      BY <2>p, <2>s, <3>3 DEF Succeed, Refreshed
    <3>4. ASSUME NEW t \in Pages, Load(t) \/ Mount(t) PROVE Mirrored'
      BY <3>4, ReadIsStorage DEF Load, Mount, PageTypesOK
    <3> QED BY <2>1, <3>1, <3>2, <3>3, <3>4 DEF PageAction, React
  <2>2. CASE UNCHANGED <<pageVars, historyVars>>
    BY <2>2 DEF pageVars
  <2>3. CASE UNCHANGED vars
    BY <2>3 DEF vars, pageVars
  <2> QED BY <2>1, <2>2, <2>3, NextKinds
<1>3. SessionsInv /\ Mirrored => Kept
  BY DEF SessionsInv, PageTypesOK
<1> QED BY <1>1, <1>2, <1>3, SessionsInvariant, PTL DEF Spec
=============================================================================
