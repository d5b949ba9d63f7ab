---------------------------- MODULE TokensProofs ----------------------------
(***************************************************************************)
(* What the server of Tokens.tla guarantees to any number of clients, who  *)
(* may send any issued token to any endpoint, several of them at once      *)
(* (ServerSpec, which the pages of Sessions.tla implement).                *)
(*                                                                         *)
(* TradedOnce is not inductive: that a refresh token was traded must be    *)
(* read off the blacklist (TradesRevoke), a request that has passed the    *)
(* blacklist must be alone with its token and find it untraded             *)
(* (TradesAlone), and both are excused together.                           *)
(***************************************************************************)
EXTENDS Tokens, TLAPS

ServerNext == TokensNext \/ ClientsAct

Trading == {"decoded", "rotated"}

\* What the request j of a connection carries while it is under way.
Carries(j) ==
    /\ j.at = "sent" /\ j.op = "login" => j.user \in Users
    /\ j.at = "sent" /\ j.op # "login" => j.token \in Issued \cup {NoToken}
    /\ j.at = "authorised" => j.token \in Issued /\ j.token.type = "access"
    /\ j.at \in Trading => j.token \in Issued /\ j.token.type = "refresh"

JobsOK == job \in [Clients -> Job] /\ \A c \in Clients : Carries(job[c])

\* The parts of TokensTypeOK that do not speak of requests, and that a pair
\* replaces an earlier one.
StateOK ==
    /\ pairs \in Seq([owner : Users, from : 0..MaxPairs])
    /\ Len(pairs) <= MaxPairs
    /\ \A i \in DOMAIN pairs : pairs[i].from \in {0} \cup DOMAIN pairs
    /\ expired \in [Types -> 0..MaxPairs]
    /\ revoked \subseteq Token
    /\ told \subseteq Token
    /\ excused \subseteq 1..MaxPairs

TypeInv == StateOK /\ JobsOK

-----------------------------------------------------------------------------
(* Types *)

LEMMA EndedType ==
    ASSUME NEW at \in Settled, NEW p \in 0..MaxPairs
    PROVE  Ended(at, p) \in Job /\ Ended(at, p).at = at /\ Carries(Ended(at, p))
  BY DEF Ended, Job, Settled, Carries, Trading

LEMMA IssuedTokens ==
    ASSUME StateOK
    PROVE  Issued \subseteq Token /\ DOMAIN pairs \subseteq 1..MaxPairs
<1>1. DOMAIN pairs \subseteq 1..MaxPairs
  BY TokensAssumption DEF StateOK
<1> QED BY <1>1 DEF Issued, Token

LEMMA OwnerType ==
    ASSUME StateOK, NEW p \in DOMAIN pairs
    PROVE  pairs[p].owner \in Users
<1>1. ASSUME NEW S, NEW s \in Seq(S), NEW i \in DOMAIN s PROVE s[i] \in S
  OBVIOUS
<1>2. pairs[p] \in [owner : Users, from : 0..MaxPairs]
  BY <1>1, Zenon DEF StateOK
<1> QED BY <1>2

LEMMA QuestionType ==
    ASSUME StateOK, NEW q \in Question
    PROVE  q \in Job /\ q.at = "sent" /\ Carries(q)
<1>2. Issued \subseteq Token
  BY IssuedTokens
<1>3. CASE q \in [op : {"login"}, token : {NoToken}, user : Users, at : {"sent"}, pair : {0}]
  BY <1>3, TokensAssumption DEF Job, Ops, Working, Carries, Trading
<1>4. CASE q \in [op : Ops \ {"login"}, token : Issued \cup {NoToken},
                  user : {NoUser}, at : {"sent"}, pair : {0}]
  BY <1>2, <1>4, TokensAssumption DEF Job, Ops, Working, Carries, Trading
<1> QED BY <1>3, <1>4 DEF Question

\* A request that moves on keeps what it carries.
LEMMA MoveType ==
    ASSUME TypeInv, NEW c \in Clients, NEW at \in Working, Move(c, at)
    PROVE  /\ job' \in [Clients -> Job]
           /\ job'[c].at = at /\ job'[c].token = job[c].token
           /\ \A d \in Clients \ {c} : job'[d] = job[d]
<1>1. job[c] \in Job /\ job \in [Clients -> Job]
  BY DEF TypeInv, JobsOK
<1>2. [job[c] EXCEPT !.at = at] \in Job
  BY <1>1 DEF Job
<1> QED BY <1>1, <1>2 DEF Move, Job

LEMMA EndType ==
    ASSUME TypeInv, NEW c \in Clients, NEW at \in Settled, NEW p \in 0..MaxPairs,
           job' = [job EXCEPT ![c] = Ended(at, p)]
    PROVE  /\ job' \in [Clients -> Job]
           /\ job'[c].at = at /\ Carries(job'[c])
           /\ \A d \in Clients \ {c} : job'[d] = job[d]
<1>1. job \in [Clients -> Job]
  BY DEF TypeInv, JobsOK
<1>2. Ended(at, p) \in Job /\ Ended(at, p).at = at /\ Carries(Ended(at, p))
  BY EndedType
<1> QED BY <1>1, <1>2

LEMMA AppendPair ==
    ASSUME StateOK, NEW owner \in Users, NEW from \in {0} \cup DOMAIN pairs,
           NEW c \in Clients, Answer(c, owner, from)
    PROVE  /\ pairs' \in Seq([owner : Users, from : 0..MaxPairs])
           /\ Len(pairs') = Len(pairs) + 1 /\ Len(pairs') <= MaxPairs
           /\ DOMAIN pairs' = DOMAIN pairs \cup {Len(pairs) + 1}
           /\ Len(pairs) + 1 \notin {0} \cup DOMAIN pairs
           /\ \A i \in DOMAIN pairs : pairs'[i] = pairs[i]
           /\ pairs'[Len(pairs) + 1] = [owner |-> owner, from |-> from]
           /\ Issued \subseteq Issued'
           /\ job' = [job EXCEPT ![c] = Ended("answered", Len(pairs) + 1)]
           /\ Len(pairs) + 1 \in 0..MaxPairs
<1>1. [owner |-> owner, from |-> from] \in [owner : Users, from : 0..MaxPairs]
  BY IssuedTokens, TokensAssumption
<1>2. Len(pairs) \in Nat /\ Len(pairs) < MaxPairs
  BY DEF StateOK, Answer
<1>3. pairs' = Append(pairs, [owner |-> owner, from |-> from])
  BY DEF Answer
<1>4. /\ pairs' \in Seq([owner : Users, from : 0..MaxPairs])
      /\ Len(pairs') = Len(pairs) + 1
      /\ DOMAIN pairs' = DOMAIN pairs \cup {Len(pairs) + 1}
      /\ Len(pairs) + 1 \notin {0} \cup DOMAIN pairs
      /\ \A i \in DOMAIN pairs : pairs'[i] = pairs[i]
      /\ pairs'[Len(pairs) + 1] = [owner |-> owner, from |-> from]
  BY <1>1, <1>2, <1>3 DEF StateOK
<1>5. Issued \subseteq Issued'
  BY <1>4 DEF Issued
<1> QED BY <1>2, <1>4, <1>5, TokensAssumption DEF Answer

LEMMA PairType ==
    ASSUME TypeInv, NEW owner \in Users, NEW from \in {0} \cup DOMAIN pairs,
           NEW c \in Clients, Answer(c, owner, from),
           UNCHANGED <<expired, revoked, excused>>, told' \subseteq Token
    PROVE  TypeInv'
<1> DEFINE n == Len(pairs) + 1
<1>1. /\ StateOK /\ Issued \subseteq Issued'
      /\ job' = [job EXCEPT ![c] = Ended("answered", n)]
      /\ n \in 0..MaxPairs
  BY AppendPair DEF TypeInv
<1>2. StateOK'
  <2>1. /\ pairs' \in Seq([owner : Users, from : 0..MaxPairs])
        /\ Len(pairs') <= MaxPairs
        /\ DOMAIN pairs' = DOMAIN pairs \cup {n}
        /\ \A i \in DOMAIN pairs : pairs'[i] = pairs[i]
        /\ pairs'[n] = [owner |-> owner, from |-> from]
    BY <1>1, AppendPair
  <2>2. \A i \in DOMAIN pairs' : pairs'[i].from \in {0} \cup DOMAIN pairs'
    <3>1. pairs'[n].from = from
      BY <2>1
    <3> QED BY <1>1, <2>1, <3>1 DEF StateOK
  <2> QED BY <1>1, <2>1, <2>2 DEF StateOK
<1>3. /\ job' \in [Clients -> Job] /\ Carries(job'[c])
      /\ \A d \in Clients \ {c} : job'[d] = job[d]
  BY <1>1, EndType DEF Settled
<1>4. \A d \in Clients : Carries(job[d])
  BY DEF TypeInv, JobsOK
<1>5. ASSUME NEW d \in Clients PROVE Carries(job[d])'
  BY <1>1, <1>3, <1>4 DEF Carries
<1> QED BY <1>2, <1>3, <1>5 DEF TypeInv, JobsOK

LEMMA TypeInit == TokensInit => TypeInv
<1> SUFFICES ASSUME TokensInit PROVE TypeInv
  OBVIOUS
<1>1. StateOK
  BY TokensAssumption DEF TokensInit, StateOK
<1>2. NoJob \in Job /\ Carries(NoJob)
  BY EndedType, TokensAssumption DEF NoJob, Settled
<1> QED BY <1>1, <1>2 DEF TokensInit, TypeInv, JobsOK

\* Steps after which the pairs are as before.
LEMMA TypeSamePairs ==
    ASSUME TypeInv, UNCHANGED pairs, expired' \in [Types -> 0..MaxPairs],
           revoked' \subseteq Token, told' \subseteq Token,
           excused' \subseteq 1..MaxPairs,
           job' \in [Clients -> Job],
           \A d \in Clients : job'[d] = job[d] \/ Carries(job'[d])
    PROVE  TypeInv'
<1>1. StateOK' /\ Issued' = Issued
  BY DEF TypeInv, StateOK, Issued
<1>2. \A d \in Clients : Carries(job'[d])
  BY DEF TypeInv, JobsOK
<1>3. ASSUME NEW d \in Clients PROVE Carries(job[d])'
  BY <1>1, <1>2 DEF Carries
<1> QED BY <1>1, <1>3 DEF TypeInv, JobsOK

LEMMA TypeStep == TypeInv /\ [ServerNext]_tokenVars => TypeInv'
<1> SUFFICES ASSUME TypeInv, [ServerNext]_tokenVars PROVE TypeInv'
  OBVIOUS
<1>0. /\ expired \in [Types -> 0..MaxPairs] /\ revoked \subseteq Token
      /\ told \subseteq Token /\ excused \subseteq 1..MaxPairs
      /\ Len(pairs) \in Nat /\ Len(pairs) <= MaxPairs
      /\ StateOK /\ job \in [Clients -> Job]
      /\ 0 \in 0..MaxPairs
  BY TokensAssumption DEF TypeInv, StateOK, JobsOK
<1>c. \A c \in Clients : job[c] \in Job /\ Carries(job[c])
  BY DEF TypeInv, JobsOK
<1>t. Issued \subseteq Token
  BY <1>0, IssuedTokens
<1>1. ASSUME NEW c \in Clients, LoginSucceeds(c) PROVE TypeInv'
  <2>1. job[c].user \in Users /\ Answer(c, job[c].user, 0)
    BY <1>1, <1>c DEF LoginSucceeds, At, Carries
  <2> QED BY <1>0, <1>1, <2>1, PairType DEF LoginSucceeds
<1>2. ASSUME NEW c \in Clients, LoginRefused(c) PROVE TypeInv'
  BY <1>0, <1>2, EndType, TypeSamePairs DEF LoginRefused, End, Settled
<1>3. ASSUME NEW c \in Clients, Authorise(c) PROVE TypeInv'
  <2>1. CASE End(c, "refused") \/ End(c, "answered")
    BY <1>0, <1>3, <2>1, EndType, TypeSamePairs DEF Authorise, End, Settled
  <2>2. CASE Valid(job[c].token, "access") /\ Move(c, "authorised")
    <3>1. /\ job' \in [Clients -> Job]
          /\ job'[c].at = "authorised" /\ job'[c].token = job[c].token
          /\ \A d \in Clients \ {c} : job'[d] = job[d]
      BY <2>2, MoveType DEF Working
    <3>2. job[c].token \in Issued /\ job[c].token.type = "access"
      BY <1>c, <1>3, <2>2 DEF Authorise, Valid, Carries, NoToken
    <3>3. Carries(job'[c])
      BY <3>1, <3>2 DEF Carries, Trading
    <3> QED BY <1>0, <1>3, <3>1, <3>3, TypeSamePairs DEF Authorise
  <2> QED BY <1>3, <2>1, <2>2, Zenon DEF Authorise
<1>4. ASSUME NEW c \in Clients, Logout(c) PROVE TypeInv'
  <2>1. job[c].token \in Token
    BY <1>4, <1>c, <1>t DEF Logout, At, Carries
  <2>2. revoked' \subseteq Token /\ told' \subseteq Token
    BY <1>0, <1>4, <2>1 DEF Logout
  <2> QED BY <1>0, <1>4, <2>2, EndType, TypeSamePairs DEF Logout, End, Settled
<1>5. ASSUME NEW c \in Clients, DecodeRefresh(c) PROVE TypeInv'
  <2>1. CASE End(c, "refused") /\ UNCHANGED excused
    BY <1>0, <1>5, <2>1, EndType, TypeSamePairs DEF DecodeRefresh, End, Settled
  <2>2. CASE Valid(job[c].token, "refresh") /\ Move(c, "decoded")
    <3>1. /\ job' \in [Clients -> Job]
          /\ job'[c].at = "decoded" /\ job'[c].token = job[c].token
          /\ \A d \in Clients \ {c} : job'[d] = job[d]
      BY <2>2, MoveType DEF Working
    <3>2. job[c].token \in Issued /\ job[c].token.type = "refresh"
      BY <1>c, <1>5, <2>2 DEF DecodeRefresh, At, Valid, Carries, NoToken
    <3>3. Carries(job'[c])
      BY <3>1, <3>2 DEF Carries, Trading
    <3>4. job[c].token.pair \in 1..MaxPairs
      BY <1>t, <3>2 DEF Token
    <3>5. excused' = excused \/ excused' = excused \cup {job[c].token.pair}
      BY <1>5, <2>2, Zenon DEF DecodeRefresh
    <3>6. excused' \subseteq 1..MaxPairs
      BY <1>0, <3>4, <3>5
    <3>7. UNCHANGED <<pairs, expired, revoked, told>>
      BY <1>5 DEF DecodeRefresh
    <3> QED BY <1>0, <3>1, <3>3, <3>6, <3>7, TypeSamePairs
  <2> QED BY <1>5, <2>1, <2>2, Zenon DEF DecodeRefresh
<1>6. ASSUME NEW c \in Clients, RotateRefresh(c) PROVE TypeInv'
  <2>1. /\ job' \in [Clients -> Job]
        /\ job'[c].at = "rotated" /\ job'[c].token = job[c].token
        /\ \A d \in Clients \ {c} : job'[d] = job[d]
    BY <1>6, MoveType DEF RotateRefresh, Working
  <2>2. job[c].token \in Issued /\ job[c].token.type = "refresh"
    BY <1>c, <1>6 DEF RotateRefresh, At, Carries, Trading
  <2>3. Carries(job'[c])
    BY <2>1, <2>2 DEF Carries, Trading
  <2>4. revoked' \subseteq Token
    BY <1>0, <1>6, <1>t, <2>2 DEF RotateRefresh
  <2> QED BY <1>0, <1>6, <2>1, <2>3, <2>4, TypeSamePairs DEF RotateRefresh
<1>7. ASSUME NEW c \in Clients, IssueRefreshed(c) PROVE TypeInv'
  <2> DEFINE t == job[c].token
  <2>1. t \in Issued
    BY <1>c, <1>7 DEF IssueRefreshed, At, Carries, Trading
  <2>2. t.pair \in DOMAIN pairs
    BY <2>1 DEF Issued
  <2>3. pairs[t.pair].owner \in Users
    BY <1>0, <2>2, OwnerType
  <2>4. /\ Answer(c, pairs[t.pair].owner, t.pair)
        /\ told' = told \cup {t} /\ UNCHANGED <<expired, revoked, excused>>
    BY <1>7 DEF IssueRefreshed
  <2>5. told' \subseteq Token
    BY <1>0, <1>t, <2>1, <2>4
  <2> HIDE DEF t
  <2> QED BY <2>2, <2>3, <2>4, <2>5, PairType
<1>8. ASSUME NEW c \in Clients, Lose(c) PROVE TypeInv'
  BY <1>0, <1>8, EndType, TypeSamePairs DEF Lose, End, Settled
<1>9. ASSUME NEW c \in Clients, Ask(c) PROVE TypeInv'
  <2>1. PICK q \in Question : job' = [job EXCEPT ![c] = q]
    BY <1>9, Zenon DEF Ask
  <2>2. q \in Job /\ Carries(q)
    BY <1>0, QuestionType
  <2>3. job' \in [Clients -> Job] /\ \A d \in Clients : job'[d] = job[d] \/ job'[d] = q
    BY <1>0, <2>1, <2>2
  <2>4. UNCHANGED <<pairs, expired, revoked, told, excused>>
    BY <1>9 DEF Ask
  <2> QED BY <1>0, <2>2, <2>3, <2>4, TypeSamePairs
<1>10. ASSUME NEW type \in Types, Expire(type) PROVE TypeInv'
  <2>1. expired[type] + 1 \in 0..MaxPairs
    BY <1>0, <1>10, TokensAssumption DEF Expire, Types
  <2>2. expired' \in [Types -> 0..MaxPairs]
    BY <1>0, <1>10, <2>1 DEF Expire
  <2> QED BY <1>0, <1>10, <2>2, TypeSamePairs DEF Expire
<1>11. ASSUME Restart PROVE TypeInv'
  <2>1. Ended("lost", 0) \in Job /\ Carries(Ended("lost", 0))
    BY <1>0, EndedType DEF Settled
  <2>2. /\ job' \in [Clients -> Job]
        /\ \A d \in Clients : job'[d] = job[d] \/ job'[d] = Ended("lost", 0)
    BY <1>0, <1>11, <2>1 DEF Restart
  <2>3. excused' \subseteq 1..MaxPairs
    BY <1>0, <1>11, IssuedTokens DEF Restart
  <2>4. revoked' = {} /\ told' = {} /\ UNCHANGED <<pairs, expired>>
    BY <1>11 DEF Restart
  <2> QED BY <1>0, <2>1, <2>2, <2>3, <2>4, TypeSamePairs
<1>12. ASSUME ClientsAct PROVE TypeInv'
  <2>1. \A q \in Question : Carries(q)
    BY <1>0, QuestionType
  <2>2. Carries(NoJob)
    BY <1>0, EndedType DEF NoJob, Settled
  <2>3. job' \in [Clients -> Job] /\ \A d \in Clients : job'[d] = job[d] \/ Carries(job'[d])
    BY <1>12, <2>1, <2>2, Zenon DEF ClientsAct
  <2> QED BY <1>0, <1>12, <2>3, TypeSamePairs DEF ClientsAct
<1>13. ASSUME UNCHANGED tokenVars PROVE TypeInv'
  BY <1>0, <1>13, TypeSamePairs DEF tokenVars
<1> QED
  BY <1>1, <1>2, <1>3, <1>4, <1>5, <1>6, <1>7, <1>8, <1>9, <1>10, <1>11, <1>12, <1>13,
     Zenon DEF ServerNext, TokensNext, Serve

\* Whatever the clients send, the server's state keeps its types.
THEOREM TypeCorrect == ServerSpec => []TokensTypeOK
<1>1. TypeInv => TokensTypeOK
  BY DEF TypeInv, StateOK, JobsOK, TokensTypeOK
<1> QED BY <1>1, TypeInit, TypeStep, PTL DEF ServerSpec, ServerNext

-----------------------------------------------------------------------------
(* Revocation *)

Spent(t) == t \in revoked \/ t.pair <= expired[t.type]

\* What was answered to be revoked is blacklisted or has expired, and a
\* refresh under way has blacklisted its token before it issues.
RevokedInv ==
    /\ \A t \in told : Spent(t)
    /\ \A c \in Clients : job[c].at = "rotated" => job[c].token \in revoked

\* Steps that forget nothing and bring no request to "rotated".
LEMMA RevokedQuiet ==
    ASSUME TypeInv, RevokedInv, UNCHANGED told, UNCHANGED expired,
           revoked \subseteq revoked',
           \A d \in Clients : job'[d] = job[d] \/ job'[d].at # "rotated"
    PROVE  RevokedInv'
  BY DEF RevokedInv, Spent

LEMMA RevokedStep ==
    TypeInv /\ RevokedInv /\ [ServerNext]_tokenVars => RevokedInv'
<1> SUFFICES ASSUME TypeInv, RevokedInv, [ServerNext]_tokenVars PROVE RevokedInv'
  OBVIOUS
<1>0. 0 \in 0..MaxPairs /\ StateOK /\ TypeInv /\ job \in [Clients -> Job]
  BY TokensAssumption DEF TypeInv, JobsOK
<1>c. \A c \in Clients : Carries(job[c])
  BY DEF TypeInv, JobsOK
<1>e. ASSUME NEW c \in Clients, NEW at \in Settled, End(c, at)
      PROVE \A d \in Clients : job'[d] = job[d] \/ job'[d].at # "rotated"
  BY <1>0, <1>e, EndType DEF End, Settled
<1>m. ASSUME NEW c \in Clients, NEW at \in Working, Move(c, at)
      PROVE /\ job'[c].at = at /\ job'[c].token = job[c].token
            /\ \A d \in Clients \ {c} : job'[d] = job[d]
  BY <1>0, <1>m, MoveType
<1>a. ASSUME NEW c \in Clients, NEW owner \in Users, NEW from \in {0} \cup DOMAIN pairs,
             Answer(c, owner, from)
      PROVE  \A d \in Clients : job'[d] = job[d] \/ job'[d].at # "rotated"
  <2>1. /\ job' = [job EXCEPT ![c] = Ended("answered", Len(pairs) + 1)]
        /\ Len(pairs) + 1 \in 0..MaxPairs
    BY <1>0, <1>a, AppendPair
  <2> QED BY <1>0, <2>1, EndType DEF Settled
<1>1. ASSUME NEW c \in Clients, LoginSucceeds(c) PROVE RevokedInv'
  <2>1. job[c].user \in Users /\ Answer(c, job[c].user, 0)
    BY <1>1, <1>c DEF LoginSucceeds, At, Carries
  <2> QED BY <1>0, <1>1, <1>a, <2>1, RevokedQuiet DEF LoginSucceeds
<1>2. ASSUME NEW c \in Clients, LoginRefused(c) PROVE RevokedInv'
  BY <1>0, <1>2, <1>e, RevokedQuiet DEF LoginRefused, Settled
<1>3. ASSUME NEW c \in Clients, Authorise(c) PROVE RevokedInv'
  <2>1. CASE End(c, "refused") \/ End(c, "answered")
    BY <1>0, <1>3, <1>e, <2>1, RevokedQuiet DEF Authorise, Settled
  <2>2. CASE Move(c, "authorised")
    BY <1>0, <1>3, <1>m, <2>2, RevokedQuiet DEF Authorise, Working
  <2> QED BY <1>3, <2>1, <2>2, Zenon DEF Authorise
<1>4. ASSUME NEW c \in Clients, Logout(c) PROVE RevokedInv'
  <2>1. job[c].token.type = "access"
    BY <1>4, <1>c DEF Logout, At, Carries
  <2>2. job[c].token \in Token
    BY <1>0, <1>4, <1>c, IssuedTokens DEF Logout, At, Carries
  <2>3. /\ revoked \subseteq revoked' /\ told' = told \cup {job[c].token}
        /\ UNCHANGED expired
    BY <1>4 DEF Logout
  <2>4. job[c].token \in revoked' \/ job[c].token.pair <= expired["access"]
    <3>1. CASE Valid(job[c].token, "access")
      BY <1>4, <3>1 DEF Logout
    <3>2. CASE ~Valid(job[c].token, "access")
      <4>1. ~(job[c].token.pair > expired["access"]) \/ job[c].token \in revoked
        BY <2>1, <3>2, Zenon DEF Valid
      <4>2. job[c].token.pair \in Nat /\ expired["access"] \in Nat
        BY <1>0, <2>2, TokensAssumption DEF StateOK, Types, Token
      <4> QED BY <2>3, <4>1, <4>2
    <3> QED BY <3>1, <3>2
  <2>5. \A d \in Clients : job'[d] = job[d] \/ job'[d].at # "rotated"
    BY <1>4, <1>e DEF Logout, Settled
  <2> QED BY <2>1, <2>3, <2>4, <2>5 DEF RevokedInv, Spent
<1>5. ASSUME NEW c \in Clients, DecodeRefresh(c) PROVE RevokedInv'
  <2>1. UNCHANGED <<expired, revoked, told>>
    BY <1>5 DEF DecodeRefresh
  <2>2. CASE End(c, "refused")
    BY <1>0, <1>e, <2>1, <2>2, RevokedQuiet DEF Settled
  <2>3. CASE Move(c, "decoded")
    BY <1>0, <1>m, <2>1, <2>3, RevokedQuiet DEF Working
  <2> QED BY <1>5, <2>2, <2>3, Zenon DEF DecodeRefresh
<1>6. ASSUME NEW c \in Clients, RotateRefresh(c) PROVE RevokedInv'
  <2>1. /\ revoked' = revoked \cup {job[c].token} /\ UNCHANGED <<told, expired>>
        /\ job'[c].token = job[c].token
        /\ \A d \in Clients \ {c} : job'[d] = job[d]
    BY <1>6, <1>m DEF RotateRefresh, Working
  <2> QED BY <2>1 DEF RevokedInv, Spent
<1>7. ASSUME NEW c \in Clients, IssueRefreshed(c) PROVE RevokedInv'
  <2> DEFINE t == job[c].token
  <2>1. t \in Issued /\ t \in revoked
    BY <1>c, <1>7 DEF IssueRefreshed, At, Carries, Trading, RevokedInv
  <2>2. t.pair \in DOMAIN pairs
    BY <2>1 DEF Issued
  <2>3. pairs[t.pair].owner \in Users
    BY <1>0, <2>2, OwnerType
  <2>4. \A d \in Clients : job'[d] = job[d] \/ job'[d].at # "rotated"
    BY <1>7, <1>a, <2>2, <2>3 DEF IssueRefreshed
  <2>5. told' = told \cup {t} /\ UNCHANGED <<expired, revoked>>
    BY <1>7 DEF IssueRefreshed
  <2> HIDE DEF t
  <2> QED BY <2>1, <2>4, <2>5 DEF RevokedInv, Spent
<1>8. ASSUME NEW c \in Clients, Lose(c) PROVE RevokedInv'
  BY <1>0, <1>8, <1>e, RevokedQuiet DEF Lose, Settled
<1>9. ASSUME NEW c \in Clients, Ask(c) PROVE RevokedInv'
  <2>1. PICK q \in Question : job' = [job EXCEPT ![c] = q]
    BY <1>9, Zenon DEF Ask
  <2>2. \A d \in Clients : job'[d] = job[d] \/ job'[d].at # "rotated"
    BY <1>0, <2>1, QuestionType
  <2> QED BY <1>0, <1>9, <2>2, RevokedQuiet DEF Ask
<1>10. ASSUME NEW type \in Types, Expire(type) PROVE RevokedInv'
  <2>1. /\ expired' = [expired EXCEPT ![type] = @ + 1]
        /\ UNCHANGED <<revoked, job, told>>
    BY <1>10 DEF Expire
  <2>2. /\ expired \in [Types -> Nat] /\ told \subseteq Token
    BY <1>0, TokensAssumption DEF StateOK
  <2>3. ASSUME NEW t \in told PROVE Spent(t)'
    <3>1. t.type \in Types /\ t.pair \in Nat /\ Spent(t)
      BY <2>2, TokensAssumption DEF Token, RevokedInv
    <3>2. expired'[t.type] \in Nat /\ expired[t.type] \in Nat
          /\ expired[t.type] <= expired'[t.type]
      BY <2>1, <2>2, <3>1
    <3> QED BY <2>1, <3>1, <3>2 DEF Spent
  <2> QED BY <2>1, <2>3 DEF RevokedInv
<1>11. ASSUME Restart PROVE RevokedInv'
  <2>1. told' = {}
    BY <1>11 DEF Restart
  <2>2. ASSUME NEW d \in Clients PROVE job'[d].at # "rotated"
    <3>1. Ended("lost", 0).at = "lost"
      BY <1>0, EndedType DEF Settled
    <3>2. job'[d] = IF job[d].at \in Working THEN Ended("lost", 0) ELSE job[d]
      BY <1>11 DEF Restart
    <3> QED BY <3>1, <3>2 DEF Working
  <2> QED BY <2>1, <2>2 DEF RevokedInv
<1>12. ASSUME ClientsAct PROVE RevokedInv'
  <2>1. \A d \in Clients : job'[d] = job[d] \/ job'[d] \in Question \cup {NoJob}
    BY <1>12, Zenon DEF ClientsAct
  <2>2. NoJob.at # "rotated"
    BY <1>0, EndedType DEF NoJob, Settled
  <2>3. \A d \in Clients : job'[d] = job[d] \/ job'[d].at # "rotated"
    BY <1>0, <2>1, <2>2, QuestionType
  <2> QED BY <1>0, <1>12, <2>3, RevokedQuiet DEF ClientsAct
<1>13. ASSUME UNCHANGED tokenVars PROVE RevokedInv'
  BY <1>0, <1>13, RevokedQuiet DEF tokenVars
<1> QED
  BY <1>1, <1>2, <1>3, <1>4, <1>5, <1>6, <1>7, <1>8, <1>9, <1>10, <1>11, <1>12, <1>13,
     Zenon DEF ServerNext, TokensNext, Serve

LEMMA RevokedInit == TokensInit => RevokedInv
<1> SUFFICES ASSUME TokensInit PROVE RevokedInv
  OBVIOUS
<1>1. NoJob.at = "none"
  BY TokensAssumption, EndedType DEF NoJob, Settled
<1> QED BY <1>1 DEF TokensInit, RevokedInv

\* No step takes a request with a revoked token past the blacklist.
LEMMA Acceptance ==
    ASSUME TypeInv, RevokedInv, [ServerNext]_tokenVars, NEW c \in Clients,
           job[c].at = "sent", job[c].op # "login",
           job'[c].at \in {"authorised", "decoded", "answered"}
    PROVE  job[c].token \notin told
<1>0. 0 \in 0..MaxPairs /\ StateOK /\ TypeInv /\ job \in [Clients -> Job]
  BY TokensAssumption DEF TypeInv, JobsOK
<1>a. job'[c] # job[c]
  OBVIOUS
<1>v. ASSUME NEW type \in Types, Valid(job[c].token, type) PROVE job[c].token \notin told
  <2>1. SUFFICES ASSUME job[c].token \in told PROVE FALSE
    OBVIOUS
  <2>2. job[c].token.pair \in Nat /\ expired[type] \in Nat
    BY <1>0, <2>1, TokensAssumption DEF StateOK, Token
  <2> QED BY <1>v, <2>1, <2>2 DEF Valid, RevokedInv, Spent
<1>e. ASSUME NEW d \in Clients, NEW at \in {"refused", "lost"}, End(d, at)
      PROVE  FALSE
  <2>1. job'[d].at = at /\ \A x \in Clients \ {d} : job'[x] = job[x]
    BY <1>0, <1>e, EndType DEF End, Settled
  <2> QED BY <1>a, <2>1
<1>1. ASSUME NEW d \in Clients, Serve(d) PROVE job[c].token \notin told
  <2>1. d = c
    <3>1. SUFFICES ASSUME d # c PROVE job'[c] = job[c]
      BY <1>a
    <3>2. CASE \E j : job' = [job EXCEPT ![d] = j]
      BY <1>0, <3>1, <3>2
    <3>3. \E j : job' = [job EXCEPT ![d] = j]
      <4>1. CASE \E at : Move(d, at)
        BY <4>1 DEF Move
      <4>2. CASE \E at : End(d, at)
        BY <4>2, Zenon DEF End
      <4>3. CASE \E owner, from : Answer(d, owner, from)
        BY <4>3, Zenon DEF Answer
      <4>4. (\E at : Move(d, at)) \/ (\E at : End(d, at)) \/ \E owner, from : Answer(d, owner, from)
        BY <1>1, Zenon DEF Serve, LoginSucceeds, LoginRefused, Authorise, Logout,
                      DecodeRefresh, RotateRefresh, IssueRefreshed
      <4> QED BY <4>1, <4>2, <4>3, <4>4
    <3> QED BY <3>2, <3>3
  <2>2. CASE Authorise(c)
    BY <1>e, <1>v, <2>2, Zenon DEF Authorise, Types
  <2>3. CASE DecodeRefresh(c)
    BY <1>e, <1>v, <2>3, Zenon DEF DecodeRefresh, Types
  <2>4. Authorise(c) \/ DecodeRefresh(c)
    BY <1>1, <2>1 DEF Serve, LoginSucceeds, LoginRefused, Logout, RotateRefresh,
                      IssueRefreshed, At
  <2> QED BY <2>2, <2>3, <2>4
<1>2. ASSUME NEW d \in Clients, Lose(d) PROVE FALSE
  BY <1>2, <1>e DEF Lose
<1>3. ASSUME NEW d \in Clients, Ask(d) PROVE FALSE
  <2>1. PICK q \in Question : job' = [job EXCEPT ![d] = q]
    BY <1>3, Zenon DEF Ask
  <2>2. q.at = "sent"
    BY <1>0, QuestionType
  <2> QED BY <1>0, <2>1, <2>2
<1>4. ASSUME NEW type \in Types, Expire(type) PROVE FALSE
  BY <1>4, <1>a DEF Expire
<1>5. ASSUME Restart PROVE FALSE
  <2>1. Ended("lost", 0).at = "lost"
    BY <1>0, EndedType DEF Settled
  <2>2. job'[c] = Ended("lost", 0) \/ job'[c] = job[c]
    BY <1>5 DEF Restart
  <2> QED BY <1>a, <2>1, <2>2
<1>6. ASSUME ClientsAct PROVE FALSE
  BY <1>6, <1>a DEF ClientsAct, Settled
<1>7. ASSUME UNCHANGED tokenVars PROVE FALSE
  BY <1>7, <1>a DEF tokenVars
<1> QED
  BY <1>1, <1>2, <1>3, <1>4, <1>5, <1>6, <1>7, Zenon DEF ServerNext, TokensNext

\* Until it restarts, the server accepts no token whose revocation it has
\* answered, however many clients interleave their requests: the blacklist
\* grows before the answer, and only expiry relieves it.
THEOREM Revocation == ServerSpec => RevokedNeverAccepted
<1>1. ASSUME TypeInv, RevokedInv, [ServerNext]_tokenVars
      PROVE  [\A c \in Clients :
                /\ job[c].at = "sent" /\ job[c].op # "login"
                /\ job'[c].at \in {"authorised", "decoded", "answered"}
                => job[c].token \notin told]_tokenVars
  BY <1>1, Acceptance
<1> QED
  BY <1>1, TypeInit, TypeStep, RevokedInit, RevokedStep, PTL
     DEF ServerSpec, ServerNext, RevokedNeverAccepted

-----------------------------------------------------------------------------
(* Trades *)

Refresher(p) == [type |-> "refresh", pair |-> p]
Traded(p) == \E i \in DOMAIN pairs : pairs[i].from = p

\* A refresh token that was traded is on the blacklist.
TradesRevoke == \A p \in DOMAIN pairs \ excused : Traded(p) => Refresher(p) \in revoked

\* A request past the blacklist is alone with its token, which is untraded.
Alone(c) ==
    LET t == job[c].token IN
    job[c].at \in Trading /\ t.pair \notin excused =>
        /\ ~Traded(t.pair)
        /\ \A d \in Clients \ {c} : job[d].at \in Trading => job[d].token # t

TradesInv ==
    /\ TradesRevoke
    /\ \A c \in Clients : Alone(c)
    /\ TradedOnce

\* Steps that trade nothing and bring no request past the blacklist.
Quiet(d) == \/ job'[d].at \notin Trading
            \/ job[d].at \in Trading /\ job'[d].token = job[d].token

LEMMA TradesQuiet ==
    ASSUME TypeInv, TradesInv, UNCHANGED <<pairs, excused>>,
           revoked \subseteq revoked', \A d \in Clients : Quiet(d)
    PROVE  TradesInv'
<1> USE DEF Quiet
<1>1. TradesRevoke' /\ TradedOnce'
  BY DEF TradesInv, TradesRevoke, Traded, TradedOnce
<1>2. ASSUME NEW c \in Clients PROVE Alone(c)'
  BY DEF TradesInv, Alone, Traded
<1> QED BY <1>1, <1>2 DEF TradesInv

\* A new pair: of a login, or for a refresh token that is blacklisted and
\* that nobody else trades.
LEMMA TradesPair ==
    ASSUME TypeInv, TradesInv, NEW owner \in Users, NEW from \in {0} \cup DOMAIN pairs,
           NEW c \in Clients, Answer(c, owner, from), UNCHANGED <<revoked, excused>>,
           from # 0 => /\ Refresher(from) \in revoked
                       /\ from \notin excused =>
                              /\ ~Traded(from)
                              /\ \A d \in Clients \ {c} : job[d].at \in Trading =>
                                    job[d].token # Refresher(from)
    PROVE  TradesInv'
<1>0. /\ DOMAIN pairs' = DOMAIN pairs \cup {Len(pairs) + 1}
      /\ Len(pairs) + 1 \notin {0} \cup DOMAIN pairs
      /\ \A i \in DOMAIN pairs : pairs'[i] = pairs[i]
      /\ pairs'[Len(pairs) + 1] = [owner |-> owner, from |-> from]
      /\ job' = [job EXCEPT ![c] = Ended("answered", Len(pairs) + 1)]
      /\ Len(pairs) + 1 \in 0..MaxPairs
  <2>1. StateOK
    BY DEF TypeInv
  <2>2. /\ pairs' \in Seq([owner : Users, from : 0..MaxPairs])
        /\ Len(pairs') = Len(pairs) + 1 /\ Len(pairs') <= MaxPairs
        /\ DOMAIN pairs' = DOMAIN pairs \cup {Len(pairs) + 1}
        /\ Len(pairs) + 1 \notin {0} \cup DOMAIN pairs
        /\ \A i \in DOMAIN pairs : pairs'[i] = pairs[i]
        /\ pairs'[Len(pairs) + 1] = [owner |-> owner, from |-> from]
        /\ Issued \subseteq Issued'
        /\ job' = [job EXCEPT ![c] = Ended("answered", Len(pairs) + 1)]
        /\ Len(pairs) + 1 \in 0..MaxPairs
    BY <2>1, AppendPair, Zenon
  <2> QED BY <2>2, Zenon
<1> DEFINE n == Len(pairs) + 1
<1>1. /\ DOMAIN pairs' = DOMAIN pairs \cup {n}
      /\ n \notin {0} \cup DOMAIN pairs
      /\ \A i \in DOMAIN pairs : pairs'[i] = pairs[i]
      /\ pairs'[n] = [owner |-> owner, from |-> from]
      /\ job' = [job EXCEPT ![c] = Ended("answered", n)] /\ n \in 0..MaxPairs
  BY <1>0, Zenon
<1> HIDE DEF n
<1>2. job'[c].at = "answered" /\ \A d \in Clients \ {c} : job'[d] = job[d]
  BY <1>1, EndType DEF Settled
<1>3. \A p : Traded(p)' <=> Traded(p) \/ p = from
  BY <1>1 DEF Traded
<1>4. ~Traded(n) /\ n # from
  BY <1>1 DEF Traded, TypeInv, StateOK
<1>5. TradesRevoke'
  <2>1. ASSUME NEW p \in DOMAIN pairs' \ excused, Traded(p)' PROVE Refresher(p) \in revoked
    <3>1. CASE p = from
      <4>1. p # 0
        BY <3>1, <1>1, IssuedTokens DEF TypeInv
      <4> QED BY <3>1, <4>1
    <3>2. CASE p # from
      <4>1. Traded(p) /\ p \in DOMAIN pairs
        BY <1>1, <1>3, <1>4, <2>1, <3>2
      <4> QED BY <2>1, <4>1 DEF TradesInv, TradesRevoke
    <3> QED BY <3>1, <3>2
  <2>2. UNCHANGED <<revoked, excused>>
    OBVIOUS
  <2> QED BY <2>1, <2>2, Zenon DEF TradesRevoke, Refresher
<1>6. ASSUME NEW d \in Clients PROVE Alone(d)'
  <2>1. SUFFICES ASSUME d # c, job[d].at \in Trading, job[d].token.pair \notin excused
                 PROVE  Alone(d)'
    BY <1>2 DEF Alone, Trading
  <2>2. job[d].token \in Issued /\ job[d].token.type = "refresh"
    BY <2>1 DEF TypeInv, JobsOK, Carries
  <2>3. job[d].token = Refresher(job[d].token.pair) /\ job[d].token.pair \in DOMAIN pairs
    BY <2>2 DEF Issued, Refresher
  <2>4. job[d].token.pair # from
    <3>1. job[d].token.pair # 0
      BY <2>3, IssuedTokens DEF TypeInv
    <3>2. CASE from # 0 /\ from \notin excused
      BY <2>1, <2>3, <3>2, Zenon
    <3> QED BY <2>1, <3>1, <3>2
  <2>5. /\ ~Traded(job[d].token.pair)
        /\ \A x \in Clients \ {d} : job[x].at \in Trading => job[x].token # job[d].token
    BY <2>1 DEF TradesInv, Alone
  <2>6. \A x \in Clients \ {d} : job'[x].at \in Trading => job'[x].token # job'[d].token
    BY <1>2, <2>1, <2>5 DEF Trading
  <2> QED BY <1>2, <1>3, <2>1, <2>4, <2>5, <2>6 DEF Alone
<1>7. TradedOnce'
  <2> SUFFICES ASSUME NEW i \in DOMAIN pairs', NEW j \in DOMAIN pairs', i # j,
                      pairs'[i].from = pairs'[j].from, pairs'[i].from # 0
               PROVE  pairs'[i].from \in excused
    BY DEF TradedOnce
  <2>1. CASE i \in DOMAIN pairs /\ j \in DOMAIN pairs
    BY <1>1, <2>1 DEF TradesInv, TradedOnce
  <2>2. pairs'[n].from = from
    BY <1>1
  <2>3. CASE i = n /\ j \in DOMAIN pairs
    BY <1>1, <2>2, <2>3, Zenon DEF Traded
  <2>4. CASE j = n /\ i \in DOMAIN pairs
    BY <1>1, <2>2, <2>4, Zenon DEF Traded
  <2> QED BY <1>1, <2>1, <2>3, <2>4
<1> QED BY <1>5, <1>6, <1>7 DEF TradesInv

LEMMA TradesInit == TokensInit => TradesInv
<1> SUFFICES ASSUME TokensInit PROVE TradesInv
  OBVIOUS
<1>1. NoJob.at = "none"
  BY TokensAssumption, EndedType DEF NoJob, Settled
<1> QED
  BY <1>1 DEF TokensInit, TradesInv, TradesRevoke, Alone, Trading, TradedOnce, Traded

LEMMA TradesStep ==
    TypeInv /\ RevokedInv /\ TradesInv /\ [ServerNext]_tokenVars => TradesInv'
<1> SUFFICES ASSUME TypeInv, RevokedInv, TradesInv, [ServerNext]_tokenVars
             PROVE  TradesInv'
  OBVIOUS
<1>0. 0 \in 0..MaxPairs /\ StateOK /\ TypeInv /\ TradesInv /\ job \in [Clients -> Job]
  BY TokensAssumption DEF TypeInv, JobsOK
<1>c. \A c \in Clients : Carries(job[c])
  BY DEF TypeInv, JobsOK
<1>q. ASSUME UNCHANGED <<pairs, excused>>, revoked \subseteq revoked',
             \A d \in Clients : Quiet(d)
      PROVE  TradesInv'
  BY <1>0, <1>q, TradesQuiet
<1>s. \A d \in Clients : job'[d] = job[d] => Quiet(d)
  BY DEF Quiet
<1>e. ASSUME NEW c \in Clients, NEW at \in Settled, End(c, at)
      PROVE  \A d \in Clients : Quiet(d)
  BY <1>0, <1>e, EndType DEF End, Settled, Trading, Quiet
<1>m. ASSUME NEW c \in Clients, NEW at \in Working, Move(c, at)
      PROVE /\ job'[c].at = at /\ job'[c].token = job[c].token
            /\ \A d \in Clients \ {c} : job'[d] = job[d]
  BY <1>0, <1>m, MoveType
<1>1. ASSUME NEW c \in Clients, LoginSucceeds(c) PROVE TradesInv'
  <2>1. job[c].user \in Users /\ Answer(c, job[c].user, 0)
    BY <1>1, <1>c DEF LoginSucceeds, At, Carries
  <2> QED BY <1>0, <1>1, <2>1, TradesPair DEF LoginSucceeds
<1>2. ASSUME NEW c \in Clients, LoginRefused(c) PROVE TradesInv'
  BY <1>2, <1>e, <1>q DEF LoginRefused, Settled
<1>3. ASSUME NEW c \in Clients, Authorise(c) PROVE TradesInv'
  <2>1. CASE End(c, "refused") \/ End(c, "answered")
    BY <1>3, <1>e, <1>q, <2>1 DEF Authorise, Settled
  <2>2. CASE Move(c, "authorised")
    <3>1. \A d \in Clients : Quiet(d)
      BY <1>m, <1>s, <2>2 DEF Working, Trading, Quiet
    <3> QED BY <1>3, <1>q, <3>1 DEF Authorise
  <2> QED BY <1>3, <2>1, <2>2, Zenon DEF Authorise
<1>4. ASSUME NEW c \in Clients, Logout(c) PROVE TradesInv'
  <2>1. UNCHANGED <<pairs, excused>> /\ revoked \subseteq revoked' /\ End(c, "answered")
    BY <1>4 DEF Logout
  <2> QED BY <1>e, <1>q, <2>1 DEF Settled
<1>5. ASSUME NEW c \in Clients, DecodeRefresh(c) PROVE TradesInv'
  <2> DEFINE t == job[c].token
             p == t.pair
             shared == \E d \in Clients \ {c} : job[d].token = t /\ job[d].at \in Trading
  <2>1. UNCHANGED <<pairs, expired, revoked, told>>
    BY <1>5 DEF DecodeRefresh
  <2>2. CASE End(c, "refused") /\ UNCHANGED excused
    BY <1>e, <1>q, <2>1, <2>2 DEF Settled
  <2>3. CASE /\ Valid(t, "refresh") /\ Move(c, "decoded")
             /\ excused' = IF shared THEN excused \cup {p} ELSE excused
    <3>1. /\ job'[c].at = "decoded" /\ job'[c].token = t
          /\ \A d \in Clients \ {c} : job'[d] = job[d]
      BY <1>m, <2>3 DEF Working
    <3>2. t \in Issued /\ t.type = "refresh" /\ t \notin revoked
      BY <1>5, <1>c, <2>3 DEF DecodeRefresh, At, Valid, Carries, NoToken
    <3>3. t = Refresher(p) /\ p \in DOMAIN pairs
      BY <3>2 DEF Issued, Refresher
    <3>4. excused \subseteq excused' /\ (p \notin excused' => ~shared)
      BY <2>3
    <3> HIDE DEF t, p
    <3>5. TradesRevoke' /\ TradedOnce'
      BY <2>1, <3>4 DEF TradesInv, TradesRevoke, TradedOnce, Traded
    <3>6. p \notin excused => ~Traded(p)
      BY <3>2, <3>3 DEF TradesInv, TradesRevoke
    <3>7. Alone(c)'
      BY <2>1, <3>1, <3>4, <3>6, Zenon DEF Alone, Traded, t, p
    <3>8. ASSUME NEW d \in Clients, d # c PROVE Alone(d)'
      <4>1. SUFFICES ASSUME job[d].at \in Trading, job[d].token.pair \notin excused'
                     PROVE  Alone(d)'
        BY <3>1, <3>8 DEF Alone
      <4>2. job[d].token.pair \notin excused /\ job'[d] = job[d]
        BY <3>1, <3>4, <3>8, <4>1
      <4>3. /\ ~Traded(job[d].token.pair)
            /\ \A x \in Clients \ {d} : job[x].at \in Trading => job[x].token # job[d].token
        BY <4>1, <4>2 DEF TradesInv, Alone
      <4>4. job[d].token # t
        BY <3>4, <3>8, <4>1 DEF t, p
      <4>5. \A x \in Clients \ {d} : job'[x].at \in Trading => job'[x].token # job[d].token
        BY <3>1, <4>3, <4>4
      <4> QED BY <2>1, <4>2, <4>3, <4>5, Zenon DEF Alone, Traded
    <3> QED BY <3>5, <3>7, <3>8, Zenon DEF TradesInv
  <2> QED BY <1>5, <2>2, <2>3, Zenon DEF DecodeRefresh, Trading
<1>6. ASSUME NEW c \in Clients, RotateRefresh(c) PROVE TradesInv'
  <2>1. /\ job'[c].token = job[c].token /\ job[c].at = "decoded"
        /\ \A d \in Clients \ {c} : job'[d] = job[d]
    BY <1>6, <1>m DEF RotateRefresh, Working, At
  <2>2. \A d \in Clients : Quiet(d)
    BY <2>1 DEF Trading, Quiet
  <2> QED BY <1>6, <1>q, <2>2 DEF RotateRefresh
<1>7. ASSUME NEW c \in Clients, IssueRefreshed(c) PROVE TradesInv'
  <2> DEFINE t == job[c].token
             p == t.pair
  <2>1. t \in Issued /\ t \in revoked /\ t.type = "refresh" /\ job[c].at \in Trading
    BY <1>c, <1>7 DEF IssueRefreshed, At, Carries, Trading, RevokedInv
  <2>2. p \in DOMAIN pairs /\ t = Refresher(p)
    BY <2>1 DEF Issued, Refresher
  <2>3. pairs[p].owner \in Users
    BY <1>0, <2>2, OwnerType
  <2>4. Answer(c, pairs[p].owner, p) /\ UNCHANGED <<revoked, excused>>
    BY <1>7 DEF IssueRefreshed
  <2>5. p \notin excused =>
          /\ ~Traded(p)
          /\ \A d \in Clients \ {c} : job[d].at \in Trading => job[d].token # t
    BY <2>1, Zenon DEF TradesInv, Alone
  <2> HIDE DEF t, p
  <2> QED BY <1>0, <2>1, <2>2, <2>3, <2>4, <2>5, TradesPair
<1>8. ASSUME NEW c \in Clients, Lose(c) PROVE TradesInv'
  BY <1>8, <1>e, <1>q DEF Lose, Settled
<1>9. ASSUME NEW c \in Clients, Ask(c) PROVE TradesInv'
  <2>1. PICK q \in Question : job' = [job EXCEPT ![c] = q]
    BY <1>9, Zenon DEF Ask
  <2>2. \A d \in Clients : Quiet(d)
    BY <1>0, <2>1, QuestionType DEF Trading, Quiet
  <2> QED BY <1>9, <1>q, <2>2 DEF Ask
<1>10. ASSUME NEW type \in Types, Expire(type) PROVE TradesInv'
  BY <1>10, <1>q, <1>s DEF Expire
<1>11. ASSUME Restart PROVE TradesInv'
  <2>1. excused' = DOMAIN pairs /\ UNCHANGED pairs
    BY <1>11 DEF Restart
  <2>2. ASSUME NEW d \in Clients PROVE job'[d].at \notin Trading
    <3>1. Ended("lost", 0).at = "lost"
      BY <1>0, EndedType DEF Settled
    <3>2. job'[d] = IF job[d].at \in Working THEN Ended("lost", 0) ELSE job[d]
      BY <1>11 DEF Restart
    <3> QED BY <3>1, <3>2 DEF Working, Trading
  <2>3. \A i \in DOMAIN pairs : pairs[i].from \in {0} \cup DOMAIN pairs
    BY <1>0 DEF StateOK
  <2>4. TradedOnce'
    BY <2>1, <2>3 DEF TradedOnce
  <2> QED BY <2>1, <2>2, <2>4 DEF TradesInv, TradesRevoke, Alone
<1>12. ASSUME ClientsAct PROVE TradesInv'
  <2>1. \A d \in Clients : job'[d] = job[d] \/ job'[d] \in Question \cup {NoJob}
    BY <1>12, Zenon DEF ClientsAct
  <2>2. NoJob.at \notin Trading
    BY <1>0, EndedType DEF NoJob, Settled, Trading
  <2>3. \A q \in Question : q.at \notin Trading
    BY <1>0, QuestionType DEF Trading
  <2>4. \A d \in Clients : Quiet(d)
    BY <1>s, <2>1, <2>2, <2>3 DEF Quiet
  <2> QED BY <1>12, <1>q, <2>4 DEF ClientsAct
<1>13. ASSUME UNCHANGED tokenVars PROVE TradesInv'
  BY <1>13, <1>q, <1>s DEF tokenVars
<1> QED
  BY <1>1, <1>2, <1>3, <1>4, <1>5, <1>6, <1>7, <1>8, <1>9, <1>10, <1>11, <1>12, <1>13,
     Zenon DEF ServerNext, TokensNext, Serve

\* A refresh token is traded for at most one pair, but for the two excuses
\* the check-then-add of refresh and the memory-only blacklist leave.
THEOREM TradesAreSingle == ServerSpec => []TradedOnce
<1>1. TradesInv => TradedOnce
  BY DEF TradesInv
<1> QED
  BY <1>1, TypeInit, TypeStep, RevokedInit, RevokedStep, TradesInit, TradesStep, PTL
     DEF ServerSpec, ServerNext
=============================================================================
