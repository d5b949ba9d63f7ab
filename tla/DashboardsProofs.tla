-------------------------- MODULE DashboardsProofs --------------------------
(***************************************************************************)
(* What Dashboards.tla promises for every number of readers, pupils and    *)
(* attempts: an entry is evicted only once it has expired, a dashboard     *)
(* adds up, and a look-up does not go back.                                *)
(*                                                                         *)
(* The last is the one that needs an argument.  Whatever is Known of a     *)
(* pupil (cached, shown, or held by a reader) was read from tables that    *)
(* only grow; an aggregation that is alone past its first query began      *)
(* after all of it was known, and so ends with at least as much.           *)
(***************************************************************************)
EXTENDS Dashboards, SequenceTheorems, TLAPS

Points == {"idle", "get", "check", "evict"} \cup Aggregating

TypeInv ==
    /\ attempts \subseteq Attempts /\ rewards \subseteq Attempts
    /\ clock \in Nat
    /\ cache \in [Pupils -> Entry]
    /\ pc \in [Readers -> Points]
    /\ todo \in [Readers -> Seq(Pupils)]
    /\ entry \in [Readers -> Entry]
    /\ partial \in [Readers -> Dashboard]
    /\ expires \in [Readers -> Nat]
    /\ shown \in [Pupils -> Dashboard]
    /\ since \in [Readers -> Dashboard]
    /\ overlapped \subseteq Pupils
    /\ \A r \in Readers : pc[r] # "idle" => todo[r] # <<>>

\* The other readers in a step of r.
Apart(r) ==
    \A d \in Readers \ {r} :
        /\ pc'[d] = pc[d] /\ todo'[d] = todo[d] /\ entry'[d] = entry[d]
        /\ partial'[d] = partial[d] /\ since'[d] = since[d]

-----------------------------------------------------------------------------
(* Types *)

LEMMA Data ==
    /\ Empty \in Dashboard /\ NoEntry \in Entry /\ NoEntry.data = Empty
    /\ \A d \in Dashboard : /\ d.points \subseteq Attempts /\ d.subjects \subseteq Attempts
                            /\ d.global \subseteq Attempts
    /\ \A e \in Entry : e.data \in Dashboard /\ e.until \in Nat
  BY DEF Empty, NoEntry, Dashboard, Entry

LEMMA PupilType ==
    ASSUME TypeInv, NEW r \in Readers, pc[r] # "idle"
    PROVE  Pupil(r) \in Pupils /\ Tail(todo[r]) \in Seq(Pupils)
<1>1. todo[r] \in Seq(Pupils) /\ todo[r] # <<>>
  BY DEF TypeInv
<1> QED BY <1>1, HeadTailProperties DEF Pupil

LEMMA NewPoints ==
    ASSUME NEW d \in Dashboard, NEW s, s \subseteq Attempts
    PROVE  /\ [d EXCEPT !.points = s] \in Dashboard
           /\ [d EXCEPT !.points = s].points = s
  BY DEF Dashboard

LEMMA NewSubjects ==
    ASSUME NEW d \in Dashboard, NEW s, s \subseteq Attempts
    PROVE  /\ [d EXCEPT !.subjects = s] \in Dashboard
           /\ [d EXCEPT !.subjects = s].points = d.points
           /\ [d EXCEPT !.subjects = s].subjects = s
  BY DEF Dashboard

LEMMA NewGlobal ==
    ASSUME NEW d \in Dashboard, NEW s, s \subseteq Attempts
    PROVE  /\ [d EXCEPT !.global = s] \in Dashboard
           /\ [d EXCEPT !.global = s].points = d.points
           /\ [d EXCEPT !.global = s].subjects = d.subjects
           /\ [d EXCEPT !.global = s].global = s
  BY DEF Dashboard

LEMMA OfType ==
    ASSUME TypeInv, NEW p
    PROVE  Of(rewards, p) \subseteq Attempts /\ Of(attempts, p) \subseteq Attempts
  BY DEF TypeInv, Of

\* A dashboard is obtained.
LEMMA ObtainEffect ==
    ASSUME TypeInv, NEW r \in Readers, pc[r] # "idle", NEW data \in Dashboard,
           Obtain(r, data), UNCHANGED <<rows, clock, overlapped>>,
           cache' \in [Pupils -> Entry]
    PROVE  /\ TypeInv' /\ Apart(r) /\ pc'[r] \in {"idle", "get"}
           /\ shown' = [shown EXCEPT ![Pupil(r)] = data]
<1>1. Pupil(r) \in Pupils /\ Tail(todo[r]) \in Seq(Pupils)
  BY PupilType
<1>2. /\ todo' \in [Readers -> Seq(Pupils)] /\ entry' \in [Readers -> Entry]
      /\ partial' \in [Readers -> Dashboard] /\ expires' \in [Readers -> Nat]
      /\ since' \in [Readers -> Dashboard] /\ shown' \in [Pupils -> Dashboard]
  BY <1>1, Data DEF Obtain, TypeInv
<1>3. /\ todo'[r] = Tail(todo[r])
      /\ pc' \in [Readers -> Points]
      /\ pc'[r] = IF Tail(todo[r]) = <<>> THEN "idle" ELSE "get"
      /\ \A d \in Readers \ {r} : pc'[d] = pc[d] /\ todo'[d] = todo[d]
  <2> DEFINE rest == Tail(todo[r])
  <2>1. todo' = [todo EXCEPT ![r] = rest]
        /\ pc' = [pc EXCEPT ![r] = IF rest = <<>> THEN "idle" ELSE "get"]
    BY DEF Obtain, Go
  <2> HIDE DEF rest
  <2>2. todo \in [Readers -> Seq(Pupils)] /\ pc \in [Readers -> Points]
    BY DEF TypeInv
  <2>3. \A to : pc' = [pc EXCEPT ![r] = to] => pc'[r] = to /\ \A d \in Readers \ {r} : pc'[d] = pc[d]
    BY <2>2
  <2>4. todo'[r] = rest /\ \A d \in Readers \ {r} : todo'[d] = todo[d]
    BY <2>1, <2>2
  <2>5. ASSUME NEW to \in Points, pc' = [pc EXCEPT ![r] = to]
        PROVE  pc' \in [Readers -> Points]
    BY <2>2, <2>5
  <2>6. (IF rest = <<>> THEN "idle" ELSE "get") \in Points
    BY Zenon DEF Points
  <2> QED BY <2>1, <2>3, <2>4, <2>5, <2>6, Zenon DEF rest
<1>4. \A d \in Readers : pc'[d] # "idle" => todo'[d] # <<>>
  BY <1>3, Zenon DEF TypeInv
<1>5. TypeInv'
  BY <1>2, <1>3, <1>4, Zenon DEF TypeInv, rows
<1>6. Apart(r)
  BY <1>3 DEF Apart, Obtain, TypeInv
<1>7. pc'[r] \in {"idle", "get"}
  BY <1>3, Zenon
<1> QED BY <1>5, <1>6, <1>7 DEF Obtain

\* A reader goes on with its look-up.
LEMMA GoType ==
    ASSUME TypeInv, NEW r \in Readers, NEW to \in Points \ {"idle"}, Go(r, to),
           pc[r] # "idle",
           UNCHANGED rows, UNCHANGED clock, UNCHANGED todo, UNCHANGED shown,
           cache' \in [Pupils -> Entry], entry' \in [Readers -> Entry],
           partial' \in [Readers -> Dashboard], since' \in [Readers -> Dashboard],
           expires' \in [Readers -> Nat], overlapped' \subseteq Pupils,
           \A x \in Readers \ {r} :
              entry'[x] = entry[x] /\ partial'[x] = partial[x] /\ since'[x] = since[x]
    PROVE  TypeInv' /\ Apart(r) /\ pc'[r] = to
<1>1. pc \in [Readers -> Points]
  BY DEF TypeInv
<1>2. /\ pc' \in [Readers -> Points] /\ pc'[r] = to
      /\ \A x \in Readers \ {r} : pc'[x] = pc[x]
  BY <1>1 DEF Go
<1>3. \A x \in Readers : pc'[x] # "idle" => todo'[x] # <<>>
  BY <1>2, Zenon DEF TypeInv
<1>4. TypeInv'
  BY <1>2, <1>3, Zenon DEF TypeInv, rows
<1> QED BY <1>2, <1>4 DEF Apart

\* The same, when the reader's data stay as they are.
LEMMA GoOnType ==
    ASSUME TypeInv, NEW r \in Readers, NEW to \in Points \ {"idle"}, Go(r, to),
           pc[r] # "idle",
           UNCHANGED <<rows, clock, todo, entry, partial, since, shown, overlapped>>,
           cache' \in [Pupils -> Entry], expires' \in [Readers -> Nat]
    PROVE  TypeInv' /\ Apart(r) /\ pc'[r] = to
<1>1. /\ entry' \in [Readers -> Entry] /\ partial' \in [Readers -> Dashboard]
      /\ since' \in [Readers -> Dashboard] /\ overlapped' \subseteq Pupils
      /\ UNCHANGED rows /\ UNCHANGED clock /\ UNCHANGED todo /\ UNCHANGED shown
      /\ \A x \in Readers \ {r} :
            entry'[x] = entry[x] /\ partial'[x] = partial[x] /\ since'[x] = since[x]
  BY DEF TypeInv
<1> QED BY <1>1, GoType

LEMMA AskType ==
    ASSUME TypeInv, NEW r \in Readers, Ask(r)
    PROVE  TypeInv' /\ Apart(r) /\ pc'[r] = "get"
<1>1. PICK list \in Lists \ {<<>>} : todo' = [todo EXCEPT ![r] = list]
  BY Zenon DEF Ask
<1>2. list \in Seq(Pupils) /\ list # <<>>
  BY DashboardsAssumption, Zenon
<1>3. /\ pc \in [Readers -> Points] /\ todo \in [Readers -> Seq(Pupils)]
      /\ pc' = [pc EXCEPT ![r] = "get"]
      /\ UNCHANGED <<rows, clock, cache, entry, partial, expires, since, shown, overlapped>>
  BY DEF TypeInv, Ask, Go
<1> HIDE <1>2
<1>4. /\ pc' \in [Readers -> Points] /\ pc'[r] = "get" /\ todo'[r] = list
      /\ \A d \in Readers \ {r} : pc'[d] = pc[d] /\ todo'[d] = todo[d]
  BY <1>1, <1>3 DEF Points
<1>5. todo' \in [Readers -> Seq(Pupils)]
  <2>1. ASSUME NEW S, NEW f \in [Readers -> S], NEW x \in S
        PROVE  [f EXCEPT ![r] = x] \in [Readers -> S]
    OBVIOUS
  <2> QED BY <1>1, <1>2, <1>3, <2>1, Zenon
<1>6. \A d \in Readers : pc'[d] # "idle" => todo'[d] # <<>>
  BY <1>2, <1>4, Zenon DEF TypeInv
<1>7. TypeInv'
  BY <1>3, <1>4, <1>5, <1>6, Zenon DEF TypeInv, rows
<1> QED BY <1>3, <1>4, <1>7 DEF Apart

LEMMA QueryType ==
    ASSUME TypeInv, NEW r \in Readers,
           ReadPoints(r) \/ ReadSubjects(r) \/ ReadGlobal(r)
    PROVE  /\ TypeInv' /\ Apart(r)
           /\ UNCHANGED <<rows, clock, cache, todo, entry, since, shown>>
           /\ ReadPoints(r) => /\ pc[r] = "points" /\ pc'[r] = "subjects"
                               /\ partial'[r].points = Of(rewards, Pupil(r))
           /\ ReadSubjects(r) => /\ pc[r] = "subjects" /\ pc'[r] = "global"
                                 /\ partial'[r].points = partial[r].points
                                 /\ partial'[r].subjects = Of(attempts, Pupil(r))
           /\ ReadGlobal(r) => /\ pc[r] = "global" /\ pc'[r] = "stamp"
                               /\ partial'[r].points = partial[r].points
                               /\ partial'[r].subjects = partial[r].subjects
                               /\ partial'[r].global = Of(attempts, Pupil(r))
<1>1. /\ partial[r] \in Dashboard /\ cache \in [Pupils -> Entry]
      /\ expires \in [Readers -> Nat] /\ overlapped \subseteq Pupils
      /\ entry[r] \in Entry /\ entry = [entry EXCEPT ![r] = entry[r]]
      /\ since[r] \in Dashboard /\ since = [since EXCEPT ![r] = since[r]]
  BY DEF TypeInv
<1>2. Of(rewards, Pupil(r)) \subseteq Attempts /\ Of(attempts, Pupil(r)) \subseteq Attempts
  BY OfType
<1>q. ASSUME NEW at, at # "idle", NEW to \in Points \ {"idle"}, NEW d \in Dashboard,
             Query(r, at, to, d), overlapped' \subseteq Pupils
      PROVE  /\ TypeInv' /\ Apart(r) /\ pc[r] = at /\ pc'[r] = to /\ partial'[r] = d
             /\ UNCHANGED <<rows, clock, cache, todo, entry, since, shown>>
  <2>1. /\ pc[r] = at /\ Go(r, to) /\ partial' = [partial EXCEPT ![r] = d]
        /\ UNCHANGED <<rows, clock, cache, todo, entry, expires, since, shown>>
    BY <1>q DEF Query
  <2>2. /\ partial' \in [Readers -> Dashboard] /\ partial'[r] = d
        /\ \A x \in Readers \ {r} : partial'[x] = partial[x]
    BY <2>1, <1>q DEF TypeInv
  <2>3. /\ cache' \in [Pupils -> Entry] /\ entry' \in [Readers -> Entry]
        /\ since' \in [Readers -> Dashboard] /\ expires' \in [Readers -> Nat]
        /\ UNCHANGED rows /\ UNCHANGED clock /\ UNCHANGED todo /\ UNCHANGED shown
        /\ UNCHANGED entry /\ UNCHANGED since
    BY <2>1 DEF TypeInv
  <2>4. TypeInv' /\ Apart(r) /\ pc'[r] = to
    BY <1>q, <2>1, <2>2, <2>3, GoType
  <2> QED BY <2>1, <2>2, <2>4
<1>3. ASSUME ReadPoints(r)
      PROVE  /\ TypeInv' /\ Apart(r) /\ pc[r] = "points" /\ pc'[r] = "subjects"
             /\ partial'[r].points = Of(rewards, Pupil(r))
             /\ UNCHANGED <<rows, clock, cache, todo, entry, since, shown>>
  <2> DEFINE d == [partial[r] EXCEPT !.points = Of(rewards, Pupil(r))]
  <2>1. overlapped' \subseteq Pupils
    BY <1>1, <1>3, PupilType DEF ReadPoints, Query
  <2>2. Query(r, "points", "subjects", d)
    BY <1>3, Zenon DEF ReadPoints
  <2>3. d \in Dashboard /\ d.points = Of(rewards, Pupil(r))
    BY <1>1, <1>2, NewPoints, Zenon
  <2>4. "subjects" \in Points \ {"idle"} /\ "points" # "idle"
    BY DEF Points, Aggregating
  <2> HIDE DEF d
  <2> QED BY <2>1, <2>2, <2>3, <2>4, <1>q
<1>4. ASSUME ReadSubjects(r)
      PROVE  /\ TypeInv' /\ Apart(r) /\ pc[r] = "subjects" /\ pc'[r] = "global"
             /\ partial'[r].points = partial[r].points
             /\ partial'[r].subjects = Of(attempts, Pupil(r))
             /\ UNCHANGED <<rows, clock, cache, todo, entry, since, shown>>
  <2> DEFINE d == [partial[r] EXCEPT !.subjects = Of(attempts, Pupil(r))]
  <2>1. Query(r, "subjects", "global", d) /\ overlapped' \subseteq Pupils
    BY <1>1, <1>4, Zenon DEF ReadSubjects
  <2>2. d \in Dashboard /\ d.points = partial[r].points /\ d.subjects = Of(attempts, Pupil(r))
    BY <1>1, <1>2, NewSubjects, Zenon
  <2>3. "global" \in Points \ {"idle"} /\ "subjects" # "idle"
    BY DEF Points, Aggregating
  <2> HIDE DEF d
  <2> QED BY <2>1, <2>2, <2>3, <1>q
<1>5. ASSUME ReadGlobal(r)
      PROVE  /\ TypeInv' /\ Apart(r) /\ pc[r] = "global" /\ pc'[r] = "stamp"
             /\ partial'[r].points = partial[r].points
             /\ partial'[r].subjects = partial[r].subjects
             /\ partial'[r].global = Of(attempts, Pupil(r))
             /\ UNCHANGED <<rows, clock, cache, todo, entry, since, shown>>
  <2> DEFINE d == [partial[r] EXCEPT !.global = Of(attempts, Pupil(r))]
  <2>1. Query(r, "global", "stamp", d) /\ overlapped' \subseteq Pupils
    BY <1>1, <1>5, Zenon DEF ReadGlobal
  <2>2. /\ d \in Dashboard /\ d.points = partial[r].points
        /\ d.subjects = partial[r].subjects /\ d.global = Of(attempts, Pupil(r))
    BY <1>1, <1>2, NewGlobal, Zenon
  <2>3. "stamp" \in Points \ {"idle"} /\ "global" # "idle"
    BY DEF Points, Aggregating
  <2> HIDE DEF d
  <2> QED BY <2>1, <2>2, <2>3, <1>q
<1> QED BY <1>3, <1>4, <1>5, Zenon

\* Steps of the look-up between the queries.
LEMMA LookUpType ==
    ASSUME TypeInv, NEW r \in Readers, Get(r) \/ Expired(r) \/ Evict(r) \/ Stamp(r)
    PROVE  TypeInv' /\ Apart(r)
<1>1. /\ cache \in [Pupils -> Entry] /\ entry \in [Readers -> Entry]
      /\ since \in [Readers -> Dashboard] /\ partial \in [Readers -> Dashboard]
      /\ shown \in [Pupils -> Dashboard] /\ expires \in [Readers -> Nat]
      /\ overlapped \subseteq Pupils /\ clock \in Nat
  BY DEF TypeInv
<1>2. CASE Get(r)
  <2>1. Pupil(r) \in Pupils /\ pc[r] # "idle"
    BY <1>2, PupilType DEF Get
  <2>2. /\ entry' = [entry EXCEPT ![r] = cache[Pupil(r)]]
        /\ since' = [since EXCEPT ![r] = shown[Pupil(r)]]
        /\ UNCHANGED <<rows, clock, cache, todo, partial, expires, shown, overlapped>>
    BY <1>2 DEF Get
  <2>3. PICK to \in {"check", "points"} : Go(r, to)
    BY <1>2, Zenon DEF Get
  <2>4. /\ cache' \in [Pupils -> Entry] /\ entry' \in [Readers -> Entry]
        /\ partial' \in [Readers -> Dashboard] /\ since' \in [Readers -> Dashboard]
        /\ expires' \in [Readers -> Nat] /\ overlapped' \subseteq Pupils
        /\ UNCHANGED rows /\ UNCHANGED clock /\ UNCHANGED todo /\ UNCHANGED shown
        /\ \A x \in Readers \ {r} :
              entry'[x] = entry[x] /\ partial'[x] = partial[x] /\ since'[x] = since[x]
    BY <1>1, <2>1, <2>2
  <2>5. to \in Points \ {"idle"}
    BY DEF Points, Aggregating
  <2> QED BY <2>1, <2>3, <2>4, <2>5, GoType
<1>3. CASE Expired(r)
  BY <1>1, <1>3, GoOnType DEF Expired, Points
<1>4. CASE Evict(r)
  <2>1. cache' \in [Pupils -> Entry]
    BY <1>1, <1>4, Data DEF Evict
  <2> QED BY <1>1, <1>4, <2>1, GoOnType DEF Evict, Points, Aggregating
<1>5. CASE Stamp(r)
  <2>1. expires' \in [Readers -> Nat]
    BY <1>1, <1>5, DashboardsAssumption DEF Stamp
  <2> QED BY <1>1, <1>5, <2>1, GoOnType DEF Stamp, Points, Aggregating
<1> QED BY <1>2, <1>3, <1>4, <1>5

LEMMA HitType ==
    ASSUME TypeInv, NEW r \in Readers, Hit(r)
    PROVE  /\ TypeInv' /\ Apart(r) /\ pc'[r] \in {"idle", "get"}
           /\ shown' = [shown EXCEPT ![Pupil(r)] = entry[r].data]
<1>1. /\ cache \in [Pupils -> Entry] /\ entry[r].data \in Dashboard /\ pc[r] # "idle"
      /\ Obtain(r, entry[r].data) /\ UNCHANGED <<rows, clock, cache, overlapped>>
  BY Data DEF TypeInv, Hit
<1> QED BY <1>1, ObtainEffect

LEMMA SetType ==
    ASSUME TypeInv, NEW r \in Readers, Set(r)
    PROVE  /\ TypeInv' /\ Apart(r) /\ pc'[r] \in {"idle", "get"}
           /\ shown' = [shown EXCEPT ![Pupil(r)] = partial[r]]
           /\ \E e : /\ cache' = [cache EXCEPT ![Pupil(r)] = e]
                    /\ e.cached /\ e.data = partial[r]
<1> DEFINE e == [cached |-> TRUE, until |-> expires[r], data |-> partial[r]]
<1>1. /\ cache \in [Pupils -> Entry] /\ partial[r] \in Dashboard /\ expires[r] \in Nat
      /\ pc[r] # "idle" /\ Obtain(r, partial[r]) /\ UNCHANGED <<rows, clock, overlapped>>
      /\ cache' = [cache EXCEPT ![Pupil(r)] = e]
  BY DEF TypeInv, Set
<1>2. e \in Entry /\ e.cached /\ e.data = partial[r]
  BY <1>1 DEF Entry
<1> HIDE DEF e
<1>3. cache' \in [Pupils -> Entry]
  BY <1>1, <1>2
<1>4. /\ TypeInv' /\ Apart(r) /\ pc'[r] \in {"idle", "get"}
      /\ shown' = [shown EXCEPT ![Pupil(r)] = partial[r]]
  BY <1>1, <1>3, ObtainEffect
<1> QED BY <1>1, <1>2, <1>4, Zenon

LEMMA FailType ==
    ASSUME TypeInv, NEW r \in Readers, Fail(r)
    PROVE  TypeInv' /\ Apart(r) /\ pc'[r] = "idle"
<1>1. /\ pc \in [Readers -> Points] /\ todo \in [Readers -> Seq(Pupils)]
      /\ entry \in [Readers -> Entry] /\ partial \in [Readers -> Dashboard]
      /\ since \in [Readers -> Dashboard]
  BY DEF TypeInv
<1>2. /\ pc' = [pc EXCEPT ![r] = "idle"] /\ todo' = [todo EXCEPT ![r] = <<>>]
      /\ entry' = [entry EXCEPT ![r] = NoEntry]
      /\ partial' = [partial EXCEPT ![r] = Empty] /\ since' = [since EXCEPT ![r] = Empty]
      /\ UNCHANGED <<rows, clock, cache, expires, shown, overlapped>>
  BY DEF Fail, Go
<1>3. ASSUME NEW S, NEW f \in [Readers -> S], NEW x \in S
      PROVE  /\ [f EXCEPT ![r] = x] \in [Readers -> S] /\ [f EXCEPT ![r] = x][r] = x
             /\ \A d \in Readers \ {r} : [f EXCEPT ![r] = x][d] = f[d]
  OBVIOUS
<1>4. <<>> \in Seq(Pupils) /\ "idle" \in Points
  BY DEF Points
<1>5. /\ pc' \in [Readers -> Points] /\ pc'[r] = "idle"
      /\ \A d \in Readers \ {r} : pc'[d] = pc[d]
  BY <1>1, <1>2, <1>3, <1>4, Zenon
<1>6. /\ todo' \in [Readers -> Seq(Pupils)]
      /\ \A d \in Readers \ {r} : todo'[d] = todo[d]
  BY <1>1, <1>2, <1>3, <1>4, Zenon
<1>7. /\ entry' \in [Readers -> Entry] /\ partial' \in [Readers -> Dashboard]
      /\ since' \in [Readers -> Dashboard]
      /\ \A d \in Readers \ {r} :
            entry'[d] = entry[d] /\ partial'[d] = partial[d] /\ since'[d] = since[d]
  BY <1>1, <1>2, Data
<1>8. \A d \in Readers : pc'[d] # "idle" => todo'[d] # <<>>
  BY <1>5, <1>6, Zenon DEF TypeInv
<1>9. TypeInv'
  BY <1>2, <1>5, <1>6, <1>7, <1>8, Zenon DEF TypeInv, rows
<1> QED BY <1>5, <1>6, <1>7, <1>9 DEF Apart

\* A commit or a tick: the readers stay where they are.
Outside == (\E a \in Attempts : CommitAttempt(a) \/ CommitReward(a)) \/ Tick

LEMMA OutsideType ==
    ASSUME TypeInv, Outside
    PROVE  /\ TypeInv' /\ UNCHANGED <<cache, reader, shown, overlapped>>
           /\ attempts \subseteq attempts' /\ rewards \subseteq rewards'
           /\ clock <= clock'
<1>1. UNCHANGED <<cache, reader, shown, overlapped>>
  BY DEF Outside, CommitAttempt, CommitReward, Tick
<1>2. /\ attempts' \subseteq Attempts /\ rewards' \subseteq Attempts /\ clock' \in Nat
      /\ attempts \subseteq attempts' /\ rewards \subseteq rewards' /\ clock <= clock'
  BY DEF TypeInv, Outside, CommitAttempt, CommitReward, Tick, rows
<1>3. TypeInv'
  BY <1>1, <1>2, Zenon DEF TypeInv, reader
<1> QED BY <1>1, <1>2, <1>3

LEMMA TypeStep == TypeInv /\ [Next]_vars => TypeInv'
<1> SUFFICES ASSUME TypeInv, [Next]_vars PROVE TypeInv'
  OBVIOUS
<1>1. CASE UNCHANGED vars
  BY <1>1, Zenon DEF vars, rows, reader, TypeInv
<1>2. ASSUME NEW r \in Readers, LookUp(r) PROVE TypeInv'
  BY <1>2, AskType, QueryType, LookUpType, HitType, SetType, FailType, Zenon DEF LookUp
<1> QED BY <1>1, <1>2, OutsideType, Zenon DEF Next, Outside

LEMMA TypeInit == Init => TypeInv
<1> SUFFICES ASSUME Init PROVE TypeInv
  OBVIOUS
<1>1. <<>> \in Seq(Pupils)
  OBVIOUS
<1>2. todo \in [Readers -> Seq(Pupils)] /\ pc \in [Readers -> Points]
      /\ \A r \in Readers : pc[r] # "idle" => todo[r] # <<>>
  BY <1>1 DEF Init, Points
<1>3. /\ cache \in [Pupils -> Entry] /\ entry \in [Readers -> Entry]
      /\ partial \in [Readers -> Dashboard] /\ shown \in [Pupils -> Dashboard]
      /\ since \in [Readers -> Dashboard] /\ expires \in [Readers -> Nat]
      /\ attempts \subseteq Attempts /\ rewards \subseteq Attempts
      /\ clock \in Nat /\ overlapped \subseteq Pupils
  BY Data DEF Init
<1> QED BY <1>2, <1>3, Zenon DEF TypeInv

-----------------------------------------------------------------------------
(* Fresh entries stay *)

\* A reader about to evict has seen its entry expire.
EvictInv == \A r \in Readers : pc[r] = "evict" => clock > entry[r].until

LEMMA EvictStep == TypeInv /\ EvictInv /\ [Next]_vars => EvictInv'
<1> SUFFICES ASSUME TypeInv, EvictInv, [Next]_vars PROVE EvictInv'
  OBVIOUS
<1>0. /\ pc \in [Readers -> Points] /\ entry \in [Readers -> Entry] /\ clock \in Nat
      /\ \A r \in Readers : entry[r].until \in Nat
  BY Data DEF TypeInv
<1>1. ASSUME NEW r \in Readers, Apart(r), UNCHANGED clock,
             pc'[r] # "evict" \/ (pc[r] \in {"check", "evict"} /\ clock > entry'[r].until)
      PROVE  EvictInv'
  BY <1>1 DEF EvictInv, Apart
<1>2. ASSUME NEW r \in Readers, Expired(r) PROVE EvictInv'
  BY <1>0, <1>1, <1>2, LookUpType DEF Expired
<1>3. ASSUME NEW r \in Readers, Hit(r) \/ Set(r) \/ Ask(r) \/ Fail(r) PROVE EvictInv'
  <2>1. Apart(r) /\ pc'[r] # "evict" /\ UNCHANGED clock
    BY <1>3, HitType, SetType, AskType, FailType DEF Hit, Set, Ask, Fail
  <2> QED BY <1>1, <2>1
<1>4. ASSUME NEW r \in Readers, Get(r) \/ Evict(r) \/ Stamp(r) PROVE EvictInv'
  <2>1. PICK to \in {"check", "points", "set"} : Go(r, to) /\ UNCHANGED clock
    BY <1>4, Zenon DEF Get, Evict, Stamp
  <2>2. pc'[r] # "evict"
    BY <1>0, <2>1 DEF Go
  <2> QED BY <1>1, <1>4, <2>1, <2>2, LookUpType
<1>5. ASSUME NEW r \in Readers, ReadPoints(r) \/ ReadSubjects(r) \/ ReadGlobal(r)
      PROVE  EvictInv'
  <2>1. Apart(r) /\ pc'[r] # "evict" /\ UNCHANGED clock
    BY <1>5, QueryType
  <2> QED BY <1>1, <2>1
<1>6. ASSUME Outside PROVE EvictInv'
  <2>1. UNCHANGED pc /\ UNCHANGED entry /\ clock <= clock' /\ clock' \in Nat
    BY <1>6, OutsideType DEF reader, TypeInv
  <2> QED BY <1>0, <2>1 DEF EvictInv
<1>7. CASE UNCHANGED vars
  BY <1>7 DEF vars, reader, EvictInv
<1> QED
  BY <1>2, <1>3, <1>4, <1>5, <1>6, <1>7, Zenon DEF Next, LookUp, Outside

LEMMA FreshStep ==
    ASSUME TypeInv, EvictInv, [Next]_vars, NEW p \in Pupils,
           Cached(p), clock <= cache[p].until
    PROVE  cache'[p].cached
<1>1. CASE UNCHANGED cache
  BY <1>1 DEF Cached
<1>2. ASSUME NEW r \in Readers, Set(r) PROVE cache'[p].cached
  <2>1. PICK e : cache' = [cache EXCEPT ![Pupil(r)] = e] /\ e.cached
    BY <1>2, SetType, Zenon
  <2>2. cache'[p] = e \/ cache'[p] = cache[p]
    BY <2>1 DEF TypeInv
  <2> QED BY <2>1, <2>2, Zenon DEF Cached
<1>3. ASSUME NEW r \in Readers, Evict(r) PROVE cache'[p].cached
  <2>1. clock > entry[r].until /\ clock \in Nat /\ entry[r].until \in Nat
    BY <1>3, Data DEF EvictInv, Evict, TypeInv
  <2>2. ~(p = Pupil(r) /\ cache[Pupil(r)] = entry[r])
    <3>1. SUFFICES ASSUME p = Pupil(r), cache[Pupil(r)] = entry[r] PROVE FALSE
      OBVIOUS
    <3>2. cache[p].until = entry[r].until
      BY <3>1
    <3> QED BY <2>1, <3>2
  <2>3. cache' = cache \/ (cache' = [cache EXCEPT ![Pupil(r)] = NoEntry] /\ p # Pupil(r))
    BY <1>3, <2>2, Zenon DEF Evict
  <2>4. cache'[p] = cache[p]
    BY <2>3 DEF TypeInv
  <2> QED BY <2>4 DEF Cached
<1>4. UNCHANGED cache \/ \E r \in Readers : Set(r) \/ Evict(r)
  BY Zenon DEF Next, LookUp, vars, Ask, Get, Hit, Expired, ReadPoints, ReadSubjects, ReadGlobal,
     Query, Stamp, Fail, CommitAttempt, CommitReward, Tick
<1> QED BY <1>1, <1>2, <1>3, <1>4

\* Whatever the threads do between get_dashboard's look and its eviction, the
\* eviction takes an entry only after its time.
THEOREM FreshEntriesStay == Spec => FreshStays
<1>1. TypeInv /\ EvictInv /\ [Next]_vars =>
        [\A r \in Readers, p \in Pupils :
            pc[r] = "evict" /\ pc'[r] # "evict" /\ Cached(p) /\ clock <= cache[p].until
                => cache'[p].cached]_vars
  BY FreshStep
<1>2. Init => EvictInv
  BY DEF Init, EvictInv
<1> QED BY <1>1, <1>2, TypeInit, TypeStep, EvictStep, PTL DEF Spec, FreshStays

-----------------------------------------------------------------------------
(* Dashboards add up *)

AddsUp(d) == d.points \subseteq d.subjects /\ d.subjects \subseteq d.global

\* The dashboard under way adds up as far as it goes, and would with what is
\* in the tables now.
PartialOK(r) ==
    /\ pc[r] = "subjects" => partial[r].points \subseteq Of(attempts, Pupil(r))
    /\ pc[r] = "global" => /\ partial[r].points \subseteq partial[r].subjects
                           /\ partial[r].subjects \subseteq Of(attempts, Pupil(r))
    /\ pc[r] \in {"stamp", "set"} => AddsUp(partial[r])

AddInv ==
    /\ rewards \subseteq attempts
    /\ \A p \in Pupils : AddsUp(shown[p]) /\ AddsUp(cache[p].data)
    /\ \A r \in Readers : AddsUp(entry[r].data) /\ PartialOK(r)

LEMMA EmptyAddsUp == AddsUp(Empty) /\ AddsUp(NoEntry.data)
  BY Data DEF AddsUp, Empty

LEMMA AddStep == TypeInv /\ AddInv /\ [Next]_vars => AddInv'
<1> SUFFICES ASSUME TypeInv, AddInv, [Next]_vars PROVE AddInv'
  OBVIOUS
<1>0. /\ cache \in [Pupils -> Entry] /\ shown \in [Pupils -> Dashboard]
      /\ entry \in [Readers -> Entry] /\ pc \in [Readers -> Points]
      /\ rewards \subseteq attempts
      /\ \A p \in Pupils : AddsUp(shown[p]) /\ AddsUp(cache[p].data)
      /\ \A r \in Readers : AddsUp(entry[r].data) /\ PartialOK(r)
  BY DEF TypeInv, AddInv
<1>1. ASSUME NEW r \in Readers, Apart(r), UNCHANGED rows,
             \A p \in Pupils : AddsUp(shown'[p]) /\ AddsUp(cache'[p].data),
             AddsUp(entry'[r].data), PartialOK(r)'
      PROVE  AddInv'
  <2>1. \A d \in Readers \ {r} : AddsUp(entry'[d].data) /\ PartialOK(d)'
    BY <1>0, <1>1 DEF Apart, PartialOK, Pupil, rows, Of
  <2> QED BY <1>0, <1>1, <2>1 DEF AddInv, rows
<1>2. ASSUME NEW r \in Readers, Ask(r) \/ Fail(r) PROVE AddInv'
  <2>1. /\ UNCHANGED <<rows, cache, shown>>
        /\ entry' = entry \/ entry' = [entry EXCEPT ![r] = NoEntry]
    BY <1>2 DEF Ask, Fail
  <2>2. AddsUp(entry'[r].data)
    BY <1>0, <2>1, EmptyAddsUp
  <2>3. Apart(r) /\ pc'[r] \in {"idle", "get"}
    BY <1>2, AskType, FailType
  <2>4. PartialOK(r)'
    BY <2>3 DEF PartialOK
  <2> QED BY <1>0, <1>1, <2>1, <2>2, <2>3, <2>4
<1>3. ASSUME NEW r \in Readers, Get(r) PROVE AddInv'
  <2>1. /\ entry' = [entry EXCEPT ![r] = cache[Pupil(r)]] /\ Pupil(r) \in Pupils
        /\ UNCHANGED <<rows, cache, shown>> /\ Apart(r)
    BY <1>3, PupilType, LookUpType DEF Get
  <2>2. AddsUp(entry'[r].data)
    BY <1>0, <2>1
  <2>3. PICK to \in {"check", "points"} : Go(r, to)
    BY <1>3, Zenon DEF Get
  <2>4. PartialOK(r)'
    BY <1>0, <2>3 DEF PartialOK, Go
  <2> QED BY <1>0, <1>1, <2>1, <2>2, <2>4
<1>4. ASSUME NEW r \in Readers, Hit(r) PROVE AddInv'
  <2>1. /\ shown' = [shown EXCEPT ![Pupil(r)] = entry[r].data] /\ Apart(r)
        /\ pc'[r] \in {"idle", "get"} /\ UNCHANGED <<rows, cache>>
        /\ entry' = [entry EXCEPT ![r] = NoEntry]
    BY <1>4, HitType DEF Hit, Obtain
  <2>2. AddsUp(entry'[r].data) /\ PartialOK(r)'
    BY <1>0, <2>1, EmptyAddsUp DEF PartialOK
  <2>3. \A p \in Pupils : AddsUp(shown'[p])
    BY <1>0, <2>1
  <2> QED BY <1>0, <1>1, <2>1, <2>2, <2>3
<1>5. ASSUME NEW r \in Readers, Expired(r) PROVE AddInv'
  <2>1. pc'[r] = "evict" /\ UNCHANGED <<rows, cache, shown, entry>> /\ Apart(r)
    BY <1>0, <1>5, LookUpType DEF Expired, Go
  <2>2. PartialOK(r)'
    BY <2>1 DEF PartialOK
  <2> QED BY <1>0, <1>1, <2>1, <2>2
<1>6. ASSUME NEW r \in Readers, Evict(r) PROVE AddInv'
  <2>1. /\ pc'[r] = "points" /\ UNCHANGED <<rows, shown, entry>> /\ Apart(r)
        /\ cache' = cache \/ cache' = [cache EXCEPT ![Pupil(r)] = NoEntry]
    BY <1>0, <1>6, LookUpType DEF Evict, Go
  <2>2. PartialOK(r)' /\ \A p \in Pupils : AddsUp(cache'[p].data)
    BY <1>0, <2>1, EmptyAddsUp DEF PartialOK
  <2> QED BY <1>0, <1>1, <2>1, <2>2
<1>7. ASSUME NEW r \in Readers, ReadPoints(r) \/ ReadSubjects(r) \/ ReadGlobal(r)
      PROVE  AddInv'
  <2>1. Apart(r) /\ UNCHANGED <<rows, cache, todo, entry, shown>>
    BY <1>7, QueryType
  <2>2. Of(rewards, Pupil(r)) \subseteq Of(attempts, Pupil(r))
    BY <1>0 DEF Of
  <2>3. CASE ReadPoints(r)
    BY <2>1, <2>2, <2>3, <1>0, <1>1, QueryType DEF PartialOK, Pupil, rows
  <2>4. CASE ReadSubjects(r)
    BY <2>1, <2>4, <1>0, <1>1, QueryType DEF PartialOK, Pupil, rows
  <2>5. CASE ReadGlobal(r)
    BY <2>1, <2>5, <1>0, <1>1, QueryType DEF PartialOK, Pupil, rows, AddsUp
  <2> QED BY <1>7, <2>3, <2>4, <2>5
<1>8. ASSUME NEW r \in Readers, Stamp(r) PROVE AddInv'
  <2>1. /\ pc[r] = "stamp" /\ pc'[r] = "set" /\ Apart(r)
        /\ UNCHANGED <<rows, cache, shown, entry, partial>>
    BY <1>0, <1>8, LookUpType DEF Stamp, Go
  <2>2. PartialOK(r)'
    BY <1>0, <2>1 DEF PartialOK
  <2> QED BY <1>0, <1>1, <2>1, <2>2
<1>9. ASSUME NEW r \in Readers, Set(r) PROVE AddInv'
  <2>1. PICK e : cache' = [cache EXCEPT ![Pupil(r)] = e] /\ e.data = partial[r]
    BY <1>9, SetType, Zenon
  <2>2. /\ shown' = [shown EXCEPT ![Pupil(r)] = partial[r]] /\ Apart(r)
        /\ pc'[r] \in {"idle", "get"} /\ UNCHANGED rows
        /\ entry' = [entry EXCEPT ![r] = NoEntry] /\ pc[r] = "set"
    BY <1>9, SetType DEF Set, Obtain
  <2>3. AddsUp(partial[r])
    BY <1>0, <2>2 DEF PartialOK
  <2>4. \A p \in Pupils : AddsUp(shown'[p]) /\ AddsUp(cache'[p].data)
    BY <1>0, <2>1, <2>2, <2>3
  <2>5. AddsUp(entry'[r].data) /\ PartialOK(r)'
    BY <1>0, <2>2, EmptyAddsUp DEF PartialOK
  <2> QED BY <1>1, <2>2, <2>4, <2>5
<1>10. ASSUME Outside PROVE AddInv'
  <2>1. /\ UNCHANGED <<cache, reader, shown>> /\ attempts \subseteq attempts'
    BY <1>10, OutsideType
  <2>2. rewards' \subseteq attempts'
    BY <1>0, <1>10 DEF Outside, CommitAttempt, CommitReward, Tick, rows
  <2>3. \A r \in Readers : Of(attempts, Pupil(r)) \subseteq Of(attempts', Pupil(r))
    BY <2>1 DEF Of
  <2>4. \A r \in Readers : PartialOK(r)'
    BY <1>0, <2>1, <2>3 DEF PartialOK, Pupil, reader
  <2> QED BY <1>0, <2>1, <2>2, <2>4 DEF AddInv, reader
<1>11. CASE UNCHANGED vars
  BY <1>0, <1>11 DEF vars, rows, reader, AddInv, PartialOK, Pupil, Of
<1> QED
  BY <1>2, <1>3, <1>4, <1>5, <1>6, <1>7, <1>8, <1>9, <1>10, <1>11, Zenon
     DEF Next, LookUp, Outside

\* Although its three queries see three states of the tables, a dashboard
\* shows no point without its attempt.
THEOREM DashboardsConsistent == Spec => []DashboardsAddUp
<1>1. Init => AddInv
  BY EmptyAddsUp DEF Init, AddInv, PartialOK
<1>2. AddInv => DashboardsAddUp
  BY DEF AddInv, AddsUp, DashboardsAddUp
<1> QED BY <1>1, <1>2, TypeInit, TypeStep, AddStep, PTL DEF Spec

-----------------------------------------------------------------------------
(* What each step of a look-up does *)

Same(r) == UNCHANGED <<rows, cache, shown, overlapped>> /\ Apart(r)

LEMMA AskEffect ==
    ASSUME TypeInv, NEW r \in Readers, Ask(r) \/ Fail(r)
    PROVE  Same(r) /\ pc'[r] \in {"idle", "get"}
  BY AskType, FailType DEF Ask, Fail, Same

LEMMA GetEffect ==
    ASSUME TypeInv, NEW r \in Readers, Get(r)
    PROVE  /\ Same(r) /\ UNCHANGED <<todo, partial>>
           /\ Pupil(r) \in Pupils /\ pc'[r] \in {"check", "points"}
           /\ pc'[r] = "check" => Cached(Pupil(r))
           /\ entry'[r] = cache[Pupil(r)] /\ since'[r] = shown[Pupil(r)]
<1>1. Same(r) /\ UNCHANGED <<todo, partial>> /\ Pupil(r) \in Pupils
  BY PupilType, LookUpType DEF Get, Same
<1>2. entry'[r] = cache[Pupil(r)] /\ since'[r] = shown[Pupil(r)]
  BY DEF Get, TypeInv
<1>3. (Go(r, "check") /\ Cached(Pupil(r))) \/ Go(r, "points")
  BY Zenon DEF Get
<1>4. \A to : Go(r, to) => pc'[r] = to
  BY DEF Go, TypeInv
<1> QED BY <1>1, <1>2, <1>3, <1>4, Zenon

LEMMA HitEffect ==
    ASSUME TypeInv, NEW r \in Readers, Hit(r)
    PROVE  /\ UNCHANGED <<rows, cache, overlapped>> /\ Apart(r)
           /\ pc[r] = "check" /\ pc'[r] \in {"idle", "get"} /\ Pupil(r) \in Pupils
           /\ shown' = [shown EXCEPT ![Pupil(r)] = entry[r].data]
  BY HitType, PupilType DEF Hit

LEMMA MoveEffect ==
    ASSUME TypeInv, NEW r \in Readers, Expired(r) \/ Stamp(r)
    PROVE  /\ Same(r) /\ UNCHANGED <<todo, partial, entry, since>>
           /\ \/ pc[r] = "check" /\ pc'[r] = "evict"
              \/ pc[r] = "stamp" /\ pc'[r] = "set"
<1>1. pc \in [Readers -> Points]
  BY DEF TypeInv
<1> QED BY <1>1, LookUpType DEF Expired, Stamp, Go, Same

LEMMA EvictEffect ==
    ASSUME TypeInv, NEW r \in Readers, Evict(r)
    PROVE  /\ UNCHANGED <<rows, shown, overlapped, todo, partial, entry, since>> /\ Apart(r)
           /\ pc[r] = "evict" /\ pc'[r] = "points"
           /\ \A p \in Pupils : cache'[p] = cache[p] \/ cache'[p] = NoEntry
<1>1. pc \in [Readers -> Points] /\ cache \in [Pupils -> Entry]
  BY DEF TypeInv
<1>2. cache' = cache \/ cache' = [cache EXCEPT ![Pupil(r)] = NoEntry]
  BY Zenon DEF Evict
<1>3. \A p \in Pupils : cache'[p] = cache[p] \/ cache'[p] = NoEntry
  BY <1>1, <1>2
<1> QED BY <1>1, <1>3, LookUpType DEF Evict, Go

LEMMA SetEffect ==
    ASSUME TypeInv, NEW r \in Readers, Set(r)
    PROVE  /\ UNCHANGED <<rows, overlapped>> /\ Apart(r) /\ Pupil(r) \in Pupils
           /\ pc[r] = "set" /\ pc'[r] \in {"idle", "get"}
           /\ cache'[Pupil(r)].data = partial[r] /\ shown'[Pupil(r)] = partial[r]
           /\ \A p \in Pupils \ {Pupil(r)} : cache'[p] = cache[p] /\ shown'[p] = shown[p]
<1>1. pc[r] = "set" /\ UNCHANGED <<rows, overlapped>> /\ Pupil(r) \in Pupils
  BY PupilType DEF Set
<1>2. PICK e : cache' = [cache EXCEPT ![Pupil(r)] = e] /\ e.data = partial[r]
  BY SetType, Zenon
<1>3. shown' = [shown EXCEPT ![Pupil(r)] = partial[r]] /\ Apart(r) /\ pc'[r] \in {"idle", "get"}
  BY SetType
<1>4. cache \in [Pupils -> Entry] /\ shown \in [Pupils -> Dashboard]
  BY DEF TypeInv
<1> QED BY <1>1, <1>2, <1>3, <1>4

-----------------------------------------------------------------------------
(* Look-ups do not go back *)

Past == {"subjects", "global", "stamp", "set"}
Active(r, p) == pc[r] \notin {"idle", "get"} /\ Pupil(r) = p

\* The dashboards of p that are cached, were shown, or are in a reader's hand.
Known(p, x) ==
    \/ x = cache[p].data \/ x = shown[p]
    \/ \E r \in Readers : Active(r, p) /\ (x = entry[r].data \/ x = since[r])

\* What is known has been read from the tables.
Stored(p, x) ==
    /\ x.points \subseteq Of(rewards, p)
    /\ x.subjects \subseteq Of(attempts, p) /\ x.global \subseteq Of(attempts, p)

PartStored(r) ==
    /\ pc[r] \in Past => partial[r].points \subseteq Of(rewards, Pupil(r))
    /\ pc[r] \in Past \ {"subjects"} => partial[r].subjects \subseteq Of(attempts, Pupil(r))
    /\ pc[r] \in {"stamp", "set"} => partial[r].global \subseteq Of(attempts, Pupil(r))

\* What r has read so far has all of x.
Covers(r, x) ==
    /\ x.points \subseteq partial[r].points
    /\ pc[r] \in Past \ {"subjects"} => x.subjects \subseteq partial[r].subjects
    /\ pc[r] \in {"stamp", "set"} => x.global \subseteq partial[r].global

Single(p) ==
    \A r, d \in Readers :
        (pc[r] \in Past /\ Pupil(r) = p /\ pc[d] \in Past /\ Pupil(d) = p) => r = d
Covering(p) ==
    \A r \in Readers : pc[r] \in Past /\ Pupil(r) = p =>
        \A x : Known(p, x) => Covers(r, x)

\* A hit is at least as good as what was shown when its look-up began, and
\* the cache as good as both.
Ordered(p) ==
    /\ Cached(p) => AtLeast(cache[p].data, shown[p])
    /\ \A r \in Readers : pc[r] = "check" /\ Pupil(r) = p =>
          /\ AtLeast(entry[r].data, since[r])
          /\ Cached(p) => AtLeast(cache[p].data, entry[r].data)

BackInv ==
    /\ \A p \in Pupils : \A x : Known(p, x) => Stored(p, x)
    /\ \A r \in Readers : PartStored(r)
    /\ \A p \in Pupils \ overlapped : Single(p) /\ Covering(p) /\ Ordered(p)

LEMMA Kinds ==
    ASSUME TypeInv, [Next]_vars
    PROVE  \/ \E r \in Readers :
                \/ Ask(r) \/ Fail(r) \/ Get(r) \/ Hit(r) \/ Expired(r) \/ Stamp(r)
                \/ Evict(r) \/ Set(r)
                \/ ReadPoints(r) \/ ReadSubjects(r) \/ ReadGlobal(r)
           \/ /\ UNCHANGED <<cache, reader, shown, overlapped>>
              /\ attempts \subseteq attempts' /\ rewards \subseteq rewards'
<1>1. CASE UNCHANGED vars
  BY <1>1 DEF vars, rows
<1> QED BY <1>1, OutsideType, Zenon DEF Next, LookUp, Outside

\* Only set_dashboard makes anything new known.
LEMMA KnownStep ==
    ASSUME TypeInv, [Next]_vars, NEW p \in Pupils, NEW x, Known(p, x)'
    PROVE  \/ Known(p, x) \/ x = Empty
           \/ \E r \in Readers : Set(r) /\ Pupil(r) = p /\ x = partial[r]
<1>k. ASSUME NEW r \in Readers, Apart(r), x # cache'[p].data, x # shown'[p],
             Active(r, p)' => x # entry'[r].data /\ x # since'[r]
      PROVE  Known(p, x)
  <2>1. PICK d \in Readers : Active(d, p)' /\ (x = entry'[d].data \/ x = since'[d])
    BY <1>k DEF Known
  <2>2. d # r
    BY <1>k, <2>1
  <2> QED BY <1>k, <2>1, <2>2 DEF Known, Active, Apart, Pupil
<1>1. ASSUME NEW r \in Readers, Ask(r) \/ Fail(r) PROVE Known(p, x)
  BY <1>1, <1>k, AskEffect DEF Same, Active, Known
<1>2. ASSUME NEW r \in Readers, Get(r) PROVE Known(p, x)
  BY <1>2, <1>k, GetEffect DEF Same, Active, Known, Pupil
<1>3. ASSUME NEW r \in Readers, Hit(r) PROVE Known(p, x)
  <2>1. shown'[p] = shown[p] \/ (Pupil(r) = p /\ shown'[p] = entry[r].data)
    BY <1>3, HitEffect DEF TypeInv
  <2>2. Active(r, Pupil(r)) /\ ~Active(r, p)' /\ UNCHANGED cache
    BY <1>3, HitEffect DEF Active
  <2> QED BY <1>3, <1>k, <2>1, <2>2, HitEffect DEF Known
<1>4. ASSUME NEW r \in Readers, Expired(r) \/ Stamp(r) PROVE Known(p, x)
  BY <1>4, <1>k, MoveEffect DEF Same, Active, Known, Pupil
<1>5. ASSUME NEW r \in Readers, Evict(r) PROVE Known(p, x) \/ x = Empty
  <2>1. cache'[p].data = cache[p].data \/ cache'[p].data = Empty
    BY <1>5, EvictEffect, Data
  <2>2. Active(r, p)' => Active(r, p) /\ entry'[r] = entry[r] /\ since'[r] = since[r]
    BY <1>5, EvictEffect DEF Active, Pupil
  <2> QED BY <1>5, <1>k, <2>1, <2>2, EvictEffect DEF Known
<1>6. ASSUME NEW r \in Readers, Set(r), ~(Pupil(r) = p /\ x = partial[r]) PROVE Known(p, x)
  <2>1. x = cache'[p].data => x = cache[p].data
    BY <1>6, SetEffect, Zenon
  <2>2. x = shown'[p] => x = shown[p]
    BY <1>6, SetEffect, Zenon
  <2>3. ~Active(r, p)' /\ Apart(r)
    BY <1>6, SetEffect DEF Active
  <2> QED BY <1>k, <2>1, <2>2, <2>3 DEF Known
<1>7. ASSUME NEW r \in Readers, ReadPoints(r) \/ ReadSubjects(r) \/ ReadGlobal(r)
      PROVE  Known(p, x)
  <2>1. Apart(r) /\ UNCHANGED <<cache, todo, entry, since, shown>>
    BY <1>7, QueryType
  <2>2. Active(r, Pupil(r))
    BY <1>7, QueryType DEF Active
  <2> QED BY <1>k, <2>1, <2>2 DEF Known, Active, Pupil
<1>8. ASSUME UNCHANGED <<cache, reader, shown, overlapped>> PROVE Known(p, x)
  BY <1>8 DEF reader, Known, Active, Pupil
<1> QED BY <1>1, <1>2, <1>3, <1>4, <1>5, <1>6, <1>7, <1>8, Kinds, Zenon

LEMMA RowsGrow ==
    ASSUME TypeInv, [Next]_vars
    PROVE  \A p : /\ Of(attempts, p) \subseteq Of(attempts', p)
                 /\ Of(rewards, p) \subseteq Of(rewards', p)
<1>1. attempts \subseteq attempts' /\ rewards \subseteq rewards'
  BY Kinds, AskEffect, GetEffect, HitEffect, MoveEffect, EvictEffect, SetEffect, QueryType
     DEF Same, rows
<1> QED BY <1>1 DEF Of

LEMMA PartStep ==
    ASSUME TypeInv, BackInv, [Next]_vars, NEW d \in Readers
    PROVE  PartStored(d)'
<1>0. PartStored(d)
  BY DEF BackInv
<1>1. ASSUME UNCHANGED <<pc, todo, partial>> PROVE PartStored(d)'
  BY <1>0, <1>1, RowsGrow DEF PartStored, Pupil
<1>2. ASSUME NEW r \in Readers, Apart(r), r # d PROVE PartStored(d)'
  BY <1>0, <1>2, RowsGrow DEF PartStored, Pupil, Apart
<1>3. ASSUME pc'[d] \notin Past PROVE PartStored(d)'
  BY <1>3 DEF PartStored, Past
<1>4. ASSUME NEW r \in Readers,
             Ask(r) \/ Fail(r) \/ Get(r) \/ Hit(r) \/ Evict(r) \/ Set(r)
      PROVE  PartStored(d)'
  <2>1. Apart(r) /\ pc'[r] \notin Past
    BY <1>4, AskEffect, GetEffect, HitEffect, EvictEffect, SetEffect DEF Same, Past
  <2> QED BY <1>2, <1>3, <2>1
<1>5. ASSUME NEW r \in Readers, Expired(r) \/ Stamp(r) PROVE PartStored(d)'
  <2>1. CASE r = d
    BY <1>0, <1>5, <2>1, MoveEffect DEF Same, rows, PartStored, Pupil, Past
  <2> QED BY <1>2, <1>5, <2>1, MoveEffect DEF Same
<1>6. ASSUME NEW r \in Readers, ReadPoints(r) \/ ReadSubjects(r) \/ ReadGlobal(r)
      PROVE  PartStored(d)'
  <2>1. CASE r = d
    BY <1>0, <1>6, <2>1, QueryType DEF rows, PartStored, Pupil, Past
  <2> QED BY <1>2, <1>6, <2>1, QueryType
<1> QED BY <1>1, <1>4, <1>5, <1>6, Kinds, Zenon DEF reader

LEMMA EmptyIsLeast ==
    /\ \A p : Stored(p, Empty)
    /\ \A r : Covers(r, Empty)
  BY DEF Empty, Stored, Covers

LEMMA StoredStep ==
    ASSUME TypeInv, BackInv, [Next]_vars, NEW p \in Pupils, NEW x, Known(p, x)'
    PROVE  Stored(p, x)'
<1>1. CASE Known(p, x)
  <2>1. Stored(p, x)
    BY <1>1 DEF BackInv
  <2> QED BY <2>1, RowsGrow DEF Stored
<1>2. CASE x = Empty
  BY <1>2 DEF Empty, Stored
<1>3. ASSUME NEW r \in Readers, Set(r), Pupil(r) = p, x = partial[r] PROVE Stored(p, x)'
  <2>1. PartStored(r) /\ pc[r] = "set"
    BY <1>3, SetEffect DEF BackInv
  <2> QED BY <1>3, <2>1, RowsGrow DEF Stored, PartStored, Past
<1> QED BY <1>1, <1>2, <1>3, KnownStep

\* Who is past the first query: the first query is what brings a reader
\* there, and marks the pupil if another one is there already.
LEMMA SingleStep ==
    ASSUME TypeInv, BackInv, [Next]_vars, NEW p \in Pupils, p \notin overlapped'
    PROVE  Single(p)'
<1>0. ASSUME p \notin overlapped PROVE Single(p)
  BY <1>0 DEF BackInv
<1>1. ASSUME UNCHANGED <<pc, todo, overlapped>> PROVE Single(p)'
  BY <1>0, <1>1 DEF Single, Pupil
<1>2. ASSUME NEW r \in Readers, Apart(r), UNCHANGED overlapped,
             pc'[r] \notin Past \/ (pc[r] \in Past /\ UNCHANGED todo)
      PROVE  Single(p)'
  BY <1>0, <1>2 DEF Single, Pupil, Apart
<1>3. ASSUME NEW r \in Readers,
             Ask(r) \/ Fail(r) \/ Get(r) \/ Hit(r) \/ Evict(r) \/ Set(r)
      PROVE  Single(p)'
  <2>1. Apart(r) /\ pc'[r] \notin Past /\ UNCHANGED overlapped
    BY <1>3, AskEffect, GetEffect, HitEffect, EvictEffect, SetEffect DEF Same, Past
  <2> QED BY <1>2, <2>1
<1>4. ASSUME NEW r \in Readers, Expired(r) \/ Stamp(r) PROVE Single(p)'
  BY <1>2, <1>4, MoveEffect DEF Same, Past
<1>5. ASSUME NEW r \in Readers, ReadSubjects(r) \/ ReadGlobal(r) PROVE Single(p)'
  <2>1. UNCHANGED overlapped
    BY <1>5 DEF ReadSubjects, ReadGlobal
  <2> QED BY <1>2, <1>5, <2>1, QueryType DEF Past
<1>6. ASSUME NEW r \in Readers, ReadPoints(r) PROVE Single(p)'
  <2>1. Apart(r) /\ UNCHANGED todo /\ pc[r] = "points" /\ pc'[r] = "subjects"
    BY <1>6, QueryType
  <2>2. overlapped' = IF Others(r) # {} THEN overlapped \cup {Pupil(r)} ELSE overlapped
    BY <1>6, Zenon DEF ReadPoints
  <2>3. p \notin overlapped
    BY <2>2
  <2>4. Pupil(r) = p => Others(r) = {}
    BY <2>2
  <2>5. \A d \in Readers \ {r} : Pupil(r) = p /\ Pupil(d) = p => pc[d] \notin Past
    BY <2>4 DEF Others, Past, Aggregating
  <2> QED BY <1>0, <2>1, <2>3, <2>5 DEF Single, Apart, Pupil
<1> QED BY <1>1, <1>3, <1>4, <1>5, <1>6, Kinds, Zenon DEF reader

\* An overlap is not forgotten.
LEMMA OverlappedGrows ==
    ASSUME TypeInv, [Next]_vars
    PROVE  overlapped \subseteq overlapped'
<1>1. \A r \in Readers :
        ReadPoints(r) \/ ReadSubjects(r) \/ ReadGlobal(r) => overlapped \subseteq overlapped'
  BY DEF ReadPoints, ReadSubjects, ReadGlobal
<1> QED
  BY <1>1, Kinds, AskEffect, GetEffect, HitEffect, MoveEffect, EvictEffect, SetEffect DEF Same

LEMMA CoveringStep ==
    ASSUME TypeInv, BackInv, [Next]_vars, NEW p \in Pupils, p \notin overlapped'
    PROVE  Covering(p)'
<1>0. p \notin overlapped /\ Single(p) /\ Covering(p)
  BY OverlappedGrows DEF BackInv
<1>1. SUFFICES ASSUME NEW d \in Readers, pc'[d] \in Past, Pupil(d)' = p,
                      NEW x, Known(p, x)'
               PROVE  Covers(d, x)'
  BY DEF Covering
<1>2. ASSUME x = Empty PROVE Covers(d, x)'
  BY <1>2 DEF Empty, Covers
\* d itself does not move
<1>3. ASSUME UNCHANGED <<pc[d], todo[d], partial[d]>>,
             \A r \in Readers \ {d} : Set(r) => pc[r] \in Past,
             ~Set(d)
      PROVE  Covers(d, x)'
  <2>1. pc[d] \in Past /\ Pupil(d) = p
    BY <1>1, <1>3 DEF Pupil
  <2>2. CASE Known(p, x)
    BY <1>0, <1>3, <2>1, <2>2 DEF Covering, Covers
  <2>3. ASSUME NEW r \in Readers, Set(r), Pupil(r) = p PROVE FALSE
    <3>1. r # d
      BY <1>3, <2>3, Zenon
    <3>2. pc[r] \in Past
      BY <1>3, <2>3, <3>1
    <3> QED BY <1>0, <2>1, <2>3, <3>1, <3>2 DEF Single
  <2> QED BY <1>1, <1>2, <2>2, <2>3, KnownStep
<1>s. \A r \in Readers : Set(r) => pc[r] \in Past
  BY DEF Set, Past
<1>4. ASSUME NEW r \in Readers, Apart(r), r # d PROVE Covers(d, x)'
  <2>1. UNCHANGED <<pc[d], todo[d], partial[d]>>
    BY <1>4 DEF Apart
  <2>2. ~Set(d)
    <3>1. SUFFICES ASSUME Set(d) PROVE FALSE
      OBVIOUS
    <3> QED BY <1>1, <3>1, SetEffect DEF Past
  <2> QED BY <1>3, <1>s, <2>1, <2>2
<1>5. ASSUME NEW r \in Readers,
             Ask(r) \/ Fail(r) \/ Get(r) \/ Hit(r) \/ Evict(r) \/ Set(r)
      PROVE  Covers(d, x)'
  <2>1. Apart(r) /\ pc'[r] \notin Past
    BY <1>5, AskEffect, GetEffect, HitEffect, EvictEffect, SetEffect DEF Same, Past
  <2> QED BY <1>1, <1>4, <2>1
<1>6. ASSUME ~\E r \in Readers : Set(r) PROVE Known(p, x) \/ x = Empty
  BY <1>1, <1>6, KnownStep
<1>7. ASSUME NEW r \in Readers, Expired(r) \/ Stamp(r) PROVE Covers(d, x)'
  <2>1. CASE r = d
    <3>1. /\ pc[d] = "stamp" /\ pc'[d] = "set" /\ UNCHANGED <<todo, partial>>
          /\ UNCHANGED shown /\ UNCHANGED cache /\ Apart(d)
      BY <1>1, <1>7, <2>1, MoveEffect DEF Past, Same
    <3>2. \A y \in Readers : ~Set(y)
      BY <3>1, SetEffect DEF Apart
    <3>3. Known(p, x) => Covers(d, x)
      BY <1>0, <1>1, <3>1 DEF Covering, Past, Pupil
    <3>4. Covers(d, x) => Covers(d, x)'
      BY <3>1 DEF Covers, Past
    <3> QED BY <1>2, <1>6, <3>2, <3>3, <3>4
  <2> QED BY <1>4, <1>7, <2>1, MoveEffect DEF Same
<1>8. ASSUME NEW r \in Readers, ReadPoints(r) \/ ReadSubjects(r) \/ ReadGlobal(r)
      PROVE  Covers(d, x)'
  <2>0. Apart(r) /\ UNCHANGED <<rows, todo>>
    BY <1>8, QueryType
  <2>1. CASE r = d
    <3>2. \A y \in Readers : ~Set(y)
      <4>1. SUFFICES ASSUME NEW y \in Readers, Set(y) PROVE FALSE
        OBVIOUS
      <4>2. y # d => pc'[y] = pc[y]
        BY <2>0, <2>1 DEF Apart
      <4> QED BY <1>1, <4>1, <4>2, SetEffect DEF Past
    <3>3. SUFFICES ASSUME Known(p, x) PROVE Covers(d, x)'
      BY <1>2, <1>6, <3>2
    <3>4. Stored(p, x) /\ Pupil(d) = p
      BY <1>1, <2>0, <3>3 DEF BackInv, Pupil
    <3>5. pc[d] \in Past => Covers(d, x)
      BY <1>0, <3>3, <3>4 DEF Covering
    <3>6. CASE ReadPoints(d)
      BY <3>4, <3>6, QueryType DEF Covers, Stored, Past
    <3>7. CASE ReadSubjects(d)
      BY <3>4, <3>5, <3>7, QueryType DEF Covers, Stored, Past
    <3>8. CASE ReadGlobal(d)
      BY <3>4, <3>5, <3>8, QueryType DEF Covers, Stored, Past
    <3> QED BY <1>8, <2>1, <3>6, <3>7, <3>8
  <2> QED BY <1>4, <2>0, <2>1
<1>9. ASSUME UNCHANGED <<cache, reader, shown, overlapped>> PROVE Covers(d, x)'
  <2>1. UNCHANGED <<pc[d], todo[d], partial[d]>> /\ UNCHANGED pc
    BY <1>9 DEF reader
  <2>2. ~Set(d)
    BY <2>1, SetEffect
  <2> QED BY <1>3, <1>s, <2>1, <2>2
<1> QED BY <1>5, <1>7, <1>8, <1>9, Kinds, Zenon

LEMMA OrderedStep ==
    ASSUME TypeInv, BackInv, [Next]_vars, NEW p \in Pupils, p \notin overlapped'
    PROVE  Ordered(p)'
<1>0. p \notin overlapped /\ Single(p) /\ Covering(p) /\ Ordered(p)
  BY OverlappedGrows DEF BackInv
<1>1. ASSUME UNCHANGED <<cache, shown>>, NEW r \in Readers, Apart(r),
             pc'[r] = "check" => UNCHANGED <<pc[r], todo[r], entry[r], since[r]>>
      PROVE  Ordered(p)'
  <2>1. \A d \in Readers : pc'[d] = "check" =>
            UNCHANGED <<pc[d], todo[d], entry[d], since[d]>>
    BY <1>1 DEF Apart
  <2> QED BY <1>0, <1>1, <2>1 DEF Ordered, Cached, Pupil
<1>2. ASSUME NEW r \in Readers, Ask(r) \/ Fail(r) PROVE Ordered(p)'
  BY <1>1, <1>2, AskEffect DEF Same
<1>3. ASSUME NEW r \in Readers, Get(r) PROVE Ordered(p)'
  <2>1. /\ Apart(r) /\ UNCHANGED <<cache, shown, todo>> /\ entry'[r] = cache[Pupil(r)]
        /\ since'[r] = shown[Pupil(r)] /\ (pc'[r] = "check" => Cached(Pupil(r)))
    BY <1>3, GetEffect DEF Same
  <2>2. Cached(p)' => AtLeast(cache[p].data, shown[p])'
    BY <1>0, <2>1 DEF Ordered, Cached
  <2>3. ASSUME NEW d \in Readers, pc'[d] = "check", Pupil(d)' = p
        PROVE  /\ AtLeast(entry[d].data, since[d])'
               /\ Cached(p)' => AtLeast(cache[p].data, entry[d].data)'
    <3>1. CASE d = r
      BY <1>0, <2>1, <2>3, <3>1 DEF Ordered, Cached, Pupil, AtLeast
    <3>2. CASE d # r
      BY <1>0, <2>1, <2>3, <3>2 DEF Ordered, Cached, Pupil, Apart
    <3> QED BY <3>1, <3>2
  <2> QED BY <2>2, <2>3 DEF Ordered
<1>4. ASSUME NEW r \in Readers, Hit(r) PROVE Ordered(p)'
  <2>1. /\ UNCHANGED cache /\ Apart(r) /\ pc[r] = "check" /\ pc'[r] \in {"idle", "get"}
        /\ shown' = [shown EXCEPT ![Pupil(r)] = entry[r].data]
    BY <1>4, HitEffect
  <2>2. Cached(p)' => AtLeast(cache[p].data, shown[p])'
    <3>1. CASE Pupil(r) = p
      BY <1>0, <2>1, <3>1 DEF Ordered, Cached, TypeInv
    <3>2. CASE Pupil(r) # p
      BY <1>0, <2>1, <3>2 DEF Ordered, Cached, TypeInv
    <3> QED BY <3>1, <3>2
  <2>3. ASSUME NEW d \in Readers, pc'[d] = "check", Pupil(d)' = p
        PROVE  /\ AtLeast(entry[d].data, since[d])'
               /\ Cached(p)' => AtLeast(cache[p].data, entry[d].data)'
    <3>1. d # r
      BY <2>1, <2>3
    <3> QED BY <1>0, <2>1, <2>3, <3>1 DEF Ordered, Cached, Pupil, Apart
  <2> QED BY <2>2, <2>3 DEF Ordered
<1>5. ASSUME NEW r \in Readers, Expired(r) \/ Stamp(r) PROVE Ordered(p)'
  BY <1>1, <1>5, MoveEffect DEF Same
<1>6. ASSUME NEW r \in Readers, Evict(r) PROVE Ordered(p)'
  <2>1. /\ UNCHANGED shown /\ Apart(r) /\ pc'[r] = "points"
        /\ cache'[p] = cache[p] \/ cache'[p] = NoEntry
    BY <1>6, EvictEffect
  <2>2. Cached(p)' => cache'[p] = cache[p]
    BY <2>1 DEF Cached, NoEntry
  <2>3. Cached(p)' => AtLeast(cache[p].data, shown[p])'
    BY <1>0, <2>1, <2>2 DEF Ordered, Cached
  <2>4. ASSUME NEW d \in Readers, pc'[d] = "check", Pupil(d)' = p
        PROVE  /\ AtLeast(entry[d].data, since[d])'
               /\ Cached(p)' => AtLeast(cache[p].data, entry[d].data)'
    <3>1. d # r
      BY <2>1, <2>4
    <3> QED BY <1>0, <2>1, <2>2, <2>4, <3>1 DEF Ordered, Cached, Pupil, Apart
  <2> QED BY <2>3, <2>4 DEF Ordered
<1>7. ASSUME NEW r \in Readers, Set(r) PROVE Ordered(p)'
  <2>0. /\ Apart(r) /\ pc[r] = "set" /\ pc'[r] \in {"idle", "get"}
        /\ cache'[Pupil(r)].data = partial[r] /\ shown'[Pupil(r)] = partial[r]
        /\ \A q \in Pupils \ {Pupil(r)} : cache'[q] = cache[q] /\ shown'[q] = shown[q]
    BY <1>7, SetEffect
  <2>1. \A x : AtLeast(x, x)
    BY DEF AtLeast
  <2>2. Cached(p)' => AtLeast(cache[p].data, shown[p])'
    <3>1. CASE Pupil(r) = p
      BY <2>0, <2>1, <3>1, Zenon
    <3>2. CASE Pupil(r) # p
      BY <1>0, <2>0, <3>2 DEF Ordered, Cached
    <3> QED BY <3>1, <3>2
  <2>3. ASSUME NEW d \in Readers, pc'[d] = "check", Pupil(d)' = p
        PROVE  /\ AtLeast(entry[d].data, since[d])'
               /\ Cached(p)' => AtLeast(cache[p].data, entry[d].data)'
    <3>1. /\ d # r /\ pc[d] = "check" /\ Pupil(d) = p
          /\ entry'[d] = entry[d] /\ since'[d] = since[d]
      BY <2>0, <2>3 DEF Apart, Pupil
    <3>2. CASE Pupil(r) # p
      BY <1>0, <2>0, <3>1, <3>2 DEF Ordered, Cached
    <3>3. CASE Pupil(r) = p
      <4>1. Known(p, entry[d].data)
        BY <3>1 DEF Known, Active
      <4>2. Covers(r, entry[d].data)
        BY <1>0, <2>0, <3>3, <4>1 DEF Covering, Past
      <4>3. AtLeast(partial[r], entry[d].data)
        BY <2>0, <4>2 DEF Covers, AtLeast, Past
      <4>4. AtLeast(cache'[p].data, entry'[d].data)
        BY <2>0, <3>1, <3>3, <4>3
      <4> QED BY <1>0, <3>1, <4>4 DEF Ordered
    <3> QED BY <3>2, <3>3
  <2> QED BY <2>2, <2>3 DEF Ordered
<1>8. ASSUME NEW r \in Readers, ReadPoints(r) \/ ReadSubjects(r) \/ ReadGlobal(r)
      PROVE  Ordered(p)'
  <2>1. UNCHANGED <<cache, shown>> /\ Apart(r) /\ pc'[r] # "check"
    BY <1>8, QueryType
  <2> QED BY <1>1, <2>1
<1>9. ASSUME UNCHANGED <<cache, reader, shown, overlapped>> PROVE Ordered(p)'
  BY <1>0, <1>9 DEF reader, Ordered, Cached, Pupil
<1> QED
  BY <1>2, <1>3, <1>4, <1>5, <1>6, <1>7, <1>8, <1>9, Kinds, Zenon

LEMMA BackStep == TypeInv /\ BackInv /\ [Next]_vars => BackInv'
<1> SUFFICES ASSUME TypeInv, BackInv, [Next]_vars PROVE BackInv'
  OBVIOUS
<1> QED BY StoredStep, PartStep, SingleStep, CoveringStep, OrderedStep DEF BackInv

LEMMA BackInit == Init => BackInv
<1> SUFFICES ASSUME Init PROVE BackInv
  OBVIOUS
<1>1. /\ pc = [r \in Readers |-> "idle"] /\ cache = [p \in Pupils |-> NoEntry]
      /\ shown = [p \in Pupils |-> Empty]
  BY DEF Init
<1>2. \A p \in Pupils : \A x : Known(p, x) => Stored(p, x)
  BY <1>1, Data, EmptyIsLeast DEF Known, Active
<1>3. \A r \in Readers : PartStored(r)
  BY <1>1 DEF PartStored, Past
<1>4. ASSUME NEW p \in Pupils PROVE Single(p) /\ Covering(p) /\ Ordered(p)
  <2>1. ~Cached(p)
    BY <1>1 DEF Cached, NoEntry
  <2> QED BY <1>1, <2>1 DEF Single, Covering, Ordered, Past
<1> QED BY <1>2, <1>3, <1>4 DEF BackInv

\* What a look-up obtains: the step that takes a pupil off the list.
LEMMA ObtainStep ==
    ASSUME TypeInv, BackInv, [Next]_vars, NEW r \in Readers,
           pc[r] \in {"check", "set"}, todo'[r] # todo[r]
    PROVE  Pupil(r) \in overlapped \/ AtLeast(shown'[Pupil(r)], since[r])
<1>1. CASE Hit(r)
  <2>1. /\ shown' = [shown EXCEPT ![Pupil(r)] = entry[r].data] /\ pc[r] = "check"
        /\ Pupil(r) \in Pupils
    BY <1>1, HitEffect
  <2>2. shown'[Pupil(r)] = entry[r].data
    BY <2>1 DEF TypeInv
  <2>3. Pupil(r) \in overlapped \/ Ordered(Pupil(r))
    BY <2>1 DEF BackInv
  <2>4. Ordered(Pupil(r)) => AtLeast(entry[r].data, since[r])
    BY <2>1 DEF Ordered
  <2> QED BY <2>2, <2>3, <2>4
<1>2. CASE Set(r)
  <2>1. pc[r] = "set" /\ Pupil(r) \in Pupils /\ shown'[Pupil(r)] = partial[r]
    BY <1>2, SetEffect
  <2>2. Known(Pupil(r), since[r])
    BY <2>1 DEF Known, Active
  <2>3. Pupil(r) \in overlapped \/ Covers(r, since[r])
    BY <2>1, <2>2 DEF BackInv, Covering, Past
  <2>4. Covers(r, since[r]) => AtLeast(partial[r], since[r])
    BY <2>1 DEF Covers, AtLeast, Past
  <2> QED BY <2>1, <2>3, <2>4
<1>3. ASSUME NEW d \in Readers, Apart(d), d # r PROVE FALSE
  BY <1>3 DEF Apart
<1>4. ASSUME NEW d \in Readers,
             \/ Ask(d) \/ Fail(d) \/ Get(d) \/ Expired(d) \/ Stamp(d) \/ Evict(d)
             \/ ReadPoints(d) \/ ReadSubjects(d) \/ ReadGlobal(d)
      PROVE  FALSE
  <2>1. Apart(d)
    BY <1>4, AskEffect, GetEffect, MoveEffect, EvictEffect, QueryType DEF Same
  <2>2. d = r
    BY <1>3, <2>1
  <2>3. CASE Ask(d) \/ Fail(d)
    BY <2>2, <2>3 DEF Ask, Fail
  <2>4. CASE Get(d) \/ Expired(d) \/ Stamp(d) \/ Evict(d)
    BY <2>2, <2>4, GetEffect, MoveEffect, EvictEffect
  <2>5. CASE ReadPoints(d) \/ ReadSubjects(d) \/ ReadGlobal(d)
    BY <2>2, <2>5, QueryType
  <2> QED BY <1>4, <2>3, <2>4, <2>5
<1>5. ASSUME NEW d \in Readers, Hit(d) \/ Set(d) PROVE Hit(r) \/ Set(r)
  BY <1>3, <1>5, HitEffect, SetEffect
<1>6. ~UNCHANGED <<cache, reader, shown, overlapped>>
  BY DEF reader
<1> QED BY <1>1, <1>2, <1>4, <1>5, <1>6, Kinds, Zenon

\* A look-up obtains at least what had been shown when it began, unless
\* aggregations of the pupil have overlapped.
THEOREM LookUpsDoNotGoBack == Spec => NeverGoesBack
<1>1. TypeInv /\ BackInv /\ [Next]_vars =>
        [\A r \in Readers : pc[r] \in {"check", "set"} /\ todo'[r] # todo[r] =>
            Pupil(r) \in overlapped \/ AtLeast(shown'[Pupil(r)], since[r])]_vars
  BY ObtainStep
<1> QED BY <1>1, TypeInit, TypeStep, BackInit, BackStep, PTL DEF Spec, NeverGoesBack
=============================================================================
