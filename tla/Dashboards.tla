----------------------------- MODULE Dashboards -----------------------------
(***************************************************************************)
(* The dashboards of /api/dashboard/eleve and /parent: the in-process TTL  *)
(* cache (services/dashboard/cache.py) over the aggregation                *)
(* (services/dashboard/aggregator.py), read by the threads of one server   *)
(* while submissions commit attempts and, in a later transaction, rewards. *)
(* The aggregation is three queries at READ COMMITTED: each sees what was  *)
(* committed before it.                                                    *)
(*                                                                         *)
(* A dashboard is, for each query, the set of attempts whose rows it saw;  *)
(* sums, averages, dates and levels follow from that.  A pupil stands for  *)
(* one spelling of a pseudo, the key of the cache and of the queries.  No  *)
(* handler calls invalidate_dashboard.                                     *)
(***************************************************************************)
EXTENDS Naturals, Sequences

CONSTANTS
    Readers,    \* worker threads
    Pupils,
    Attempts,   \* bound: the attempts that may be made
    By,         \* the pupil of each
    Lists,      \* the pupils of a request: oneself, or a parent's children
    TTL,
    MaxClock    \* bound on the clock

ASSUME DashboardsAssumption ==
    /\ Lists \subseteq Seq(Pupils)
    /\ By \in [Attempts -> Pupils]
    /\ TTL \in Nat /\ MaxClock \in Nat

VARIABLES
    attempts,   \* table attempts, committed
    rewards,    \* table rewards_ledger, by attempt
    clock,      \* time.monotonic
    cache,      \* _store
    pc, todo,   \* per reader, where it is and the pupils still to look up
    entry,      \* the entry it got from the cache
    partial,    \* the dashboard it aggregates
    expires,    \* expires_at of set_dashboard
    shown,      \* history: the last dashboard of each pupil that was obtained
    since,      \* history: what had been shown when a look-up began
    overlapped  \* history: pupils whose aggregations overlapped

rows == <<attempts, rewards>>
reader == <<pc, todo, entry, partial, expires, since>>
vars == <<rows, clock, cache, reader, shown, overlapped>>

Dashboard == [points : SUBSET Attempts, subjects : SUBSET Attempts,
              global : SUBSET Attempts]
Empty == [points |-> {}, subjects |-> {}, global |-> {}]
Entry == [cached : BOOLEAN, until : Nat, data : Dashboard]
NoEntry == [cached |-> FALSE, until |-> 0, data |-> Empty]

\* filter(student_pseudo == pseudo)
Of(table, p) == {a \in table : By[a] = p}
Cached(p) == cache[p].cached

Pupil(r) == Head(todo[r])
Go(r, to) == pc' = [pc EXCEPT ![r] = to]

Aggregating == {"points", "subjects", "global", "stamp", "set"}

-----------------------------------------------------------------------------
(* The look-up of one pupil after the other *)

\* A request has been let in; /parent has read the links of the caller.
Ask(r) ==
    /\ pc[r] = "idle"
    /\ \E list \in Lists \ {<<>>} : todo' = [todo EXCEPT ![r] = list]
    /\ Go(r, "get")
    /\ UNCHANGED <<rows, clock, cache, entry, partial, expires, since, shown, overlapped>>

\* The dashboard of the pupil is known: go on with the next one, or answer.
Obtain(r, data) ==
    LET rest == Tail(todo[r]) IN
    /\ shown' = [shown EXCEPT ![Pupil(r)] = data]
    /\ todo' = [todo EXCEPT ![r] = rest]
    /\ entry' = [entry EXCEPT ![r] = NoEntry]
    /\ partial' = [partial EXCEPT ![r] = Empty]
    /\ expires' = [expires EXCEPT ![r] = 0]
    /\ since' = [since EXCEPT ![r] = Empty]
    /\ Go(r, IF rest = <<>> THEN "idle" ELSE "get")

(* get_dashboard *)
Get(r) ==
    /\ pc[r] = "get"
    /\ entry' = [entry EXCEPT ![r] = cache[Pupil(r)]]
    /\ since' = [since EXCEPT ![r] = shown[Pupil(r)]]
    /\ Go(r, IF Cached(Pupil(r)) THEN "check" ELSE "points")
    /\ UNCHANGED <<rows, clock, cache, todo, partial, expires, shown, overlapped>>

Hit(r) ==
    /\ pc[r] = "check" /\ clock <= entry[r].until
    /\ Obtain(r, entry[r].data)
    /\ UNCHANGED <<rows, clock, cache, overlapped>>

Expired(r) ==
    /\ pc[r] = "check" /\ clock > entry[r].until
    /\ Go(r, "evict")
    /\ UNCHANGED <<rows, clock, cache, todo, entry, partial, expires, since, shown, overlapped>>

\* Mutated eviction: no second look under the lock.
EvictBlindly(r) ==
    /\ pc[r] = "evict"
    /\ cache' = [cache EXCEPT ![Pupil(r)] = NoEntry]
    /\ Go(r, "points")
    /\ UNCHANGED <<rows, clock, todo, entry, partial, expires, since, shown, overlapped>>

\* `current is entry`: two entries with the same expiry and data stand for
\* one another, both have expired.
Evict(r) ==
    /\ pc[r] = "evict"
    /\ cache' = IF cache[Pupil(r)] = entry[r]
                THEN [cache EXCEPT ![Pupil(r)] = NoEntry] ELSE cache
    /\ Go(r, "points")
    /\ UNCHANGED <<rows, clock, todo, entry, partial, expires, since, shown, overlapped>>

-----------------------------------------------------------------------------
(* aggregate_eleve_dashboard *)

Query(r, at, to, dashboard) ==
    /\ pc[r] = at
    /\ partial' = [partial EXCEPT ![r] = dashboard]
    /\ Go(r, to)
    /\ UNCHANGED <<rows, clock, cache, todo, entry, expires, since, shown>>

Others(r) ==
    {d \in Readers \ {r} : pc[d] \in Aggregating \ {"points"} /\ Pupil(d) = Pupil(r)}

ReadPoints(r) ==
    /\ Query(r, "points", "subjects", [partial[r] EXCEPT !.points = Of(rewards, Pupil(r))])
    /\ overlapped' = IF Others(r) # {} THEN overlapped \cup {Pupil(r)} ELSE overlapped

ReadSubjects(r) ==
    /\ Query(r, "subjects", "global",
             [partial[r] EXCEPT !.subjects = Of(attempts, Pupil(r))])
    /\ UNCHANGED overlapped

\* Mutated aggregation: the points are read last.
ReadPointsLast(r) ==
    /\ Query(r, "global", "stamp",
             [partial[r] EXCEPT !.global = Of(attempts, Pupil(r)),
                                !.points = Of(rewards, Pupil(r))])
    /\ UNCHANGED overlapped

ReadGlobal(r) ==
    /\ Query(r, "global", "stamp",
             [partial[r] EXCEPT !.global = Of(attempts, Pupil(r))])
    /\ UNCHANGED overlapped

(* set_dashboard: the clock is read before the lock is taken *)
Stamp(r) ==
    /\ pc[r] = "stamp"
    /\ expires' = [expires EXCEPT ![r] = clock + TTL]
    /\ Go(r, "set")
    /\ UNCHANGED <<rows, clock, cache, todo, entry, partial, since, shown, overlapped>>

\* Mutated set_dashboard: an entry that is there is kept.
SetIfAbsent(r) ==
    /\ pc[r] = "set"
    /\ cache' = IF Cached(Pupil(r)) THEN cache
                ELSE [cache EXCEPT ![Pupil(r)] =
                         [cached |-> TRUE, until |-> expires[r], data |-> partial[r]]]
    /\ Obtain(r, partial[r])
    /\ UNCHANGED <<rows, clock, overlapped>>

Set(r) ==
    /\ pc[r] = "set"
    /\ cache' = [cache EXCEPT ![Pupil(r)] = 
                  [cached |-> TRUE, until |-> expires[r], data |-> partial[r]]]
    /\ Obtain(r, partial[r])
    /\ UNCHANGED <<rows, clock, overlapped>>

\* A query raises: the request ends with a 500, the cache is as it was.
Fail(r) ==
    /\ pc[r] \in {"points", "subjects", "global"}
    /\ todo' = [todo EXCEPT ![r] = <<>>]
    /\ entry' = [entry EXCEPT ![r] = NoEntry]
    /\ partial' = [partial EXCEPT ![r] = Empty]
    /\ since' = [since EXCEPT ![r] = Empty]
    /\ Go(r, "idle")
    /\ UNCHANGED <<rows, clock, cache, expires, shown, overlapped>>

LookUp(r) ==
    \/ Ask(r) \/ Get(r) \/ Hit(r) \/ Expired(r) \/ Evict(r)
    \/ ReadPoints(r) \/ ReadSubjects(r) \/ ReadGlobal(r) \/ Stamp(r) \/ Set(r)
    \/ Fail(r)

-----------------------------------------------------------------------------
(* Submissions, as Submission.tla has them, and time *)

CommitAttempt(a) ==
    /\ a \notin attempts
    /\ attempts' = attempts \cup {a}
    /\ UNCHANGED <<rewards, clock, cache, reader, shown, overlapped>>

CommitReward(a) ==
    /\ a \in attempts \ rewards
    /\ rewards' = rewards \cup {a}
    /\ UNCHANGED <<attempts, clock, cache, reader, shown, overlapped>>

Tick ==
    /\ clock < MaxClock
    /\ clock' = clock + 1
    /\ UNCHANGED <<rows, cache, reader, shown, overlapped>>

Init ==
    /\ attempts = {}
    /\ rewards = {}
    /\ clock = 0
    /\ cache = [p \in Pupils |-> NoEntry]
    /\ pc = [r \in Readers |-> "idle"]
    /\ todo = [r \in Readers |-> <<>>]
    /\ entry = [r \in Readers |-> NoEntry]
    /\ partial = [r \in Readers |-> Empty]
    /\ expires = [r \in Readers |-> 0]
    /\ shown = [p \in Pupils |-> Empty]
    /\ since = [r \in Readers |-> Empty]
    /\ overlapped = {}

Next ==
    \/ \E r \in Readers : LookUp(r)
    \/ \E a \in Attempts : CommitAttempt(a) \/ CommitReward(a)
    \/ Tick

Spec == Init /\ [][Next]_vars

-----------------------------------------------------------------------------
(* Properties *)

\* Every dashboard that is shown adds up although its three queries see three
\* states of the database: the points are those of attempts that are counted
\* by subject, and all of these are in the global count (the order of the
\* queries in aggregate_eleve_dashboard).
DashboardsAddUp ==
    \A p \in Pupils :
        /\ shown[p].points \subseteq shown[p].subjects
        /\ shown[p].subjects \subseteq shown[p].global

AtLeast(new, old) ==
    /\ old.points \subseteq new.points
    /\ old.subjects \subseteq new.subjects
    /\ old.global \subseteq new.global

\* A look-up never obtains less than what had been shown when it began,
\* whether from the cache or not, unless two aggregations of the pupil have
\* overlapped: the slower one then overwrites the newer entry.
NeverGoesBack ==
    [][\A r \in Readers : pc[r] \in {"check", "set"} /\ todo'[r] # todo[r] =>
          Pupil(r) \in overlapped \/ AtLeast(shown'[Pupil(r)], since[r])]_vars

\* The eviction of get_dashboard never takes an entry that has not expired,
\* although get_dashboard lets go of the lock between its look and the eviction.
\* Nothing is said of the other steps: an invalidation may drop any entry.
FreshStays ==
    [][\A r \in Readers, p \in Pupils :
          pc[r] = "evict" /\ pc'[r] # "evict" /\ Cached(p) /\ clock <= cache[p].until
              => cache'[p].cached]_vars

-----------------------------------------------------------------------------
(* What the documentation says and the code does not do *)

\* A new attempt drops its pupil's entry, so that the next look-up reads it
\* ("explicit invalidate_dashboard (called by the exercises router whenever a
\* new Attempt is created", cache.py): nothing calls invalidate_dashboard.
AttemptInvalidates ==
    [][\A a \in attempts' \ attempts : ~cache'[By[a]].cached]_vars
=============================================================================
