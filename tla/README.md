# ktutor: TLA+ specifications

ktutor is a tutoring service for pupils: a FastAPI/SQLAlchemy backend
(`src/backend/app`), a Next.js front end (`src/frontend`), PostgreSQL for rows,
an S3 bucket (MinIO) for files, ChromaDB for the chunks of course documents, and
external LLM and OCR services. This directory holds TLA+ modules of its
stateful parts, TLC configurations that check them on small instances, and
proofs checked by TLAPS that hold for every size.

Run the commands in this directory:

    tlasany Submission.tla                              parse a module
    tlc -workers 2 -config MCSubmission.cfg MCSubmission.tla
    tlapm SubmissionProofs.tla                          check its proofs

`PROJECT.json` is the index: components, runs, the source lines behind every
definition, the hazards and the properties that watch them, the theorems, and
for each property a mutant, a plausible bug of the code that makes TLC find the
property violated. The mutated definitions stand in the modules just before the
definition they spoil, with a comment that begins with "Mutated"; no
specification uses them.

## 1. The system

### How it runs

One `uvicorn` process serves the API; the commands of `cli.py` are processes of
their own on the same database, bucket and ChromaDB directory. Nothing in the
code prevents several API processes. An `async def` handler whose body has no
`await` runs from beginning to end without the event loop switching: within one
process such handlers never interleave. The `def` handlers (authentication,
users, dashboards) run in a thread pool and do. PostgreSQL runs at its default
READ COMMITTED; the sessions are made with `autoflush=False,
expire_on_commit=False`, so an object read before an external call is written
back as it was read. S3, ChromaDB and PostgreSQL share no transaction.

### Components

| Component | State | Operations | What is hard | Modelled by |
|---|---|---|---|---|
| Correction (`services/correction`, `services/exercises/*_grader`, `api/exercises`) | `attempts` | `submit_exercise`, `submit-qcm`, `submit-text` | MAX + 1 without a lock, a gate on what was read, two writers of attempts | `Submission` |
| Rewards (`services/rewards`) | `reward_ledger`, `user_points`, notifications | `award_points`, level in the reply | a denormalised total, a row lock that cannot lock an absent row, two transactions per submission | `Submission` |
| Evaluations (`services/ocr/evaluation_extractor`, `api/evaluations`) | image in S3, `evaluations`, notifications | upload, manual score, reprocess | rollback by hand, OCR between read and write, crashes | `Evaluations` |
| Documents (`services/rag`, `api/documents`) | file in S3, chunks in ChromaDB, `documents` | upload, the two searches | three stores, a rollback of one of them | `Documents` |
| Exercise generation (`services/exercises/*_generator`) | `exercises` | QCM, free-form, flashcards | row and chunks are read from different stores | `Documents` |
| Agents (`services/agents`) | none | question → answer with sources | which chunks an answer may rest on | `Documents` (retrieval, citations) |
| Chat (`api/chat`) | `conversations`, `messages` | SSE stream, persist at its end | a `finally` after errors, clients that leave, racing inserts and counters | `Chat` |
| Tokens (`api/auth`, `core/auth`) | in-memory blacklist, issued JWTs | login, refresh, logout, the guard of every endpoint | check-then-add on the blacklist, expiry between two looks, a restart that forgets | `Tokens` |
| Accounts (`api/auth` register, `api/users`) | `users`, `parent_child_links` | register, create, change role, add a child | pre-check then insert, write skew on the last admin, row locks, objects of the session that are stale | `Accounts` |
| Dashboards (`services/dashboard`, `api/dashboard`) | TTL cache | aggregate, serve from the cache, evict | three queries that see three states, aggregate-then-set, a look and an eviction under two locks | `Dashboards` |
| Notifications (`api/notifications`) | `notifications` | create (in the transactions above), list, mark read | little: idempotent updates of one's own rows | creation: `Submission`, `Evaluations` |
| Browser session (`lib/api.ts`, `authStore`, `Header`, login form) | pair of tokens, its copy in localStorage, one shared refresh promise | request, 401 handler, login, logout, reload | waiters of one promise, a late answer after the user changed | `Sessions` over `Tokens` |
| Browser stores (`chatStore`, `uploadStore`, `notificationsStore`) | lists, flags | send, upload, poll | guarded by flags | not modelled |
| Hints, chat history, LLM client, embeddings, configuration, logging, i18n, pages | none that others depend on | | | not modelled |

### How they interact

An uploaded document gives chunks; a generator turns the chunks of one document
into an exercise; a submission of the exercise gives attempts, and through the
ledger points, a level and a notification. Agents answer from the same chunks
inside a chat stream. Evaluations are a separate path from an image to a scored
row. Dashboards read attempts and points. Every call but login, register and
refresh passes the guard of the tokens; the browser answers a 401 with a refresh
that all its waiting requests share. The browser polls notifications.

### What makes each part correct

* **Correction and rewards.** Attempt numbers have no hole; at most
  `max_attempts` corrections per exercise, numbered 1, 2, 3; the total is the
  sum of the ledger whatever runs concurrently; attempts and ledger tell one
  story; nothing told or written is taken back; every submission ends.
* **Evaluations.** A row has a score exactly when it says so; every row has its
  image; a reported failure leaves nothing; a score is never erased.
* **Documents.** What a row promises is in the other two stores; a failed upload
  has neither file nor row; answers and exercises come from the documents of
  their own pupil and subject; an indexed document is found.
* **Chat.** What is persisted is what was streamed; no message is lost or
  doubled; the counter is the number of messages; every stream ends.
* **Tokens.** A refresh token is traded once; a token whose revocation was answered
  is not accepted again.
* **Accounts.** Pseudos are unique whatever their case; an administrator remains;
  an answer is true of the tables when it is given; nobody waits for ever.
* **Dashboards.** What is shown adds up, does not go back in time, and is not lost
  from the cache early.
* **Browser session.** A page presents a refresh token once; its tokens are those
  of the user who signed in; every request ends.

## 2. The modules

### CorrectionRules

The pure rules, as operators: `next_correction_level`, `bonus_points`,
`PointsFor` (what `submit_exercise` awards), `get_level`. The thresholds are
constants with the assumption `RulesAssumption`.

### Submission

A submission is one run of the HTTP handler or of a command; its program counter
`pc` is the place between two points where another process can act: a query, a
commit, a wait for a lock. `submit_exercise` is, in order, `Evaluate` (MAX + 1,
the gate, the grade) → `Correct` (commit of the attempt) → `FindPoints` or
`MissPoints`, `OpenPoints` (`SELECT ... FOR UPDATE`, insert of an absent row) →
`Credit` (ledger, total, notification: one commit) → `ShowLevel` (the second
`FOR UPDATE`) → `HandBack` → `Close` (`get_db` closes the session, which drops
the lock). The commands put `Grade` and `StoreGrade` in front and stop after
`Correct`. `Fail` is a database error, an exception or the death of the process
at any place: the open transaction is rolled back and its lock released.

| Variable | Code |
|---|---|
| `graded`, `corrected` | the `attempts` rows of the grader and of the progressive correction |
| `opened`, `total` | the existence and `total_points` of `user_points` rows |
| `holders`, `seen` | who holds the row lock, and the value it read |
| `ledger`, `notified` | `reward_ledger` rows, POINTS_AWARDED notifications |
| `reply` | the level label in the response |

A request names the process that serves it. Handlers of one process do not
interleave (`MayRun`), and one that waits for a lock stops all of them.

### CorrectionPolicy, SubmissionRefinement

`CorrectionPolicy` is what the correction promises, without processes or rows:
an exercise takes at most `MaxAttempts` corrected submissions, numbered by
place; the latest may be rewarded, once; a submission is turned away (`TurnAway`)
only when all of them have been made, and the exercise is shut from then on.
`SubmissionRefinement` maps the rows of `Submission` to it
(`Policy == INSTANCE CorrectionPolicy WITH ...`) and states `ImplementsPolicy`:
that numbers are 1, 2, 3 without repetition, that the exercise closes after the
third and not before, and that only a correction is rewarded. It says so of the
behaviours in which all requests go to the handler of one process (`OneProcess`),
which is how the service is deployed.

### Evaluations

Uploads (`PutObject`, `Extract`, `Persist`, `RemoveObject` and their failures)
and reviews (`LoadRow`, then `ScoreManual`, or `Reread` and `Rewrite`). The
answer of the vision model is a record of which JSON keys are there; `extract`
is `EvaluationExtractor.extract` on it. A session writes the columns that differ
from the ones it loaded (`WriteChanged`): this is what SQLAlchemy's unit of work
does, and it decides what two concurrent reviews leave. `deployment` chooses one
process (handlers without `await` after their first store access: `Free`) or
several.

### Documents

`UploadService.upload` as `PutObject` → `ExtractText` → `AddChunks` →
`PersistDocument`, with `PipelineFails` → `RemoveObject` / `RemoveRaises`; the
three generators as `FindDocument` → `Retrieve` → `PersistExercise`, which differ
in prompts and validation only; agents as `Answer`. ChromaDB is a set of
`[collection, document]` pairs; a collection is reached by its name only
(`collection_name`). The 20-chunk limit of `get_chunks_for_document` cannot empty
a non-empty result and is left out.

### Chat

A stream alternates between the agent's next event (`Token`, `Done`) and its
frame on the way to the browser (`Send`); the loop is left by `Done`, by
`Runaway` (the safety net, which counts `done` as an event), by `AgentRaises` or
by `Disconnect`, and all four go through the `finally`: `Leave` stores whatever
text there is. `_persist_conversation` is `FindConversation` →
`InsertConversation` → `CommitNew`, or → `CommitReused`, with `InsertCollides` for
the unique constraint and `PersistFails` for every other error, which is logged
and swallowed. It has no `await`: in one process two writes do not interleave
(`Free`), in several they do.

| Variable | Code |
|---|---|
| `chunk_count`, `full_response`, `sources` | the locals of `event_generator` |
| `received` | the frames that reached the browser |
| `found` | `conv.message_count` as loaded |
| `conversations` | the row of a pupil and a subject |
| `history`, `answer` | the `messages` rows: question and answer of a stream |

`AnswersAreKept` says nothing of a stream that ended in an error: the code stores
what was sent before it, the documentation says that it must not
(`RefusedIsNotStored`). Persistence is on (`chat_persist_history`, an option of
the tests); texts are lengths. Two messages of one transaction have the same `created_at`, so the order
of a question and its answer is not part of `history`.

### Tokens

The server's side. A pair is an access and a refresh token issued together; a
token is its type and the number of its pair, and tokens of a type expire in the
order of their pairs (`expired` counts them), because lifetimes are fixed. A
request is a record in `job`; its `at` is the point between two steps of the
handler where another thread of the pool may act.

| Variable | Code |
|---|---|
| `revoked` | `_revoked` of `token_blacklist.py`, emptied by `Restart` |
| `pairs` | the pairs `create_access_token` and `create_refresh_token` issued, and the refresh token each replaced |
| `told`, `excused` | history: revocations answered since boot; pairs two requests had passed the check with, or that a restart pardoned |

`DecodeRefresh` (signature, expiry, type, blacklist) → `RotateRefresh` (add the
old jti) → `IssueRefreshed`; `Authorise` is `get_current_user`, after which
`Logout` decodes the token a second time. `Lose` loses a request, its answer, or
ends a handler with an exception. `TokensSpec` has one client step at a time;
`ServerSpec` allows several connections to move at once, which is what a turn of
a page's JavaScript does.

### Sessions

The browser's side, `EXTENDS Tokens`: requests are the clients. JavaScript
runs in turns, so an action here is everything between two awaits that
wait. `Call`, `LoginSubmit` and `LogoutClick` are what the user does; `Succeed`, `Throw`,
`NoRefreshToken`, `StartRefresh`, `JoinRefresh`, `Refreshed`, `RefreshFailed` are
the branches of the response interceptor; `Load` is a new document, which
reads localStorage while the server may be busy with requests of the old one
(`Gone`). `persists` says whether the browser has a localStorage: where it throws,
as in a private window, `readAuthStorage` finds no pair and `writeAuthStorage`
leaves nothing, both without an error. `ServerContract == ServerSpec`: with its page variables hidden,
`Sessions` implements the server specification about which `TokensProofs` proves
its theorems, so that they hold under the browser. `Mount` is `AuthGuard`, which reads
localStorage again: a page takes over what another tab has stored. With one page
open this changes nothing where localStorage works, for the store and its copy
are equal (`OnePageMirrors`); where it throws, it ends the session of the page.

### Accounts

One action per query or commit of a request; INSERT and COMMIT follow one
another without a gap another request could see and are one action. `demoting`
is who holds the row lock of a flushed, uncommitted UPDATE. `loaded` is the
object of the session: when an admin changes his own role it is the one
`get_current_user` loaded, however old (`FetchTarget`), and SQLAlchemy writes only
a role that differs from it (`RoleDiffers`). The unique indexes decide in
`Insert` and `InsertLink`. `CommitFails` rolls back.

### Dashboards

A dashboard is, for each of the three queries, the set of attempts whose rows it
saw. `Get` → `Hit`, or `Expired` → `Evict`, are the two critical sections of
`get_dashboard`; `ReadPoints` → `ReadSubjects` → `ReadGlobal` are the aggregation,
`Stamp` → `Set` is `set_dashboard`, which reads the clock outside the lock.
`FreshStays` is about the eviction of `get_dashboard` alone: that it drops no entry
which another reader has just renewed. Whether a new attempt drops an entry is
`AttemptInvalidates`, see section 3.
`CommitAttempt` and `CommitReward` are the transactions of `Submission`, in its
order.

### MC modules and proof modules

Each `MC...` module holds an instance: requests, spellings, symmetry sets. The
theorems are in `SubmissionProofs`, `EvaluationsProofs`, `DocumentsProofs`,
`ChatProofs`, `TokensProofs`, `SessionsProofs`, `AccountsProofs` and
`DashboardsProofs`.

## 3. What is checked

| Run | Question | Bounds |
|---|---|---|
| `submission` | Are numbers, ledger, total, notifications and levels consistent across processes and failures? Does every wait for the lock end? Does one API process implement `CorrectionPolicy`? | 3 submissions, each in a process of its own, 4 kinds of request (handler, command, a pupil who is not the owner, an exercise that is not corrected); or 3 handlers of one process on 2 exercises |
| `evaluations` | Do rows, images, scores and notifications agree? | 1 copy, 3 reviews, both deployments |
| `documents` | Do the three stores agree, and are answers and exercises made of the right documents? | 2 uploads, 1 generation, 1 question, 2 pupils, 2 subjects |
| `chat` | Is what is stored what was streamed, once, and counted? Does every stream end? | 2 streams, 2 threads, at most 2 events, with or without an earlier exchange, both deployments |
| `tokens` | What are a rotation and a revocation worth when handlers interleave? | 2 connections, 3 pairs, one expiry of each type, any issued token to any endpoint |
| `sessions` | Does a page keep its session, present a token once, and end its requests? Does it use the server as `Tokens` assumes? | 1 page, 2 requests at a time, 2 users, 2 pairs, one expiry of each type, localStorage that works or throws |
| `accounts` | Do pseudos stay unique, admins remain, answers hold, requests end? | 2 requests at a time, any number of them in turn; 2 admins, a parent, a new pseudo in 2 spellings |
| `dashboards` | Does what is shown add up, and not go back? | 2 readers, 2 pupils, 1 attempt with its reward, TTL 1, clock up to 2 |
| `one_server_stalls` | Is every request session closed? **No.** | 2 handlers |
| `evaluations_legible` | Is a score found when the model follows the prompt? **No.** | 1 copy, 1 review |
| `chat_refused` | Is nothing stored of a stream that ends in an error? **No.** | 1 stream |
| `sessions_logout` | Does the logout request carry the access token? **No.** | as `sessions` |

**Why the bounds are enough.** Races on a row need two writers; three submissions
add a third that acts between their steps, and let a gap in the numbers show (a
hole needs a number 2 at least). `MaxAttempts` is 2 in the run, so that the third
submission meets the closed gate; the code's value is 3, and the theorems hold for
every value. `CONSTRAINT Deployed` picks the initial states of the two
deployments, and one order of the submissions, which are interchangeable. The
level thresholds are lowered (6 and 12
points for 5 and 2 points a success) so that two or three successes cross both.
One copy suffices for evaluations, since no code relates two copies; three
reviews let one load, another write and a third read the mixture. Two uploads
let a document of the wrong pupil or subject exist beside the right one. Two chat
streams race for one row; two events are a token and `done`, or a token that
reaches the limit and the event past it.
`TopK = 1` for questions: with two documents a citation may then leave one out.
Two connections suffice for the races on a refresh token, since a third would
only repeat one of the two places; three pairs are a pair, the two it is traded
for in a race, or a chain of two rotations. Two requests are enough for a shared
refresh, one that starts it and one that joins it, and a logout or a login beside
it. The two users are alike, and no definition names one, so the run calls the
first who is given tokens alice (`CONSTRAINT FirstIsAlice`): a behaviour that begins
with bob is the same with the names exchanged, the liveness property included. In `accounts` two role changes can demote each other, demote one admin
twice, or overlap a promotion; two registrations in two spellings meet at
the unique index. In `dashboards` one attempt is read at any point of two
aggregations, and the clock passes one TTL; the parent's list makes one reader go
from one pupil to the next while the other is inside.
Symmetry sets contain only what no definition tells apart, and are not used in
the run of a liveness property; there `submission` orders its interchangeable
submissions by their requests, which are fixed in the initial state.

**What the properties excuse.** Four of them name the interleaving in which the
code does not keep them, through a history variable, and say that there is no other
one: `TradedOnce` excuses a token with which two refreshes had passed the
blacklist before either added it, or that a restart forgot; `AdminRemains`
excuses overlapping role changes; `NeverGoesBack` excuses overlapping
aggregations of one pupil; `SessionIsTheUsers` excuses a refresh that was under way
while the user changed. A mutant of each shows that the excuse does not
swallow everything.

**Fairness.** `Submission` has `WF_vars(Step(s))` for each submission,
that is, a process that can run is run by the operating system, and PostgreSQL
wakes the waiters of a released lock. Nothing makes `Fail` happen. Weak fairness
suffices because a lock is handed to a waiter a finite number of times (a
submission takes it at most twice). `Chat` has weak fairness of
`Generating(s) \/ Persisting(s)`: the event loop resumes every stream, and the
OpenAI client behind the agents either delivers or gives up after its own time
limit (the code sets none). Neither errors nor
departures are fair, so that only the safety net ends a talkative agent. A
stream whose insertion waits for another's is released by that one's commit,
failure or death. `Sessions` has weak fairness of an exchange under way (it is
served or it breaks: a connection does not hang for ever) and of a page's
reaction to its end; the user, time and restarts are not fair. `Accounts` has
strong fairness of a request's steps: PostgreSQL hands the lock of a row to its
waiters in turn, so a request that finds its row free again and again gets it.
The specifications of `Evaluations`, `Documents`, `Tokens` and `Dashboards` state
no fairness and no liveness: there every step stands by itself, or a crash may
end any operation.

**Deadlock** is not checked: operations run once, or pairs, attempts and time are
bounded, so the instances stop.

### What the violated properties show

Each states a sentence of the repository which the code does not keep; the
sentences are quoted under "findings" in `PROJECT.json`.

* `EverySessionCloses` in one process: `submit_exercise` takes a row lock it
  releases only when the session is closed, which needs the event loop; the next
  submission of the pupil may block the loop on that lock first.
* `LegibleScoreIsFound`: the prompt asks for keys the parser does not read.
* `LogoutCarriesBearer`: the header empties the store before the request
  interceptor reads it, so the logout is refused and revokes nothing.
* `RefusedIsNotStored`: the `return` in the `except` branch of the chat stream does
  not skip the `finally`, so what was sent before a ValueError is stored as the
  answer. `chat/router.py:266-271` and `:277-280`, ADR 015 and a test say that no row
  is written; the stub of the test raises before it has sent anything.

Other differences between the code and its comments that the modules have as the
code has them, without a run of their own:

* `submit-qcm` and `submit-text` store two attempts per submission (the grader's
  and the correction's), so an exercise is closed after one correction by command,
  not three.
* Exceptions of the HTTP client that are not `OcrError` pass the rollback of an
  evaluation upload (`Extract`'s failures): the image stays.
* A document whose row cannot be committed leaves its chunks, which questions go
  on citing (`PersistDocument`, `RemoveObject`).
* A new attempt does not drop the dashboard of its pupil. `services/dashboard/cache.py`
  says it does ("called by the exercises router whenever a new Attempt is
  created", lines 6-9, and again at 95-101), and so do the docstrings of the
  routers (`eleve.py:27-32`, `parent.py:24-27`). Nothing calls
  `invalidate_dashboard`, so a dashboard may be as old as its TTL.
  `Dashboards!AttemptInvalidates` states the sentence, and
  `tlc -config MCDashboardsInvalidation.cfg MCDashboards.tla` shows the
  counterexample: a look-up fills the entry, `CommitAttempt` leaves it.
* `authStore.ts` swallows the errors of localStorage "so the app still works without
  persistence" (lines 28-31) and says that "a storage failure must not break login"
  (124). `AuthGuard.tsx:36-40` hydrates again at every mount, though, and a store
  that cannot read localStorage empties itself: in such a browser the session
  ends at the first navigation that mounts the guard (`Mount` with `~persists`).
* The blacklist's docstring bounds the window a restart opens by the 30 minutes of
  an access token; a rotated refresh token is pardoned for its 7 days
  (`Restart`, `excused`).
* `defaultRefresh` returns the role `eleve` for every user (`lib/api.ts:97`); the
  role is not part of `Sessions`.

`ImplementsPolicy` holds with one process and the handler only; with several processes two
submissions may share a number, and the code has no constraint against it.
Likewise `CountIsExact` is stated for one process: with several, two streams of a
thread read the same `message_count` and one increment is lost, which is what
`ConversationsMatchMessages` still bounds, and the loser of two first insertions
loses its two messages.

## 4. What is proved

Every theorem holds for all values of its module's constants: any number of
submissions, pupils, exercises, documents, copies or streams, and any thresholds.
Those of `SubmissionProofs` rest on `RulesAssumption` and `SubmissionAssumption`
(finitely many submissions, requests and owners of the right type).

* `TypeCorrect` in `SubmissionProofs`, `EvaluationsProofs`, `DocumentsProofs`,
  `ChatProofs`, `AccountsProofs`: `Spec => []TypeOK`; in `TokensProofs`:
  `ServerSpec => []TokensTypeOK`.
* `SubmissionProofs!NumbersNeverGap`: `Spec => []NumbersWithoutGaps`. The
  invariant alone is not inductive: a submission holds a number it read earlier
  and stores it later. `NumbersInv` adds `PendingNumberFollows`, that the number
  below a pending one is already stored, which stays true because rows are never
  removed.
* `SubmissionProofs!TotalIsSumOfLedger`: `Spec => []TotalMatchesLedger`. The inductive
  invariant `RewardInv` adds `LockInv`: at most one submission of a pupil holds
  the lock, only at the places where the code does, one about to credit holds it
  and has seen the current total, a pupil without a row has 0; and
  `RowsFollowPlace`: which rows a submission may have written at each place. The
  step that credits needs the cardinality lemmas: a new successful entry adds one
  to the set of successful entries, and to that of first tries if its number is 1.
* `SubmissionProofs!LedgerFollowsAttempts`, `LevelIsKept`, `NothingIsRewritten`: the
  other invariants of the run and the action property, from `RewardInv`.
* `SubmissionProofs!SubmissionsImplementPolicy`: `Spec => ImplementsPolicy`, under
  the hypothesis `OneProcess`, which the property carries: every request is of the
  HTTP handler, so that no command runs on the same exercise, and of one process,
  which is how the service is deployed. `request` is fixed in the initial state,
  so the hypothesis holds always or never (`OneProcessStays`). The run
  `submission` has initial states with it and without it; without it the
  refinement is false, as section 3 says. The inductive invariant is `RewardInv` and `PolicyInv`: one handler at a time is between its
  first query and its answer (`HandlersAlone`), the corrections of an exercise
  carry the numbers 1 to their count, each once (`Numbered`), and the number a
  handler has read is still the next one when it is stored and the latest when it
  is rewarded (`LatestInHandler`). One lemma per step that shows in the policy
  (`Correct`, `Credit`, `EvaluateCloses`), and one for the steps that stutter.
  `CorrectionsAreNumbered` and `ClosedAfterFullCorrection` (with `ShutInv`: the
  level of a row is the one its number and outcome call for) say what a pupil
  sees of it, under the same hypothesis; the second needs `MaxAttempts >= 3`, the default, because
  `next_correction_level` has the numbers 1 and 2 for hints.
* `DocumentsProofs`: all invariants of the run `documents` and its action
  property, from `DocumentsAssumption`. Inductive invariant `DocumentsInv`: every
  chunk is in the collection of its document's owner and subject, and the place of
  an upload tells what each store holds of it (`StoresInv`); a generation past
  `FindDocument` has an existing row of its pupil, past `Retrieve` an indexed one
  of its subject (`GenerationsInv`). The last point is what makes the missing
  comparison of subjects harmless: a chunk found in the collection of the
  requested subject can only be there if the document is of that subject.
* `EvaluationsProofs`: all invariants of the run `evaluations` and both action
  properties, from `EvaluationsAssumption`. Inductive invariant `EvaluationsInv`:
  `CopiesInv` (row, image, notification by place), `ReviewsInv` (what a review has
  loaded had no score, so a column it leaves alone never hides one). With one
  process `AloneInv` adds that a single operation is past its first access, from
  which `ScoreIsFinal` follows.

* `ChatProofs`: all invariants of the run `chat`, from `ChatAssumption`. Inductive
  invariant `ChatInv`: `FramesInv` (what is accumulated is what was sent, or one
  token more), `StoredInv` (the messages of a thread are those of its ended
  streams, each once), `RowsInv` (what a write has read is never more than what is
  there; a pending insertion is alone and its thread empty) and, with one process,
  `AloneInv` (a single write at a time, which finds the row as it read it).

* `TokensProofs`, of `ServerSpec`, so that the result holds for any clients, the
  pages of `Sessions` among them. `Revocation`: `RevokedNeverAccepted`, from
  `RevokedInv` (a told token is in the blacklist or has expired; a request about to
  tell one has added it). `TradesAreSingle`: `[]TradedOnce`, from `TradesInv`: that
  a refresh token was traded can be read off the blacklist unless the pair is
  excused (`TradesRevoke`), and a request past the check is alone with its token
  and finds it untraded (`Alone`). From `TokensAssumption`.
* `SessionsProofs`, for any number of pages, requests of a page, users and pairs,
  from `SessionsAssumption`. `PagesAreClients`: `Spec => ServerContract`, each
  turn of a page being a step of some clients, one of the server, or a stutter;
  `PagesTradeOnce` carries the theorems of `TokensProofs` over. The inductive
  invariant `SessionsInv` has `PagesInv` (a request waits for its page's
  `refreshPromise` and for nothing else, and who owns the promise is itself
  waiting), `FreshInv` (a pair that was answered and not yet taken is nowhere
  else; while no refresh is under way neither the store nor localStorage holds a
  pair the page has presented) and `UserInv` (`RefreshOK`: the token a refresh trades, and the pair
  it is answered with, are of the page's user, unless `straddled`).
  `OnePageMirrors` says what a single page may rely on in each kind of browser: the
  store and its copy are equal, or there is no copy at all.
  `TokensArePresentedOnce`, `SessionsBelongToUsers`, `NobodyWaitsInVain` and
  `StorageIsUnspent` follow. TLC checked `SessionsInv` on one page with two requests
  and on two pages with one request each before it was proved.
* `AccountsProofs`, from `AccountsAssumption` (the initial accounts have unique
  pseudos and an admin). `PseudosAreUnique` is inductive with the types.
  `AnAdminRemains`: between its count and its commit a demotion must keep the
  admin it counted, which it does while it is alone (`AdminInv`). `AnswersHold`:
  a 200 may name a role seen at the fetch, perhaps on a stale object; `HeldInv` ties
  the loaded object to the roles the target has had since; `RequestOK` says which
  accounts a request at each step has already found, and accounts stay.
* `DashboardsProofs`. `FreshEntriesStay` from `EvictInv` (who is about to evict has
  an expired entry in hand, and evicts only that one). `DashboardsConsistent` from
  `AddInv`: tables only grow and a reward follows its attempt, so what an earlier
  query saw a later one sees. `LookUpsDoNotGoBack` from `BackInv`: whatever is
  `Known` of a pupil (cached, shown, or in a reader's hand) was read from tables
  that only grow; an aggregation alone past its first query (`Single`) read after
  all that is known was stored and so `Covers` it; and the cache is at least as
  good as what was shown and as what a hit has in hand (`Ordered`). From
  `DashboardsAssumption`.

**Behind the liveness properties.** Liveness under fairness, and `ENABLED`, are out
of the reach of this prover. The safety half of those arguments is proved: no operation goes
round in circles, and none waits in one.

* `SubmissionsRunDown`, `StreamsRunDown`, `RequestsRunDown`: a `Distance` bounds the
  steps an operation still has; every step lowers that of one operation (or
  begins a request of `Accounts`) and leaves the others alone.
* `SubmissionProofs!WaitsAreForOne`, `ChatProofs!WaitsAreForWriters`,
  `AccountsProofs!WaitsAreForOne`: who waits for a lock waits for an operation that
  waits for none. That an operation which neither waits nor has ended can step is
  what TLC's run of the liveness property adds. A holder of the row lock may wait
  for the event loop of its process instead, which is why `EverySubmissionEnds` is
  stated for processes that run one handler each: this is the run
  `one_server_stalls`.
* `SessionsProofs!NobodyWaitsInVain`: a request that waits has an exchange under
  way, or answered, to wait for.

**Only model-checked:** the liveness properties `EverySubmissionEnds`,
`EveryStreamEnds`, `RequestsEnd` and `EveryRequestAnswered`. Every invariant, action
property and refinement of a passing run is proved.

## 5. What is abstracted

* Texts: hints, solutions, prompts, answers of models, messages. The verdict of a
  grader and the outcome of an external call are free choices; a retry loop around
  a model is its final success or failure.
* A document's chunks are one element of the index: `collection.add` is one call.
* A commit succeeds or fails as a whole; a commit whose acknowledgement is lost
  (it took place, the client sees an error) is not modelled.
* Pseudos, ids and file names are model values; the regular expressions that admit
  them are refusals chosen freely.
* The `api/exercises` router exists but `main.py` does not include it; it is
  modelled as written.
* The files of a crashed upload stay in the bucket for ever: no code collects
  them, and no property asks for it.
* Signatures and claims of tokens: only issued tokens exist. Passwords are a
  free choice of `LoginSucceeds` or `LoginRefused`.
* localStorage works, or throws, for the life of a browser. One that can be read but
  not written, because its quota is used up, is not modelled: there the
  store may be newer than its copy, which a reload goes back to.
* Lifetimes of tokens and of cache entries are orders, not durations: a token of an
  older pair expires first; `TTL` is in ticks of a clock that may stand still.

## 6. Not modelled, and the plan

Not modelled:

* The browser stores. `chatStore.send` returns while `isStreaming`, and no
  component calls `reset()` of the chat or `markRead()` of the notifications;
  `uploadStore` and the polls replace their state by each answer. There is no
  interleaving a model would add to.
* Chat history, `list_children` and the cross-tenant guards: read-only.
* Marking notifications as read: an idempotent update of one's own rows.
* Hints (no state, never raises), the LLM client and embeddings (their failures
  are choices of the callers), prompts and validation of model output (pure).
* Two browser tabs in a run: they share localStorage but not their stores, so that one
  presents a token the other has rotated, and its failure wipes the storage of
  both. `Sessions` has this with two `Pages`, and the theorems of
  `SessionsProofs` hold for it (but for `OnePageMirrors`). The run `sessions` has one
  page with two requests, since two such pages exceed what TLC enumerates in some
  minutes; no liveness is claimed of several pages.
* Rendering, logging, metrics, configuration, translations, migrations.

What is left of the plan:

1. Abstract specifications of the other components in the manner of
   `CorrectionPolicy` (a register of accounts without sessions for `Accounts`, a
   thread of messages without transactions for `Chat`), with their refinements
   proved.
2. What two tabs may promise each other beyond `StorageIsUnspent`.
