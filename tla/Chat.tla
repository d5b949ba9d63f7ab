-------------------------------- MODULE Chat --------------------------------
(***************************************************************************)
(* The chat stream: the tokens of an agent forwarded to the browser as     *)
(* server-sent events, and the question and answer stored when the stream  *)
(* closes, however it closes.                                              *)
(*                                                                         *)
(*   streaming <-> sending        one turn per event of the agent          *)
(*   streaming -> find -> insert -> commit -> ended                        *)
(*                find -> update -> ended                                  *)
(*                                                                         *)
(* A thread is a pupil and a subject: it has at most one conversation row. *)
(* The write is best effort: its failures are logged and the stream ends.  *)
(* It has no await, so that in one server process two writes do not        *)
(* interleave; in several they do.                                         *)
(***************************************************************************)
EXTENDS Naturals, Sequences, FiniteSets

CONSTANTS
    Streams,        \* requests to /api/chat/stream, each with its question
    Threads,        \* pairs of a pupil and a subject
    MaxChunks,      \* chat_stream_max_chunks
    Deployments,    \* subset of {"one process", "several processes"}
    Earlier,        \* an exchange that was stored before
    None            \* NULL

ASSUME ChatAssumption ==
    /\ MaxChunks \in Nat
    /\ Deployments \subseteq {"one process", "several processes"}
    /\ None \notin Streams \cup {Earlier}
    /\ Earlier \notin Streams

VARIABLES
    deployment, \* how many server processes run
    pc,         \* where each stream is
    thread,     \* pupil and subject of each stream
    chunk_count,    \* events of the agent taken so far
    full_response,  \* how many tokens with text the handler has accumulated
    received,   \* how many of them the browser has been sent
    outcome,    \* how the loop over the events ended
    sources,    \* final_sources is not empty
    found,      \* message_count as the write read it, 0 for no row
    conversations,  \* the row of each thread: [first_question, message_count]
    history,    \* streams whose two messages are stored, by thread, in order
    answer      \* the assistant message of each stream: [text, sources]

streamVars == <<chunk_count, full_response, received, outcome, sources>>
rowVars == <<conversations, history, answer>>
vars == <<deployment, pc, thread, streamVars, found, rowVars>>

Exchanges == Streams \cup {Earlier}
NoRow == [first_question |-> None, message_count |-> 0]
NoAnswer == [text |-> 0, sources |-> FALSE]

Writing == {"insert", "update", "commit"}
Final == {"ended", "collided", "write_failed", "dead"}
Outcomes == {"open", "done", "runaway", "error", "left"}

Goto(s, place) == pc' = [pc EXCEPT ![s] = place]

Init ==
    /\ deployment \in Deployments
    /\ pc = [s \in Streams |-> "streaming"]
    /\ thread \in [Streams -> Threads]
    /\ chunk_count = [s \in Streams |-> 0]
    /\ full_response = [s \in Streams |-> 0]
    /\ received = [s \in Streams |-> 0]
    /\ outcome = [s \in Streams |-> "open"]
    /\ sources = [s \in Streams |-> FALSE]
    /\ found = [s \in Streams |-> 0]
    /\ history \in [Threads -> {<<>>, <<Earlier>>}]
    /\ conversations = [t \in Threads |->
            IF history[t] = <<>> THEN NoRow
            ELSE [first_question |-> Earlier, message_count |-> 2]]
    /\ answer = [s \in Streams |-> NoAnswer]

-----------------------------------------------------------------------------
(* event_generator *)

\* "if persist and full_response": an empty answer is not stored.
Persists(s) == full_response[s] > 0

\* The loop is left, the "finally" runs.
Leave(s, why) ==
    /\ outcome' = [outcome EXCEPT ![s] = why]
    /\ Goto(s, IF Persists(s) THEN "find" ELSE "ended")

\* Mutated order: the safety net is looked at after the token is taken in.
TokenOnePast(s) ==
    /\ pc[s] = "streaming"
    /\ chunk_count[s] <= MaxChunks
    /\ chunk_count' = [chunk_count EXCEPT ![s] = @ + 1]
    /\ \E text \in {0, 1} : full_response' = [full_response EXCEPT ![s] = @ + text]
    /\ Goto(s, "sending")
    /\ UNCHANGED <<deployment, thread, received, outcome, sources, found, rowVars>>

\* Mutated snapshot: the sources are taken from the retrieval, not from "done".
TokenWithSources(s) ==
    /\ pc[s] = "streaming"
    /\ chunk_count[s] < MaxChunks
    /\ chunk_count' = [chunk_count EXCEPT ![s] = @ + 1]
    /\ \E text \in {0, 1} : full_response' = [full_response EXCEPT ![s] = @ + text]
    /\ sources' = [sources EXCEPT ![s] = TRUE]
    /\ Goto(s, "sending")
    /\ UNCHANGED <<deployment, thread, received, outcome, found, rowVars>>

\* A token, perhaps empty: accumulated, then yielded.
Token(s) ==
    /\ pc[s] = "streaming"
    /\ chunk_count[s] < MaxChunks
    /\ chunk_count' = [chunk_count EXCEPT ![s] = @ + 1]
    /\ \E text \in {0, 1} : full_response' = [full_response EXCEPT ![s] = @ + text]
    /\ Goto(s, "sending")
    /\ UNCHANGED <<deployment, thread, received, outcome, sources, found, rowVars>>

\* The frame is on its way to the browser.
Send(s) ==
    /\ pc[s] = "sending"
    /\ received' = [received EXCEPT ![s] = full_response[s]]
    /\ Goto(s, "streaming")
    /\ UNCHANGED <<deployment, thread, chunk_count, full_response, outcome, sources, found,
                   rowVars>>

\* The agent's last event, with the sources it rests on.
Done(s) ==
    /\ pc[s] = "streaming"
    /\ chunk_count[s] < MaxChunks
    /\ chunk_count' = [chunk_count EXCEPT ![s] = @ + 1]
    /\ \E cited \in BOOLEAN : sources' = [sources EXCEPT ![s] = cited]
    /\ Leave(s, "done")
    /\ UNCHANGED <<deployment, thread, full_response, received, found, rowVars>>

\* Mutated safety net: the surplus event is dropped, the loop goes on.
RunawayIgnored(s) ==
    /\ pc[s] = "streaming"
    /\ chunk_count[s] >= MaxChunks
    /\ Goto(s, "sending")
    /\ UNCHANGED <<deployment, thread, streamVars, found, rowVars>>

\* One event too many, be it "done": an error frame, and the loop is left.
Runaway(s) ==
    /\ pc[s] = "streaming"
    /\ chunk_count[s] >= MaxChunks
    /\ chunk_count' = [chunk_count EXCEPT ![s] = MaxChunks + 1]
    /\ Leave(s, "runaway")
    /\ UNCHANGED <<deployment, thread, full_response, received, sources, found, rowVars>>

\* The agent raises a ValueError: an error frame, return, "finally".  Any
\* other exception goes through the "finally" too.
AgentRaises(s) ==
    /\ pc[s] = "streaming"
    /\ Leave(s, "error")
    /\ UNCHANGED <<deployment, thread, chunk_count, full_response, received, sources, found,
                   rowVars>>

\* The browser goes away: the generator is cancelled where it waits.
Disconnect(s) ==
    /\ pc[s] \in {"streaming", "sending"}
    /\ Leave(s, "left")
    /\ UNCHANGED <<deployment, thread, chunk_count, full_response, received, sources, found,
                   rowVars>>

-----------------------------------------------------------------------------
(* _persist_conversation *)

\* Mutated write: an await lets the other streams of the process run.
AlwaysFree(s) == s \in Streams

Free(s) == deployment = "one process" => \A t \in Streams : pc[t] \notin Writing

\* Read the row of the thread, without a lock.
FindConversation(s) ==
    /\ pc[s] = "find"
    /\ Free(s)
    /\ found' = [found EXCEPT ![s] = conversations[thread[s]].message_count]
    /\ Goto(s, IF found'[s] = 0 THEN "insert" ELSE "update")
    /\ UNCHANGED <<deployment, thread, streamVars, rowVars>>

\* An insertion of the same key that has not committed yet.
Pending(t) == {s \in Streams : thread[s] = t /\ pc[s] = "commit"}

\* Flush of the INSERT: the unique constraint makes it wait for another one.
InsertConversation(s) ==
    /\ pc[s] = "insert"
    /\ Pending(thread[s]) = {}
    /\ conversations[thread[s]] = NoRow
    /\ Goto(s, "commit")
    /\ UNCHANGED <<deployment, thread, streamVars, found, rowVars>>

\* Another stream has committed the row: IntegrityError, logged.
InsertCollides(s) ==
    /\ pc[s] = "insert"
    /\ conversations[thread[s]] # NoRow
    /\ Goto(s, "collided")
    /\ UNCHANGED <<deployment, thread, streamVars, found, rowVars>>

\* The two messages of a stream.
StoreMessages(s) ==
    /\ history' = [history EXCEPT ![thread[s]] = Append(@, s)]
    /\ answer' = [answer EXCEPT
            ![s] = [text |-> full_response[s], sources |-> sources[s]]]

CommitNew(s) ==
    /\ pc[s] = "commit"
    /\ conversations' = [conversations EXCEPT
            ![thread[s]] = [first_question |-> s, message_count |-> 2]]
    /\ StoreMessages(s)
    /\ Goto(s, "ended")
    /\ UNCHANGED <<deployment, thread, streamVars, found>>

\* Mutated upsert: the question of a reused conversation is overwritten.
CommitReplacing(s) ==
    /\ pc[s] = "update"
    /\ conversations' = [conversations EXCEPT
            ![thread[s]] = [first_question |-> s, message_count |-> found[s] + 2]]
    /\ StoreMessages(s)
    /\ Goto(s, "ended")
    /\ UNCHANGED <<deployment, thread, streamVars, found>>

\* Mutated count: one message per stream.
CommitOne(s) ==
    /\ pc[s] = "update"
    /\ conversations' = [conversations EXCEPT
            ![thread[s]].message_count = found[s] + 1]
    /\ StoreMessages(s)
    /\ Goto(s, "ended")
    /\ UNCHANGED <<deployment, thread, streamVars, found>>

\* UPDATE of the count read before, INSERT of the messages, COMMIT.
CommitReused(s) ==
    /\ pc[s] = "update"
    /\ conversations' = [conversations EXCEPT
            ![thread[s]].message_count = found[s] + 2]
    /\ StoreMessages(s)
    /\ Goto(s, "ended")
    /\ UNCHANGED <<deployment, thread, streamVars, found>>

\* The database refuses (an answer longer than its column, no connection):
\* logged, nothing stored.
PersistFails(s) ==
    /\ pc[s] \in {"find"} \cup Writing
    /\ pc[s] = "find" => Free(s)
    /\ Goto(s, "write_failed")
    /\ UNCHANGED <<deployment, thread, streamVars, found, rowVars>>

-----------------------------------------------------------------------------
\* The process of a stream dies.
Die(s) ==
    /\ pc[s] \notin Final
    /\ Goto(s, "dead")
    /\ UNCHANGED <<deployment, thread, streamVars, found, rowVars>>

Generating(s) ==
    Token(s) \/ Send(s) \/ Done(s) \/ Runaway(s) \/ AgentRaises(s)

Persisting(s) ==
    \/ FindConversation(s) \/ InsertConversation(s) \/ InsertCollides(s)
    \/ CommitNew(s) \/ CommitReused(s) \/ PersistFails(s)

Next == \E s \in Streams : Generating(s) \/ Persisting(s) \/ Disconnect(s) \/ Die(s)

\* The event loop runs every stream, and the agent goes on: the client of the
\* LLM gives up after a time.  Nothing makes a browser leave.
Fairness == \A s \in Streams : WF_vars(Generating(s) \/ Persisting(s))

Spec == Init /\ [][Next]_vars /\ Fairness

-----------------------------------------------------------------------------
(* Properties *)

TypeOK ==
    /\ deployment \in Deployments
    /\ pc \in [Streams -> {"streaming", "sending", "find"} \cup Writing \cup Final]
    /\ thread \in [Streams -> Threads]
    /\ chunk_count \in [Streams -> 0..(MaxChunks + 1)]
    /\ full_response \in [Streams -> 0..MaxChunks]
    /\ received \in [Streams -> 0..MaxChunks]
    /\ outcome \in [Streams -> Outcomes]
    /\ sources \in [Streams -> BOOLEAN]
    /\ found \in [Streams -> Nat]
    /\ conversations \in
          [Threads -> [first_question : Exchanges \cup {None}, message_count : Nat]]
    /\ history \in [Threads -> Seq(Exchanges)]
    /\ answer \in [Streams -> [text : 0..MaxChunks, sources : BOOLEAN]]

Stored == {s \in Streams : \E i \in DOMAIN history[thread[s]] : history[thread[s]][i] = s}

\* The row of a thread exists exactly when it has messages, it keeps the
\* question of the first of them, and no concurrent write makes it count
\* messages that are not there.
ConversationsMatchMessages ==
    \A t \in Threads :
        /\ conversations[t] = NoRow <=> history[t] = <<>>
        /\ history[t] # <<>> => conversations[t].first_question = Head(history[t])
        /\ conversations[t].message_count <= 2 * Len(history[t])

\* In one process the denormalised count is exact: no increment is lost,
\* although the count is incremented in Python.
CountIsExact ==
    deployment = "one process" =>
        \A t \in Threads : conversations[t].message_count = 2 * Len(history[t])

\* A stored answer is what was streamed, but for the one token that was on
\* its way when the browser left; it has sources only if the stream came to
\* its end.
StoredIsStreamed ==
    \A s \in Stored :
        /\ answer[s].text > 0
        /\ answer[s].text \in {received[s], received[s] + 1}
        /\ answer[s].text # received[s] => outcome[s] = "left"
        /\ answer[s].sources => outcome[s] = "done"

\* A stream is stored at most once, and its answer is lost only to an agent that
\* raises, a crash, a failure of the database, or, with several processes, to
\* the stream that opened the conversation at the same time.  Nothing is asked
\* of the text sent before the agent raised: see RefusedIsNotStored.
AnswersAreKept ==
    /\ \A s \in Streams : pc[s] = "ended" /\ outcome[s] # "error" =>
          (s \in Stored <=> full_response[s] > 0)
    /\ \A s \in Streams : pc[s] = "collided" =>
          /\ deployment = "several processes"
          /\ history[thread[s]] # <<>>
    /\ \A t \in Threads : \A i, j \in DOMAIN history[t] :
          history[t][i] = history[t][j] => i = j

\* No agent keeps a stream open for ever: the safety net closes it.
EveryStreamEnds == <>(\A s \in Streams : pc[s] \in Final)

-----------------------------------------------------------------------------
(* What the documentation says and the code does not do *)

\* A stream whose agent raises a ValueError leaves no row: "No persistence on
\* this branch", the return skips the finally (event_generator, ADR 015,
\* Decision 4).
RefusedIsNotStored == \A s \in Stored : outcome[s] # "error"
=============================================================================
