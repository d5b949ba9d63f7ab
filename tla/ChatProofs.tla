----------------------------- MODULE ChatProofs -----------------------------
(***************************************************************************)
(* What a chat stream stores is what it streamed, once, and its row agrees *)
(* with its messages: for any number of streams and threads, any limit, in *)
(* one process or several.                                                 *)
(***************************************************************************)
EXTENDS Chat, TLAPS

\* What was streamed, what is accumulated and how the loop ended.
Framed(s) ==
    /\ received[s] <= full_response[s] /\ full_response[s] <= received[s] + 1
    /\ full_response[s] # received[s] =>
          pc[s] \in {"sending", "dead"} \/ outcome[s] = "left"
    /\ full_response[s] <= chunk_count[s]
    /\ pc[s] \in {"streaming", "sending"} => outcome[s] = "open" /\ chunk_count[s] <= MaxChunks
    /\ sources[s] => outcome[s] = "done"
    /\ pc[s] \in {"find"} \cup Writing => full_response[s] > 0

FramesInv == \A s \in Streams : Framed(s)

\* The messages of a thread are those of its ended streams, each once.
StoredInv ==
    /\ \A t \in Threads : \A i \in DOMAIN history[t] : \A s \in Streams :
          history[t][i] = s =>
              /\ thread[s] = t /\ pc[s] = "ended" /\ full_response[s] > 0
              /\ answer[s] = [text |-> full_response[s], sources |-> sources[s]]
    /\ \A t \in Threads : \A i, j \in DOMAIN history[t] :
          history[t][i] = history[t][j] => i = j
    /\ \A s \in Streams : pc[s] = "ended" /\ full_response[s] > 0 => s \in Stored

\* The row of a thread, and what the writes under way have read of it.
RowsInv ==
    /\ ConversationsMatchMessages
    /\ \A t \in Threads : history[t] # <<>> => conversations[t].message_count >= 2
    /\ \A s \in Streams :
          /\ found[s] <= 2 * Len(history[thread[s]])
          /\ pc[s] = "update" => found[s] >= 2
          /\ pc[s] = "commit" => history[thread[s]] = <<>>
          /\ pc[s] = "collided" => history[thread[s]] # <<>>
    /\ \A r, s \in Streams :
          pc[r] = "commit" /\ pc[s] = "commit" /\ thread[r] = thread[s] => r = s

\* In one process a write that has begun finds the row as it read it.
AloneInv ==
    deployment = "one process" =>
        /\ \A r, s \in Streams : pc[r] \in Writing /\ pc[s] \in Writing => r = s
        /\ \A t \in Threads : conversations[t].message_count = 2 * Len(history[t])
        /\ \A s \in Streams :
              /\ pc[s] = "insert" => history[thread[s]] = <<>>
              /\ pc[s] = "update" => found[s] = 2 * Len(history[thread[s]])
              /\ pc[s] # "collided"

ChatInv == TypeOK /\ FramesInv /\ StoredInv /\ RowsInv /\ AloneInv

-----------------------------------------------------------------------------
(* Constants and sequences *)

LEMMA ChatConstants ==
    /\ MaxChunks \in Nat
    /\ \A s \in Streams : s # Earlier /\ s # None
    /\ Earlier # None
  BY ChatAssumption, Zenon DEF ChatAssumption

LEMMA AppendFacts ==
    ASSUME NEW S, NEW q \in Seq(S), NEW e \in S
    PROVE  /\ Append(q, e) \in Seq(S)
           /\ Len(Append(q, e)) = Len(q) + 1
           /\ Append(q, e) # <<>>
           /\ DOMAIN q = 1..Len(q)
           /\ DOMAIN Append(q, e) = 1..(Len(q) + 1)
           /\ \A i \in 1..Len(q) : Append(q, e)[i] = q[i]
           /\ Append(q, e)[Len(q) + 1] = e
           /\ Head(Append(q, e)) = IF q = <<>> THEN e ELSE Head(q)
           /\ Len(q) \in Nat
           /\ q # <<>> => Len(q) > 0
  OBVIOUS

LEMMA NoneIsFewer == ~(0 >= 2)
  OBVIOUS

LEMMA TwoMore ==
    ASSUME NEW n \in Nat, NEW c \in Nat
    PROVE  /\ c <= 2 * n + 2 => c <= 2 * (n + 1)
           /\ c = 2 * n + 2 => c = 2 * (n + 1)
  OBVIOUS

-----------------------------------------------------------------------------
(* Initially *)

LEMMA ChatInit == Init => ChatInv
<1> SUFFICES ASSUME Init PROVE ChatInv
  OBVIOUS
<1>1. history \in [Threads -> {<<>>, <<Earlier>>}]
  BY DEF Init
<1>2. Earlier \in Exchanges
  BY DEF Exchanges
<1>3. /\ <<>> \in Seq(Exchanges) /\ Len(<<>>) = 0 /\ DOMAIN <<>> = {}
      /\ <<Earlier>> \in Seq(Exchanges) /\ Len(<<Earlier>>) = 1
      /\ DOMAIN <<Earlier>> = {1} /\ <<Earlier>>[1] = Earlier
      /\ <<Earlier>> # <<>> /\ Head(<<Earlier>>) = Earlier
  BY <1>2
<1>4. /\ \A t \in Threads : history[t] = <<>> \/ history[t] = <<Earlier>>
      /\ history \in [Threads -> Seq(Exchanges)]
  BY <1>1, <1>3
<1>5. \A t \in Threads : conversations[t] =
         IF history[t] = <<>> THEN NoRow ELSE [first_question |-> Earlier, message_count |-> 2]
  BY DEF Init
<1>6. TypeOK
  <2>1. conversations \in
           [Threads -> [first_question : Exchanges \cup {None}, message_count : Nat]]
    BY DEF Init, NoRow, Exchanges
  <2>2. answer \in [Streams -> [text : 0..MaxChunks, sources : BOOLEAN]]
    BY ChatConstants DEF Init, NoAnswer
  <2>3. 0 \in 0..MaxChunks /\ 0 \in 0..(MaxChunks + 1)
    BY ChatConstants
  <2>4. /\ deployment \in Deployments
        /\ pc \in [Streams -> {"streaming", "sending", "find"} \cup Writing \cup Final]
        /\ thread \in [Streams -> Threads]
        /\ chunk_count \in [Streams -> 0..(MaxChunks + 1)]
        /\ full_response \in [Streams -> 0..MaxChunks]
        /\ received \in [Streams -> 0..MaxChunks]
        /\ outcome \in [Streams -> Outcomes]
        /\ sources \in [Streams -> BOOLEAN]
        /\ found \in [Streams -> Nat]
    BY <2>3 DEF Init, Outcomes
  <2> QED BY <1>4, <2>1, <2>2, <2>4 DEF TypeOK
<1>7. FramesInv
  <2> SUFFICES ASSUME NEW s \in Streams PROVE Framed(s)
    BY DEF FramesInv
  <2>1. /\ pc[s] = "streaming" /\ outcome[s] = "open" /\ sources[s] = FALSE
        /\ chunk_count[s] = 0 /\ full_response[s] = 0 /\ received[s] = 0
    BY DEF Init
  <2> QED BY <2>1, ChatConstants DEF Framed, Writing
<1>8. StoredInv
  <2>1. \A t \in Threads : \A i \in DOMAIN history[t] : i = 1 /\ history[t][i] = Earlier
    BY <1>3, <1>4
  <2>2. \A s \in Streams : s # Earlier /\ pc[s] = "streaming"
    BY ChatConstants DEF Init
  <2> QED BY <2>1, <2>2 DEF StoredInv
<1>9. ASSUME NEW t \in Threads
      PROVE  /\ conversations[t] = NoRow <=> history[t] = <<>>
             /\ history[t] # <<>> => conversations[t].first_question = Head(history[t])
             /\ conversations[t].message_count = 2 * Len(history[t])
             /\ history[t] # <<>> => conversations[t].message_count = 2
  <2>1. CASE history[t] = <<>>
    BY <1>3, <1>5, <2>1 DEF NoRow
  <2>2. CASE history[t] = <<Earlier>>
    <3>1. conversations[t] = [first_question |-> Earlier, message_count |-> 2]
      BY <1>3, <1>5, <2>2
    <3>2. conversations[t] # NoRow
      BY <3>1 DEF NoRow
    <3> QED BY <1>3, <2>2, <3>1, <3>2
  <2> QED BY <1>4, <2>1, <2>2
<1>10. RowsInv
  <2>1. \A s \in Streams : found[s] = 0 /\ pc[s] = "streaming" /\ thread[s] \in Threads
    BY DEF Init
  <2>2. \A t \in Threads : Len(history[t]) \in Nat
    BY <1>3, <1>4
  <2>3. \A t \in Threads : conversations[t].message_count <= 2 * Len(history[t])
    BY <1>9, <2>2
  <2>4. ConversationsMatchMessages
    BY <1>9, <2>3 DEF ConversationsMatchMessages
  <2> QED BY <1>9, <2>1, <2>2, <2>4 DEF RowsInv
<1>11. AloneInv
  BY <1>9 DEF Init, AloneInv, Writing
<1> QED BY <1>6, <1>7, <1>8, <1>10, <1>11 DEF ChatInv

-----------------------------------------------------------------------------
(* Steps of the loop over the events: no row is touched *)

Loop(s) == Generating(s) \/ Disconnect(s)

LEMMA LeaveShape ==
    ASSUME TypeOK, NEW s \in Streams, NEW why, Leave(s, why)
    PROVE  \E p \in {"find", "ended"} :
              /\ pc' = [pc EXCEPT ![s] = p]
              /\ p = "ended" => full_response[s] = 0
<1>1. full_response[s] \in Nat
  BY DEF TypeOK
<1>2. CASE Persists(s)
  BY <1>2 DEF Leave, Goto
<1>3. CASE ~Persists(s)
  <2>1. full_response[s] = 0
    BY <1>1, <1>3 DEF Persists
  <2>2. pc' = [pc EXCEPT ![s] = "ended"]
    BY <1>3, Zenon DEF Leave, Goto
  <2> QED BY <2>1, <2>2
<1> QED BY <1>2, <1>3

\* An event of the agent, or the browser leaving, moves one stream.
LEMMA LoopShape ==
    ASSUME TypeOK, FramesInv, NEW s \in Streams, Loop(s)
    PROVE  /\ pc[s] \in {"streaming", "sending"}
           /\ \E p \in {"streaming", "sending", "find", "ended"} :
                 /\ pc' = [pc EXCEPT ![s] = p]
                 /\ p = "ended" => full_response'[s] = 0
           /\ \A r \in Streams \ {s} :
                 full_response'[r] = full_response[r] /\ sources'[r] = sources[r]
           /\ UNCHANGED <<deployment, thread, found, rowVars>>
<1>1. CASE Token(s) \/ Send(s)
  BY <1>1 DEF Token, Send, Goto, TypeOK
<1>2. CASE Done(s) \/ Runaway(s) \/ AgentRaises(s) \/ Disconnect(s)
  <2>1. (\E why : Leave(s, why)) /\ pc[s] \in {"streaming", "sending"}
    BY <1>2 DEF Done, Runaway, AgentRaises, Disconnect
  <2>2. UNCHANGED <<deployment, thread, full_response, found, rowVars>>
    BY <1>2 DEF Done, Runaway, AgentRaises, Disconnect
  <2>3. \A r \in Streams \ {s} : sources'[r] = sources[r]
    <3>1. CASE Done(s)
      BY <3>1 DEF Done, TypeOK
    <3>2. CASE Runaway(s) \/ AgentRaises(s) \/ Disconnect(s)
      BY <3>2 DEF Runaway, AgentRaises, Disconnect
    <3> QED BY <1>2, <3>1, <3>2
  <2>4. \E p \in {"find", "ended"} :
            /\ pc' = [pc EXCEPT ![s] = p]
            /\ p = "ended" => full_response'[s] = 0
    BY <2>1, <2>2, LeaveShape
  <2> QED BY <2>1, <2>2, <2>3, <2>4
<1> QED BY <1>1, <1>2 DEF Loop, Generating

LEMMA LoopType ==
    ASSUME TypeOK, FramesInv, NEW s \in Streams, Loop(s)
    PROVE  TypeOK'
<1>1. /\ UNCHANGED <<deployment, thread, found, rowVars>>
      /\ pc' \in [Streams -> {"streaming", "sending", "find"} \cup Writing \cup Final]
  <2>1. PICK p \in {"streaming", "sending", "find", "ended"} : pc' = [pc EXCEPT ![s] = p]
    BY LoopShape, Zenon
  <2>2. UNCHANGED <<deployment, thread, found, rowVars>>
    BY LoopShape, Zenon
  <2> QED BY <2>1, <2>2 DEF TypeOK, Final
<1>2. /\ chunk_count' \in [Streams -> 0..(MaxChunks + 1)]
      /\ full_response' \in [Streams -> 0..MaxChunks]
      /\ received' \in [Streams -> 0..MaxChunks]
      /\ outcome' \in [Streams -> Outcomes]
      /\ sources' \in [Streams -> BOOLEAN]
  <2>0. /\ chunk_count[s] \in Nat /\ full_response[s] \in Nat /\ MaxChunks \in Nat
        /\ full_response[s] <= chunk_count[s]
    BY ChatConstants DEF TypeOK, FramesInv, Framed
  <2>1. CASE Token(s)
    <3>1. PICK text \in {0, 1} :
             full_response' = [full_response EXCEPT ![s] = full_response[s] + text]
      BY <2>1 DEF Token
    <3>2. chunk_count[s] < MaxChunks
      BY <2>1 DEF Token
    <3>3. full_response[s] + text \in 0..MaxChunks /\ chunk_count[s] + 1 \in 0..(MaxChunks + 1)
      BY <2>0, <3>2
    <3> QED BY <2>1, <3>1, <3>3 DEF Token, TypeOK
  <2>2. CASE Send(s)
    BY <2>2 DEF Send, TypeOK
  <2>3. CASE Done(s)
    <3>1. chunk_count[s] < MaxChunks
      BY <2>3 DEF Done
    <3>2. chunk_count[s] + 1 \in 0..(MaxChunks + 1)
      BY <2>0, <3>1
    <3> QED BY <2>3, <3>2 DEF Done, Leave, TypeOK, Outcomes
  <2>4. CASE Runaway(s) \/ AgentRaises(s) \/ Disconnect(s)
    <3>1. MaxChunks + 1 \in 0..(MaxChunks + 1)
      BY <2>0
    <3>2. CASE Runaway(s)
      BY <3>1, <3>2 DEF Runaway, Leave, TypeOK, Outcomes
    <3>3. CASE AgentRaises(s)
      BY <3>3 DEF AgentRaises, Leave, TypeOK, Outcomes
    <3>4. CASE Disconnect(s)
      BY <3>4 DEF Disconnect, Leave, TypeOK, Outcomes
    <3> QED BY <2>4, <3>2, <3>3, <3>4
  <2> QED BY <2>1, <2>2, <2>3, <2>4 DEF Loop, Generating
<1> QED BY <1>1, <1>2 DEF TypeOK, rowVars

\* What the frames say of a stream after its own step.
LEMMA LoopFrames ==
    ASSUME TypeOK, FramesInv, NEW s \in Streams, Loop(s)
    PROVE  FramesInv'
<1> SUFFICES ASSUME NEW r \in Streams PROVE Framed(r)'
  BY DEF FramesInv
<1>1. /\ chunk_count[s] \in Nat /\ full_response[s] \in Nat /\ received[s] \in Nat
      /\ MaxChunks \in Nat
      /\ Framed(s) /\ Framed(r)
  BY ChatConstants DEF TypeOK, FramesInv
<1>2. CASE r # s
  <2>1. /\ pc'[r] = pc[r] /\ outcome'[r] = outcome[r] /\ sources'[r] = sources[r]
        /\ chunk_count'[r] = chunk_count[r] /\ full_response'[r] = full_response[r]
        /\ received'[r] = received[r]
    BY <1>2 DEF Loop, Generating, Token, Send, Done, Runaway, AgentRaises, Disconnect,
         Leave, Goto, TypeOK
  <2> QED BY <1>1, <2>1 DEF Framed
<1>3. CASE r = s
  <2>1. CASE Token(s)
    <3>1. /\ pc[s] = "streaming" /\ pc'[s] = "sending" /\ outcome'[s] = outcome[s]
          /\ sources'[s] = sources[s] /\ received'[s] = received[s]
          /\ chunk_count[s] < MaxChunks /\ chunk_count'[s] = chunk_count[s] + 1
          /\ full_response'[s] \in {full_response[s], full_response[s] + 1}
      <4>1. PICK text \in {0, 1} :
               full_response' = [full_response EXCEPT ![s] = full_response[s] + text]
        BY <2>1 DEF Token
      <4>2. full_response'[s] = full_response[s] + text
        BY <4>1 DEF TypeOK
      <4>3. full_response'[s] \in {full_response[s], full_response[s] + 1}
        BY <1>1, <4>2
      <4> QED BY <2>1, <4>3 DEF Token, Goto, TypeOK
    <3>2. outcome[s] = "open" /\ received[s] = full_response[s]
      BY <1>1, <3>1 DEF Framed
    <3> QED BY <1>1, <1>3, <3>1, <3>2 DEF Framed, Writing
  <2>2. CASE Send(s)
    <3>1. /\ pc[s] = "sending" /\ pc'[s] = "streaming" /\ outcome'[s] = outcome[s]
          /\ sources'[s] = sources[s] /\ received'[s] = full_response[s]
          /\ chunk_count'[s] = chunk_count[s] /\ full_response'[s] = full_response[s]
      BY <2>2 DEF Send, Goto, TypeOK
    <3> QED BY <1>1, <1>3, <3>1 DEF Framed, Writing
  <2>3. CASE Done(s) \/ Runaway(s) \/ AgentRaises(s) \/ Disconnect(s)
    <3>1. /\ received'[s] = received[s] /\ full_response'[s] = full_response[s]
          /\ pc[s] \in {"streaming", "sending"}
          /\ pc'[s] = IF full_response[s] > 0 THEN "find" ELSE "ended"
          /\ Disconnect(s) => outcome'[s] = "left"
          /\ ~Disconnect(s) => pc[s] = "streaming"
      BY <2>3 DEF Done, Runaway, AgentRaises, Disconnect, Leave, Persists, Goto, TypeOK
    <3>2. chunk_count'[s] \in {chunk_count[s], chunk_count[s] + 1, MaxChunks + 1}
      BY <2>3 DEF Done, Runaway, AgentRaises, Disconnect, TypeOK
    <3>3. outcome'[s] = "done" \/ sources'[s] = sources[s]
      BY <2>3 DEF Done, Runaway, AgentRaises, Disconnect, Leave, TypeOK
    <3>4. outcome[s] = "open" /\ ~sources[s] /\ chunk_count[s] <= MaxChunks
      BY <1>1, <3>1 DEF Framed
    <3>5. full_response'[s] <= chunk_count'[s]
      BY <1>1, <3>1, <3>2, <3>4 DEF Framed
    <3> QED BY <1>1, <1>3, <3>1, <3>3, <3>4, <3>5 DEF Framed, Writing
  <2> QED BY <2>1, <2>2, <2>3 DEF Loop, Generating
<1> QED BY <1>2, <1>3

\* They keep the invariant, since no stored stream changes.
LEMMA LoopKeeps ==
    ASSUME ChatInv, NEW s \in Streams, Loop(s)
    PROVE  ChatInv'
<1> USE DEF ChatInv
<1>1. TypeOK' /\ FramesInv'
  BY LoopType, LoopFrames
<1>2. PICK p \in {"streaming", "sending", "find", "ended"} :
         /\ pc' = [pc EXCEPT ![s] = p]
         /\ p = "ended" => full_response'[s] = 0
  BY LoopShape
<1>3. /\ pc[s] \in {"streaming", "sending"}
      /\ \A r \in Streams \ {s} :
            full_response'[r] = full_response[r] /\ sources'[r] = sources[r]
      /\ UNCHANGED <<deployment, thread, found, conversations, history, answer>>
  BY LoopShape DEF rowVars
<1>4. pc'[s] = p /\ \A r \in Streams \ {s} : pc'[r] = pc[r]
  BY <1>2 DEF TypeOK
<1>5. StoredInv'
  <2>1. \A r \in Streams : pc[r] = "ended" =>
           /\ pc'[r] = "ended" /\ full_response'[r] = full_response[r]
           /\ sources'[r] = sources[r]
    BY <1>3, <1>4
  <2>2. \A r \in Streams : pc'[r] = "ended" /\ full_response'[r] > 0 =>
           pc[r] = "ended" /\ full_response[r] > 0
    BY <1>2, <1>3, <1>4
  <2>3. \A r \in Streams : pc'[r] = "ended" /\ full_response'[r] > 0 => (r \in Stored)'
    BY <1>3, <2>2 DEF StoredInv, Stored
  <2>4. ASSUME NEW t \in Threads, NEW i \in DOMAIN history[t], NEW r \in Streams,
               history[t][i] = r
        PROVE  /\ thread'[r] = t /\ pc'[r] = "ended" /\ full_response'[r] > 0
               /\ answer'[r] = [text |-> full_response'[r], sources |-> sources'[r]]
    <3>1. /\ thread[r] = t /\ pc[r] = "ended" /\ full_response[r] > 0
          /\ answer[r] = [text |-> full_response[r], sources |-> sources[r]]
      BY <2>4 DEF StoredInv
    <3> QED BY <1>3, <2>1, <3>1
  <2> QED BY <1>3, <2>3, <2>4 DEF StoredInv
<1>6. RowsInv'
  BY <1>3, <1>4 DEF RowsInv, ConversationsMatchMessages
<1>7. AloneInv'
  BY <1>3, <1>4 DEF AloneInv, Writing
<1> QED BY <1>1, <1>5, <1>6, <1>7

-----------------------------------------------------------------------------
(* Steps of the write that leave the tables as they are *)

Quiet(s) ==
    \/ FindConversation(s) \/ InsertConversation(s) \/ InsertCollides(s)
    \/ PersistFails(s) \/ Die(s)

\* A read, a failure or a death changes one place and no table.
LEMMA QuietShape ==
    ASSUME TypeOK, NEW s \in Streams, Quiet(s)
    PROVE  /\ UNCHANGED <<deployment, thread, streamVars, rowVars>>
           /\ pc[s] \notin Final
           /\ \E p \in {"insert", "update", "commit", "collided", "write_failed", "dead"} :
                 pc' = [pc EXCEPT ![s] = p]
<1>1. CASE FindConversation(s) \/ InsertConversation(s) \/ InsertCollides(s)
  BY <1>1 DEF FindConversation, InsertConversation, InsertCollides, Goto, Final
<1>2. CASE PersistFails(s) \/ Die(s)
  BY <1>2 DEF PersistFails, Die, Goto, Final, Writing
<1> QED BY <1>1, <1>2 DEF Quiet

LEMMA QuietType ==
    ASSUME TypeOK, NEW s \in Streams, Quiet(s)
    PROVE  TypeOK'
<1>1. pc' \in [Streams -> {"streaming", "sending", "find"} \cup Writing \cup Final]
  BY QuietShape DEF TypeOK, Writing, Final
<1>2. found' \in [Streams -> Nat]
  <2>1. thread[s] \in Threads /\ conversations[thread[s]].message_count \in Nat
    BY DEF TypeOK
  <2> QED
    BY <2>1 DEF Quiet, FindConversation, InsertConversation, InsertCollides, PersistFails,
         Die, TypeOK
<1>3. UNCHANGED <<deployment, thread, streamVars, rowVars>>
  BY QuietShape
<1> QED BY <1>1, <1>2, <1>3 DEF TypeOK, streamVars, rowVars

\* They keep the invariant: what is read is what is there.
LEMMA QuietKeeps ==
    ASSUME ChatInv, NEW s \in Streams, Quiet(s)
    PROVE  ChatInv'
<1> USE DEF ChatInv
<1>1. TypeOK'
  BY QuietType
<1>2. PICK p \in {"insert", "update", "commit", "collided", "write_failed", "dead"} :
         pc' = [pc EXCEPT ![s] = p]
  BY QuietShape
<1>3. /\ UNCHANGED <<deployment, thread, conversations, history, answer>>
      /\ UNCHANGED <<chunk_count, full_response, received, outcome, sources>>
      /\ pc[s] \notin Final
  BY QuietShape DEF rowVars, streamVars
<1>4. pc'[s] = p /\ \A r \in Streams \ {s} : pc'[r] = pc[r]
  BY <1>2 DEF TypeOK
<1>5. StoredInv'
  BY <1>3, <1>4 DEF StoredInv, Stored, Final
<1>6. FramesInv'
  <2>1. p \in Writing => pc[s] \in {"find"} \cup Writing
    BY <1>4 DEF Quiet, FindConversation, InsertConversation, InsertCollides, PersistFails,
         Die, Goto, Writing, TypeOK
  <2>2. full_response[s] # received[s] => pc'[s] = "dead" \/ outcome[s] = "left"
    <3>1. CASE Die(s)
      BY <3>1 DEF Die, Goto, TypeOK
    <3>2. CASE pc[s] \in {"find"} \cup Writing
      BY <3>2 DEF FramesInv, Framed, Writing
    <3> QED
      BY <3>1, <3>2 DEF Quiet, FindConversation, InsertConversation, InsertCollides,
           PersistFails, Writing
  <2> QED BY <1>3, <1>4, <2>1, <2>2 DEF FramesInv, Framed, Writing
<1>7. \A t \in Threads : history[t] \in Seq(Exchanges) /\ Len(history[t]) \in Nat
                         /\ conversations[t].message_count \in Nat
  BY DEF TypeOK
<1>8. thread[s] \in Threads
  BY DEF TypeOK
<1>9. CASE FindConversation(s)
  <2>1. /\ found'[s] = conversations[thread[s]].message_count
        /\ \A r \in Streams \ {s} : found'[r] = found[r]
        /\ pc'[s] = IF found'[s] = 0 THEN "insert" ELSE "update"
        /\ Free(s)
    BY <1>9 DEF FindConversation, Goto, TypeOK
  <2>2. history[thread[s]] = <<>> => found'[s] = 0
    BY <1>8, <2>1 DEF RowsInv, ConversationsMatchMessages, NoRow
  <2>3. history[thread[s]] # <<>> => found'[s] >= 2
    BY <1>8, <2>1 DEF RowsInv
  <2>4. found'[s] <= 2 * Len(history[thread[s]])
    BY <1>8, <2>1 DEF RowsInv, ConversationsMatchMessages
  <2>5. RowsInv'
    BY <1>3, <1>4, <2>1, <2>2, <2>3, <2>4 DEF RowsInv, ConversationsMatchMessages
  <2>6. AloneInv'
    <3> SUFFICES ASSUME deployment = "one process" PROVE AloneInv'
      BY <1>3 DEF AloneInv
    <3>1. /\ \A r \in Streams : pc[r] \notin Writing
          /\ \A r \in Streams \ {s} : pc'[r] \notin Writing
      BY <1>4, <2>1 DEF Free
    <3>2. \A t \in Threads : conversations[t].message_count = 2 * Len(history[t])
      BY DEF AloneInv
    <3>3. found'[s] = 2 * Len(history[thread[s]])
      BY <1>8, <2>1, <3>2
    <3>4. pc'[s] = "insert" => history[thread[s]] = <<>>
      <4>1. pc'[s] = "insert" => found'[s] = 0
        BY <2>1
      <4> QED BY <4>1, <2>3, NoneIsFewer, Zenon
    <3>5. \A r \in Streams : pc'[r] # "collided"
      BY <1>4, <2>1 DEF AloneInv
    <3> QED BY <1>3, <3>1, <3>2, <3>3, <3>4, <3>5 DEF AloneInv, Writing
  <2> QED BY <1>1, <1>5, <1>6, <2>5, <2>6
<1>10. CASE InsertConversation(s)
  <2>1. /\ UNCHANGED found
        /\ pc[s] = "insert" /\ pc'[s] = "commit"
        /\ conversations[thread[s]] = NoRow
        /\ Pending(thread[s]) = {}
    BY <1>10 DEF InsertConversation, Goto, TypeOK
  <2>2. history[thread[s]] = <<>>
    BY <1>8, <2>1 DEF RowsInv, ConversationsMatchMessages
  <2>3. \A r \in Streams : thread[r] = thread[s] => pc[r] # "commit"
    BY <2>1 DEF Pending
  <2>4. RowsInv'
    BY <1>3, <1>4, <2>1, <2>2, <2>3 DEF RowsInv, ConversationsMatchMessages
  <2>5. AloneInv'
    BY <1>3, <1>4, <2>1 DEF AloneInv, Writing
  <2> QED BY <1>1, <1>5, <1>6, <2>4, <2>5
<1>11. CASE InsertCollides(s)
  <2>1. /\ UNCHANGED found
        /\ pc[s] = "insert" /\ pc'[s] = "collided"
        /\ conversations[thread[s]] # NoRow
    BY <1>11 DEF InsertCollides, Goto, TypeOK
  <2>2. history[thread[s]] # <<>>
    BY <1>8, <2>1 DEF RowsInv, ConversationsMatchMessages
  <2>3. RowsInv'
    BY <1>3, <1>4, <2>1, <2>2 DEF RowsInv, ConversationsMatchMessages
  <2>4. deployment # "one process"
    BY <2>1, <2>2 DEF AloneInv
  <2> QED BY <1>1, <1>3, <1>5, <1>6, <2>3, <2>4 DEF AloneInv
<1>12. CASE PersistFails(s) \/ Die(s)
  <2>1. UNCHANGED found /\ pc'[s] \in {"write_failed", "dead"}
    BY <1>12 DEF PersistFails, Die, Goto, TypeOK
  <2>2. RowsInv'
    BY <1>3, <1>4, <2>1 DEF RowsInv, ConversationsMatchMessages
  <2>3. AloneInv'
    BY <1>3, <1>4, <2>1 DEF AloneInv, Writing
  <2> QED BY <1>1, <1>5, <1>6, <2>2, <2>3
<1> QED BY <1>9, <1>10, <1>11, <1>12 DEF Quiet

-----------------------------------------------------------------------------
(* Steps that store the two messages of a stream *)

Commit(s) == CommitNew(s) \/ CommitReused(s)

\* The row after a commit, whether it was inserted or updated.
LEMMA CommitShape ==
    ASSUME ChatInv, NEW s \in Streams, Commit(s)
    PROVE  \E question \in Exchanges, count \in Nat :
              LET t == thread[s] IN
              /\ t \in Threads
              /\ conversations' = [conversations EXCEPT
                    ![t] = [first_question |-> question, message_count |-> count]]
              /\ question = IF history[t] = <<>> THEN s ELSE Head(history[t])
              /\ count >= 2 /\ count <= 2 * Len(history[t]) + 2
              /\ deployment = "one process" => count = 2 * Len(history[t]) + 2
              /\ history' = [history EXCEPT ![t] = Append(history[t], s)]
              /\ answer' = [answer EXCEPT
                    ![s] = [text |-> full_response[s], sources |-> sources[s]]]
              /\ pc[s] \in {"commit", "update"}
              /\ pc' = [pc EXCEPT ![s] = "ended"]
              /\ \A r \in Streams \ {s} : thread[r] = t => pc[r] # "commit"
              /\ UNCHANGED <<deployment, thread, streamVars, found>>
<1> USE DEF ChatInv
<1> DEFINE t == thread[s]
<1>1. /\ t \in Threads /\ history[t] \in Seq(Exchanges) /\ Len(history[t]) \in Nat
      /\ conversations[t] \in [first_question : Exchanges \cup {None}, message_count : Nat]
      /\ s \in Exchanges /\ found[s] \in Nat
  BY DEF TypeOK, Exchanges
<1>2. /\ history' = [history EXCEPT ![t] = Append(history[t], s)]
      /\ answer' = [answer EXCEPT ![s] = [text |-> full_response[s], sources |-> sources[s]]]
      /\ pc' = [pc EXCEPT ![s] = "ended"]
      /\ UNCHANGED <<deployment, thread, streamVars, found>>
  BY DEF Commit, CommitNew, CommitReused, StoreMessages, Goto
<1>3. CASE CommitNew(s)
  <2>1. pc[s] = "commit"
    BY <1>3 DEF CommitNew
  <2>2. history[t] = <<>>
    BY <2>1 DEF RowsInv
  <2>3. Len(history[t]) = 0
    BY <2>2
  <2>4. \A r \in Streams \ {s} : thread[r] = t => pc[r] # "commit"
    BY <2>1 DEF RowsInv
  <2>5. conversations' = [conversations EXCEPT
           ![t] = [first_question |-> s, message_count |-> 2]]
    BY <1>3 DEF CommitNew
  <2>6. 2 \in Nat /\ 2 >= 2 /\ 2 <= 2 * Len(history[t]) + 2 /\ 2 = 2 * Len(history[t]) + 2
    BY <2>3
  <2>7. s = IF history[t] = <<>> THEN s ELSE Head(history[t])
    BY <2>2, Zenon
  <2>8. pc[s] \in {"commit", "update"}
    BY <2>1
  <2> QED BY <1>1, <1>2, <2>4, <2>5, <2>6, <2>7, <2>8, Zenon
<1>4. CASE CommitReused(s)
  <2>1. pc[s] = "update"
    BY <1>4 DEF CommitReused
  <2>2. found[s] >= 2 /\ found[s] <= 2 * Len(history[t])
    BY <2>1 DEF RowsInv
  <2>3. history[t] # <<>>
    BY <1>1, <2>2
  <2>4. /\ conversations[t].first_question = Head(history[t])
        /\ Head(history[t]) \in Exchanges
    BY <1>1, <2>3 DEF RowsInv, ConversationsMatchMessages
  <2>5. \A r \in Streams \ {s} : thread[r] = t => pc[r] # "commit"
    BY <2>3 DEF RowsInv
  <2>6. conversations' = [conversations EXCEPT
           ![t] = [first_question |-> Head(history[t]), message_count |-> found[s] + 2]]
    <3>1. conversations' = [conversations EXCEPT
             ![t] = [conversations[t] EXCEPT !.message_count = found[s] + 2]]
      BY <1>4 DEF CommitReused
    <3>2. [conversations[t] EXCEPT !.message_count = found[s] + 2]
             = [first_question |-> Head(history[t]), message_count |-> found[s] + 2]
      BY <1>1, <2>4
    <3> QED BY <3>1, <3>2
  <2>7. deployment = "one process" => found[s] = 2 * Len(history[t])
    BY <2>1 DEF AloneInv
  <2>8. found[s] + 2 \in Nat /\ found[s] + 2 >= 2 /\ found[s] + 2 <= 2 * Len(history[t]) + 2
    BY <1>1, <2>2
  <2> QED BY <1>1, <1>2, <2>1, <2>3, <2>4, <2>5, <2>6, <2>7, <2>8
<1> QED BY <1>3, <1>4 DEF Commit

\* A stored stream has ended.
LEMMA StoredEnded ==
    ASSUME StoredInv, NEW r \in Streams, NEW u \in Threads, NEW i \in DOMAIN history[u],
           history[u][i] = r
    PROVE  pc[r] = "ended"
<1>1. /\ thread[r] = u /\ pc[r] = "ended" /\ full_response[r] > 0
      /\ answer[r] = [text |-> full_response[r], sources |-> sources[r]]
  BY DEF StoredInv
<1> QED BY <1>1

\* The messages of a stream are stored once, in its own thread.
LEMMA CommitKeeps ==
    ASSUME ChatInv, NEW s \in Streams, Commit(s)
    PROVE  ChatInv'
<1> USE DEF ChatInv
<1> DEFINE t == thread[s]
           new == Append(history[t], s)
<1>1. PICK question \in Exchanges, count \in Nat :
         /\ t \in Threads
         /\ conversations' = [conversations EXCEPT
               ![t] = [first_question |-> question, message_count |-> count]]
         /\ question = IF history[t] = <<>> THEN s ELSE Head(history[t])
         /\ count >= 2 /\ count <= 2 * Len(history[t]) + 2
         /\ deployment = "one process" => count = 2 * Len(history[t]) + 2
         /\ history' = [history EXCEPT ![t] = new]
         /\ answer' = [answer EXCEPT
               ![s] = [text |-> full_response[s], sources |-> sources[s]]]
         /\ pc[s] \in {"commit", "update"}
         /\ pc' = [pc EXCEPT ![s] = "ended"]
         /\ \A r \in Streams \ {s} : thread[r] = t => pc[r] # "commit"
         /\ UNCHANGED <<deployment, thread, streamVars, found>>
  BY CommitShape
<1>0. /\ t \in Threads /\ question \in Exchanges /\ count \in Nat
      /\ count >= 2 /\ count <= 2 * Len(history[t]) + 2
      /\ deployment = "one process" => count = 2 * Len(history[t]) + 2
  BY <1>1, Zenon
<1>2. /\ UNCHANGED <<deployment, thread, found>>
      /\ UNCHANGED <<chunk_count, full_response, received, outcome, sources>>
  BY <1>1 DEF streamVars
<1>3. pc'[s] = "ended" /\ \A r \in Streams \ {s} : pc'[r] = pc[r]
  BY <1>1 DEF TypeOK
<1>4. /\ new \in Seq(Exchanges) /\ Len(new) = Len(history[t]) + 1 /\ new # <<>>
      /\ DOMAIN history[t] = 1..Len(history[t])
      /\ DOMAIN new = 1..(Len(history[t]) + 1)
      /\ \A i \in 1..Len(history[t]) : new[i] = history[t][i]
      /\ new[Len(history[t]) + 1] = s
      /\ Head(new) = IF history[t] = <<>> THEN s ELSE Head(history[t])
      /\ Len(history[t]) \in Nat
  <2>1. history[t] \in Seq(Exchanges) /\ s \in Exchanges
    BY <1>1 DEF TypeOK, Exchanges
  <2> QED BY <2>1, AppendFacts
<1>5. /\ history'[t] = new
      /\ conversations'[t] = [first_question |-> question, message_count |-> count]
      /\ \A u \in Threads \ {t} :
            history'[u] = history[u] /\ conversations'[u] = conversations[u]
  BY <1>1 DEF TypeOK
<1>6. /\ answer'[s] = [text |-> full_response[s], sources |-> sources[s]]
      /\ \A r \in Streams \ {s} : answer'[r] = answer[r]
  BY <1>1 DEF TypeOK
<1>7. TypeOK'
  <2>1. history' \in [Threads -> Seq(Exchanges)]
    BY <1>1, <1>4 DEF TypeOK
  <2>2. conversations' \in
           [Threads -> [first_question : Exchanges \cup {None}, message_count : Nat]]
    BY <1>1 DEF TypeOK
  <2>3. answer' \in [Streams -> [text : 0..MaxChunks, sources : BOOLEAN]]
    BY <1>1 DEF TypeOK
  <2>4. pc' \in [Streams -> {"streaming", "sending", "find"} \cup Writing \cup Final]
    BY <1>1 DEF TypeOK, Final
  <2> QED BY <1>2, <2>1, <2>2, <2>3, <2>4 DEF TypeOK
<1>8. FramesInv'
  <2> SUFFICES ASSUME NEW r \in Streams PROVE Framed(r)'
    BY DEF FramesInv
  <2>1. Framed(r)
    BY DEF FramesInv
  <2>2. CASE r = s
    BY <1>1, <1>2, <1>3, <2>1, <2>2 DEF Framed, Writing
  <2>3. CASE r # s
    BY <1>2, <1>3, <2>1, <2>3 DEF Framed
  <2> QED BY <2>2, <2>3
<1>9. StoredInv'
  <2>1. \A u \in Threads : \A i \in DOMAIN history[u] : history[u][i] # s
    <3>1. pc[s] # "ended"
      BY <1>1
    <3> QED BY <3>1, StoredEnded, Zenon
  <2>2. ASSUME NEW u \in Threads, NEW i \in DOMAIN history'[u]
        PROVE  \/ u = t /\ i = Len(history[t]) + 1 /\ history'[u][i] = s
               \/ i \in DOMAIN history[u] /\ history'[u][i] = history[u][i]
    <3>1. CASE u = t
      <4>1. i \in DOMAIN new /\ history'[u][i] = new[i]
        BY <1>5, <3>1, <2>2, Zenon
      <4>2. i \in 1..Len(history[t]) \/ i = Len(history[t]) + 1
        BY <1>4, <4>1
      <4> QED BY <1>4, <3>1, <4>1, <4>2, Zenon
    <3>2. CASE u # t
      BY <1>5, <2>2, <3>2, Zenon
    <3> QED BY <3>1, <3>2
  <2>3. ASSUME NEW u \in Threads, NEW i \in DOMAIN history'[u], NEW r \in Streams,
               history'[u][i] = r
        PROVE  /\ thread'[r] = u /\ pc'[r] = "ended" /\ full_response'[r] > 0
               /\ answer'[r] = [text |-> full_response'[r], sources |-> sources'[r]]
    <3>1. CASE r = s
      <4>1. u = t
        BY <2>1, <2>2, <2>3, <3>1
      <4>2. full_response[s] > 0
        BY <1>1 DEF FramesInv, Framed, Writing
      <4> QED BY <1>2, <1>3, <1>6, <3>1, <4>1, <4>2
    <3>2. CASE r # s
      <4>1. i \in DOMAIN history[u] /\ history[u][i] = r
        BY <2>2, <2>3, <3>2
      <4>2. /\ thread[r] = u /\ pc[r] = "ended" /\ full_response[r] > 0
            /\ answer[r] = [text |-> full_response[r], sources |-> sources[r]]
        BY <4>1 DEF StoredInv
      <4> QED BY <1>2, <1>3, <1>6, <3>2, <4>2
    <3> QED BY <3>1, <3>2
  <2>4. ASSUME NEW u \in Threads, NEW i \in DOMAIN history'[u], NEW j \in DOMAIN history'[u],
               history'[u][i] = history'[u][j]
        PROVE  i = j
    BY <2>1, <2>2, <2>4 DEF StoredInv
  <2>5. ASSUME NEW r \in Streams, pc'[r] = "ended", full_response'[r] > 0
        PROVE  (r \in Stored)'
    <3>1. CASE r = s
      <4>1. Len(history[t]) + 1 \in DOMAIN history'[t]
        BY <1>4, <1>5
      <4> QED BY <1>2, <1>4, <1>5, <3>1, <4>1 DEF Stored
    <3>2. CASE r # s
      <4>1. PICK i \in DOMAIN history[thread[r]] : history[thread[r]][i] = r
        BY <1>2, <1>3, <2>5, <3>2 DEF StoredInv, Stored
      <4>2. thread[r] \in Threads
        BY DEF TypeOK
      <4>3. i \in DOMAIN history'[thread[r]] /\ history'[thread[r]][i] = r
        <5>1. CASE thread[r] = t
          <6>1. i \in 1..Len(history[t]) /\ history[t][i] = r
            BY <1>4, <4>1, <5>1, Zenon
          <6>2. i \in DOMAIN new
            BY <1>4, <6>1
          <6> QED BY <1>4, <1>5, <5>1, <6>1, <6>2, Zenon
        <5>2. CASE thread[r] # t
          BY <1>5, <4>1, <4>2, <5>2, Zenon
        <5> QED BY <5>1, <5>2
      <4> QED BY <1>2, <4>3, Zenon DEF Stored
    <3> QED BY <3>1, <3>2
  <2> QED BY <2>3, <2>4, <2>5 DEF StoredInv
<1>10. \A u \in Threads : Len(history[u]) \in Nat /\ conversations[u].message_count \in Nat
  BY DEF TypeOK
<1>11. /\ conversations'[t].message_count = count
       /\ Len(history'[t]) = Len(history[t]) + 1
       /\ Len(history[t]) \in Nat
  BY <1>4, <1>5
<1>12. /\ count <= 2 * Len(history'[t])
       /\ deployment = "one process" => count = 2 * Len(history'[t])
  BY <1>0, <1>11, TwoMore, Zenon
<1>13. RowsInv'
  <2>1. ConversationsMatchMessages'
    <3> SUFFICES ASSUME NEW u \in Threads
                 PROVE  /\ conversations'[u] = NoRow <=> history'[u] = <<>>
                        /\ history'[u] # <<>> =>
                              conversations'[u].first_question = Head(history'[u])
                        /\ conversations'[u].message_count <= 2 * Len(history'[u])
      BY DEF ConversationsMatchMessages
    <3>1. CASE u = t
      <4>1. conversations'[u] # NoRow
        <5>1. question # None
          BY <1>0, ChatConstants, Zenon DEF Exchanges
        <5>2. [first_question |-> question, message_count |-> count] # NoRow
          BY <5>1 DEF NoRow
        <5> QED BY <1>5, <3>1, <5>2, Zenon
      <4>2. conversations'[u].message_count <= 2 * Len(history'[u])
        BY <1>11, <1>12, <3>1, Zenon
      <4>3. conversations'[u].first_question = Head(history'[u])
        <5>1. conversations'[t].first_question = question
          BY <1>5
        <5>2. question = Head(new)
          BY <1>1, <1>4, Zenon
        <5> QED BY <1>5, <3>1, <5>1, <5>2, Zenon
      <4> QED BY <1>4, <1>5, <3>1, <4>1, <4>2, <4>3, Zenon
    <3>2. CASE u # t
      BY <1>5, <3>2 DEF RowsInv, ConversationsMatchMessages
    <3> QED BY <3>1, <3>2
  <2>2. \A u \in Threads : history'[u] # <<>> => conversations'[u].message_count >= 2
    <3>1. conversations'[t].message_count = count
      BY <1>5
    <3>2. \A u \in Threads : history[u] # <<>> => conversations[u].message_count >= 2
      BY DEF RowsInv
    <3> QED BY <1>0, <1>5, <3>1, <3>2, Zenon
  <2>3. \A u \in Threads : /\ Len(history'[u]) \in Nat
                           /\ Len(history[u]) <= Len(history'[u])
                           /\ history[u] # <<>> => history'[u] # <<>>
    BY <1>4, <1>5, <1>10
  <2>4. ASSUME NEW r \in Streams
        PROVE  /\ found'[r] <= 2 * Len(history'[thread'[r]])
               /\ pc'[r] = "update" => found'[r] >= 2
               /\ pc'[r] = "commit" => history'[thread'[r]] = <<>>
               /\ pc'[r] = "collided" => history'[thread'[r]] # <<>>
    <3>1. thread[r] \in Threads /\ found[r] \in Nat
      BY DEF TypeOK
    <3>2. /\ found[r] <= 2 * Len(history[thread[r]])
          /\ pc[r] = "update" => found[r] >= 2
          /\ pc[r] = "commit" => history[thread[r]] = <<>>
          /\ pc[r] = "collided" => history[thread[r]] # <<>>
      BY DEF RowsInv
    <3>3. found[r] <= 2 * Len(history'[thread[r]])
      BY <1>10, <2>3, <3>1, <3>2
    <3>4. pc'[r] = "commit" => history'[thread[r]] = <<>>
      <4>1. pc'[r] = "commit" => r # s /\ pc[r] = "commit"
        BY <1>3
      <4>2. pc'[r] = "commit" => thread[r] # t
        BY <1>1, <4>1, Zenon
      <4> QED BY <1>5, <3>1, <3>2, <4>1, <4>2, Zenon
    <3> QED BY <1>2, <1>3, <2>3, <3>1, <3>2, <3>3, <3>4
  <2>5. \A q, r \in Streams :
           pc'[q] = "commit" /\ pc'[r] = "commit" /\ thread'[q] = thread'[r] => q = r
    BY <1>2, <1>3 DEF RowsInv
  <2> QED BY <2>1, <2>2, <2>4, <2>5 DEF RowsInv
<1>14. AloneInv'
  <2> SUFFICES ASSUME deployment = "one process" PROVE AloneInv'
    BY <1>2 DEF AloneInv
  <2>1. \A r \in Streams \ {s} : pc'[r] \notin Writing
    BY <1>1, <1>3 DEF AloneInv, Writing
  <2>2. pc'[s] \notin Writing
    BY <1>3 DEF Writing
  <2>3. \A u \in Threads : conversations'[u].message_count = 2 * Len(history'[u])
    <3>1. conversations'[t].message_count = 2 * Len(history'[t])
      BY <1>11, <1>12, Zenon
    <3>2. \A u \in Threads \ {t} : conversations'[u].message_count = 2 * Len(history'[u])
      BY <1>5 DEF AloneInv
    <3> QED BY <3>1, <3>2
  <2>4. \A r \in Streams : pc'[r] # "collided"
    BY <1>3 DEF AloneInv
  <2> QED BY <2>1, <2>2, <2>3, <2>4 DEF AloneInv, Writing
<1> QED BY <1>7, <1>8, <1>9, <1>13, <1>14

-----------------------------------------------------------------------------
(* The theorems *)

LEMMA ChatStep == ChatInv /\ [Next]_vars => ChatInv'
<1> SUFFICES ASSUME ChatInv, [Next]_vars PROVE ChatInv'
  OBVIOUS
<1>1. CASE Next
  <2>1. PICK s \in Streams : Generating(s) \/ Persisting(s) \/ Disconnect(s) \/ Die(s)
    BY <1>1 DEF Next
  <2>2. Loop(s) \/ Quiet(s) \/ Commit(s)
    BY <2>1 DEF Loop, Quiet, Commit, Persisting
  <2> QED BY <2>2, LoopKeeps, QuietKeeps, CommitKeeps
<1>2. CASE UNCHANGED vars
  <2>1. /\ UNCHANGED <<deployment, pc, thread, found, conversations, history, answer>>
        /\ UNCHANGED <<chunk_count, full_response, received, outcome, sources>>
    BY <1>2 DEF vars, streamVars, rowVars
  <2>2. TypeOK' /\ FramesInv'
    BY <2>1 DEF ChatInv, TypeOK, FramesInv, Framed
  <2>3. StoredInv'
    BY <2>1 DEF ChatInv, StoredInv, Stored
  <2>4. RowsInv' /\ AloneInv'
    BY <2>1, Zenon DEF ChatInv, RowsInv, ConversationsMatchMessages, AloneInv
  <2> QED BY <2>2, <2>3, <2>4 DEF ChatInv
<1> QED BY <1>1, <1>2

\* The inductive invariant of a chat stream and of what it stores.
THEOREM ChatInvariant == Spec => []ChatInv
<1>1. Init => ChatInv
  BY ChatInit
<1>2. ChatInv /\ [Next]_vars => ChatInv'
  BY ChatStep
<1> QED BY <1>1, <1>2, PTL DEF Spec

\* The variables keep their types.
THEOREM TypeCorrect == Spec => []TypeOK
<1>1. ChatInv => TypeOK
  BY DEF ChatInv
<1> QED BY <1>1, ChatInvariant, PTL

\* The row of a thread goes with its messages, whoever writes at once.
THEOREM RowsMatchMessages == Spec => []ConversationsMatchMessages
<1>1. ChatInv => ConversationsMatchMessages
  BY DEF ChatInv, RowsInv
<1> QED BY <1>1, ChatInvariant, PTL

\* In one process the count of messages is exact.
THEOREM OneProcessCounts == Spec => []CountIsExact
<1>1. ChatInv => CountIsExact
  BY DEF ChatInv, AloneInv, CountIsExact
<1> QED BY <1>1, ChatInvariant, PTL

\* What is stored is what the browser was sent, but for one token.
THEOREM WhatIsStoredWasStreamed == Spec => []StoredIsStreamed
<1>1. ASSUME ChatInv PROVE StoredIsStreamed
  <2> SUFFICES ASSUME NEW s \in Stored
               PROVE  /\ answer[s].text > 0
                      /\ answer[s].text \in {received[s], received[s] + 1}
                      /\ answer[s].text # received[s] => outcome[s] = "left"
                      /\ answer[s].sources => outcome[s] = "done"
    BY DEF StoredIsStreamed
  <2>1. /\ s \in Streams /\ pc[s] = "ended" /\ full_response[s] > 0
        /\ answer[s] = [text |-> full_response[s], sources |-> sources[s]]
    BY <1>1 DEF ChatInv, TypeOK, StoredInv, Stored
  <2>2. /\ Framed(s) /\ full_response[s] \in Nat /\ received[s] \in Nat
    BY <1>1, <2>1, ChatConstants DEF ChatInv, TypeOK, FramesInv
  <2> QED BY <2>1, <2>2 DEF Framed
<1> QED BY <1>1, ChatInvariant, PTL

\* A stream whose agent does not raise is stored, once, when the write ends
\* well; only another process takes its place.
THEOREM NoAnswerIsLost == Spec => []AnswersAreKept
<1>1. ASSUME ChatInv PROVE AnswersAreKept
  <2>1. ASSUME NEW s \in Streams, pc[s] = "ended"
        PROVE  s \in Stored <=> full_response[s] > 0
    <3>1. s \in Stored => full_response[s] > 0
      BY <1>1 DEF ChatInv, TypeOK, StoredInv, Stored
    <3> QED BY <1>1, <2>1, <3>1 DEF ChatInv, StoredInv
  <2>2. ASSUME NEW s \in Streams, pc[s] = "collided"
        PROVE  deployment = "several processes" /\ history[thread[s]] # <<>>
    <3>1. deployment # "one process" /\ history[thread[s]] # <<>>
      BY <1>1, <2>2 DEF ChatInv, RowsInv, AloneInv
    <3>2. deployment \in {"one process", "several processes"}
      BY <1>1, ChatAssumption, Zenon DEF ChatAssumption, ChatInv, TypeOK
    <3> QED BY <3>1, <3>2
  <2> QED BY <1>1, <2>1, <2>2 DEF AnswersAreKept, ChatInv, StoredInv
<1> QED BY <1>1, ChatInvariant, PTL

-----------------------------------------------------------------------------
(* What stands behind EveryStreamEnds *)

\* How many more steps a stream may take, at most.
Distance(s) ==
    IF pc[s] = "streaming" THEN 2 * (MaxChunks + 1 - chunk_count[s]) + 4
    ELSE IF pc[s] = "sending" THEN 2 * (MaxChunks + 1 - chunk_count[s]) + 5
    ELSE IF pc[s] = "find" THEN 3
    ELSE IF pc[s] \in {"insert", "update"} THEN 2
    ELSE IF pc[s] = "commit" THEN 1
    ELSE 0

\* Every step takes one stream nearer to its end and no other one away from it,
\* however talkative its agent: what the safety net of event_generator and a
\* write without retries amount to.
THEOREM StreamsRunDown ==
    Spec => [][\E s \in Streams :
                  /\ Distance(s)' < Distance(s)
                  /\ \A t \in Streams \ {s} : Distance(t)' = Distance(t)]_vars
<1> DEFINE Nearer == \E s \in Streams :
                        /\ Distance(s)' < Distance(s)
                        /\ \A t \in Streams \ {s} : Distance(t)' = Distance(t)
<1>1. ASSUME ChatInv, Next PROVE Nearer
  <2>1. PICK s \in Streams : Generating(s) \/ Persisting(s) \/ Disconnect(s) \/ Die(s)
    BY <1>1 DEF Next
  <2>2. TypeOK /\ FramesInv /\ MaxChunks \in Nat
    BY <1>1, ChatConstants DEF ChatInv
  <2>3. chunk_count[s] \in Nat /\ (pc[s] \in {"streaming", "sending"} => chunk_count[s] <= MaxChunks)
    BY <2>2 DEF TypeOK, FramesInv, Framed
  <2>4. \A t \in Streams \ {s} : pc'[t] = pc[t] /\ chunk_count'[t] = chunk_count[t]
    <3>1. CASE Loop(s)
      <4>1. \E p : pc' = [pc EXCEPT ![s] = p]
        BY <2>2, <3>1, LoopShape
      <4>2. \/ chunk_count' = chunk_count
            \/ \E n : chunk_count' = [chunk_count EXCEPT ![s] = n]
        BY <3>1, Zenon DEF Loop, Generating, Token, Send, Done, Runaway, AgentRaises, Disconnect
      <4> QED BY <2>2, <4>1, <4>2 DEF TypeOK
    <3>2. CASE Quiet(s)
      <4>1. (\E p : pc' = [pc EXCEPT ![s] = p]) /\ UNCHANGED streamVars
        BY <2>2, <3>2, QuietShape
      <4>2. chunk_count' = chunk_count
        BY <4>1 DEF streamVars
      <4> QED BY <2>2, <4>1, <4>2 DEF TypeOK
    <3>3. CASE Commit(s)
      <4>1. pc' = [pc EXCEPT ![s] = "ended"] /\ chunk_count' = chunk_count
        BY <3>3 DEF Commit, CommitNew, CommitReused, Goto, streamVars
      <4> QED BY <2>2, <4>1 DEF TypeOK
    <3> QED BY <2>1, <3>1, <3>2, <3>3 DEF Loop, Quiet, Commit, Persisting
  <2>5. Distance(s)' < Distance(s)
    <3>1. CASE Token(s)
      <4>1. /\ pc[s] = "streaming" /\ pc'[s] = "sending"
            /\ chunk_count'[s] = chunk_count[s] + 1
        BY <2>2, <3>1 DEF Token, Goto, TypeOK
      <4> QED BY <2>2, <2>3, <4>1 DEF Distance
    <3>2. CASE Send(s)
      <4>1. /\ pc[s] = "sending" /\ pc'[s] = "streaming"
            /\ chunk_count'[s] = chunk_count[s]
        BY <2>2, <3>2 DEF Send, Goto, TypeOK
      <4> QED BY <2>2, <2>3, <4>1 DEF Distance
    <3>3. CASE Done(s) \/ Runaway(s) \/ AgentRaises(s) \/ Disconnect(s)
      <4>1. (\E why : Leave(s, why)) /\ pc[s] \in {"streaming", "sending"}
        BY <3>3 DEF Done, Runaway, AgentRaises, Disconnect
      <4>2. pc'[s] \in {"find", "ended"}
        BY <2>2, <4>1, LeaveShape DEF TypeOK
      <4> QED BY <2>2, <2>3, <4>1, <4>2 DEF Distance
    <3>4. CASE FindConversation(s) \/ InsertConversation(s) \/ InsertCollides(s)
      <4>1. \/ pc[s] = "find" /\ pc'[s] \in {"insert", "update"}
            \/ pc[s] = "insert" /\ pc'[s] \in {"commit", "collided"}
        BY <2>2, <3>4
           DEF FindConversation, InsertConversation, InsertCollides, Goto, TypeOK
      <4> QED BY <4>1 DEF Distance
    <3>5. CASE CommitNew(s) \/ CommitReused(s)
      <4>1. pc[s] \in {"commit", "update"} /\ pc'[s] = "ended"
        BY <2>2, <3>5 DEF CommitNew, CommitReused, Goto, TypeOK
      <4> QED BY <4>1 DEF Distance
    <3>6. CASE PersistFails(s) \/ Die(s)
      <4>1. pc'[s] \in {"write_failed", "dead"} /\ pc[s] \notin Final
        BY <2>2, <3>6 DEF PersistFails, Die, Goto, TypeOK, Final, Writing
      <4>2. pc[s] \in {"streaming", "sending", "find", "insert", "update", "commit"}
        BY <2>2, <4>1 DEF TypeOK, Writing
      <4> QED BY <2>2, <2>3, <4>1, <4>2 DEF Distance
    <3> QED BY <2>1, <3>1, <3>2, <3>3, <3>4, <3>5, <3>6 DEF Generating, Persisting
  <2>6. \A t \in Streams \ {s} : Distance(t)' = Distance(t)
    BY <2>4 DEF Distance
  <2> QED BY <2>5, <2>6
<1> QED BY <1>1, ChatInvariant, PTL DEF Spec

\* A stream that waits: in one process for the event loop to come back from
\* another write, in several for another insertion of its row.
Waits(s) ==
    \/ pc[s] = "find" /\ ~Free(s)
    \/ pc[s] = "insert" /\ conversations[thread[s]] = NoRow /\ Pending(thread[s]) # {}

\* Whoever waits, waits for a write that waits for nobody: no circle of streams
\* is possible, in one process or several.
THEOREM WaitsAreForWriters ==
    Spec => [](\A s \in Streams : Waits(s) =>
                  \E h \in Streams : pc[h] \in Writing /\ ~Waits(h))
<1>1. ASSUME ChatInv, NEW s \in Streams, Waits(s)
      PROVE  \E h \in Streams : pc[h] \in Writing /\ ~Waits(h)
  <2>1. CASE pc[s] = "find" /\ ~Free(s)
    <3>1. PICK h \in Streams : pc[h] \in Writing
      BY <2>1 DEF Free
    <3>2. deployment = "one process"
      BY <2>1 DEF Free
    <3>3. \A r \in Streams : pc[r] \in Writing => r = h
      BY <1>1, <3>1, <3>2 DEF ChatInv, AloneInv
    <3>4. pc[h] = "insert" => Pending(thread[h]) = {}
      BY <3>3 DEF Pending, Writing
    <3>5. ~Waits(h)
      BY <3>1, <3>4 DEF Waits, Writing
    <3> QED BY <3>1, <3>5
  <2>2. CASE pc[s] = "insert" /\ Pending(thread[s]) # {}
    BY <2>2 DEF Pending, Waits, Writing
  <2> QED BY <1>1, <2>1, <2>2 DEF Waits
<1> DEFINE NoCircle == \A s \in Streams : Waits(s) =>
                          \E h \in Streams : pc[h] \in Writing /\ ~Waits(h)
<1>2. ChatInv => NoCircle
  BY <1>1
<1> QED BY <1>2, ChatInvariant, PTL
=============================================================================
