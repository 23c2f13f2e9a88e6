---------------------------- MODULE RelayProofs ----------------------------
(***************************************************************************)
(* Proofs about McpRelay for any lines, any number of them and any number  *)
(* of restarts of the server.                                              *)
(***************************************************************************)
EXTENDS McpRelay, FiniteSetTheorems, TLAPS

\* The steps of Next by what they touch.
Quiet == CloseStdin \/ Scanner \/ Signal \/ Exit
Ends == Receive \/ Fail \/ Timeout
ServerStep == (\E i \in Line : Refuse(i) \/ Accept(i) \/ Propose(i) \/ Handle(i)) \/ Crash \/ Restart

LEMMA StepCases ==
    ASSUME [Next]_vars
    PROVE  \/ \E m \in Messages : Write(m)
           \/ Quiet \/ Take \/ Ends \/ ServerStep \/ UNCHANGED vars
  BY Zenon DEF Next, Relay, Quiet, Ends, ServerStep

\* Lines are only appended.
LEMMA StdinGrows ==
    ASSUME TypeOK, [Next]_vars
    PROVE  /\ stdin' \in Seq(Messages) /\ Len(stdin') <= MaxLines
           /\ Len(stdin) <= Len(stdin')
           /\ \A i \in 1..Len(stdin) : stdin'[i] = stdin[i]
<1>0. stdin \in Seq(Messages) /\ Len(stdin) <= MaxLines /\ MaxLines \in Nat
  BY RelayAssumption DEF TypeOK
<1>1. ASSUME NEW m \in Messages, Write(m)
      PROVE  /\ stdin' \in Seq(Messages) /\ Len(stdin') = Len(stdin) + 1 /\ Len(stdin') <= MaxLines
             /\ \A i \in 1..Len(stdin) : stdin'[i] = stdin[i]
  BY <1>0, <1>1 DEF Write
<1>2. CASE UNCHANGED stdin
  BY <1>0, <1>2
<1>3. Quiet \/ Take \/ Ends \/ ServerStep \/ UNCHANGED vars => UNCHANGED stdin
  BY DEF Quiet, CloseStdin, Scanner, Scan, ScanEnds, Signal, Exit, Take, Ends, Receive, Fail,
         Timeout, ServerStep, Refuse, Accept, Propose, Handle, Crash, Restart, client, vars
<1> QED
  BY <1>0, <1>1, <1>2, <1>3, StepCases

\* What the endpoint answers without dispatching has the right shape and says
\* nothing false about a line for which nothing was stored.
LEMMA RefusalFacts ==
    ASSUME NEW m \in Messages, NEW r \in refusals(m, authorised)
    PROVE  /\ r \in Responses
           /\ r.body \in {"empty", "protocolError"}
           /\ \/ r.id = m.id \/ r.http >= 300 \/ r.body = "empty" \/ m.id = "absent"
              \/ r.id = "null" /\ m.method = "malformed"
  BY DEF refusals, writeUnauthorized, writeError, Answer, Responses, Ids, Outcomes

LEMMA AcceptedIsAuthorised ==
    ASSUME NEW m, refusals(m, authorised) = {}
    PROVE  authorised
  BY DEF refusals

\* A call that can store a proposal is never answered with a protocol error.
LEMMA StoringFacts ==
    ASSUME NEW m, NEW b \in dispatch(m)
    PROVE  b \in Outcomes /\ (Stores(m) => b # "protocolError")
<1>1. dispatch(m) \subseteq {"result", "toolError", "protocolError"}
  BY DEF dispatch, handleToolsCall, propose_script, get_smart_trend, readTool, handleSourceErr,
         handleResourcesRead
<1>2. Stores(m) => dispatch(m) = {"result", "toolError"}
  BY DEF Stores, dispatch, handleToolsCall, propose_script
<1> QED
  BY <1>1, <1>2 DEF Outcomes

(***************************************************************************)
(* The relay loop.                                                         *)
(***************************************************************************)
\* A reply that may be written for line i.
Fits(i, e) ==
    /\ e \in Replies /\ e.line = i
    /\ \/ e.id = stdin[i].id
       \/ e.id = "null" /\ (~stdin[i].json \/ stdin[i].method = "malformed")
    /\ e.body \in Outcomes => request[i] = "answered" /\ Truthful(i, e.body)

\* A line that was posted is done with: it is answered once if it expects a
\* reply, by the server or in its place, and not at all otherwise.
LEMMA EndFacts ==
    ASSUME RelayInv, Ends
    PROVE  /\ at = "post" /\ current \in Line /\ current \in 1..scanned
           /\ current \notin handled /\ stdin[current].json
           /\ at' = "wait" /\ current' = 0 /\ handled' = handled \cup {current}
           /\ UNCHANGED <<client, scanned, hold, scanning, stopping, server>>
           /\ \/ ~expectsReply(stdin[current]) /\ stdout' = stdout
              \/ /\ expectsReply(stdin[current])
                 /\ \E e \in Replies : Fits(current, e) /\ stdout' = Append(stdout, e)
<1> USE RelayAssumption
<1>0. current \notin handled /\ stdin[current].json
  BY DEF Ends, Receive, Fail, Timeout, RelayInv, QueueInv
<1>1. at = "post" /\ current \in 1..scanned /\ current \in Line /\ current \in 1..Len(stdin)
  BY DEF Ends, Receive, Fail, Timeout, RelayInv, TypeOK, QueueInv, Line
<1>2. stdin[current] \in Messages
  BY <1>1 DEF RelayInv, TypeOK
<1>3. CASE ReplyError(current)
  <2>1. Fits(current, [line |-> current, id |-> stdin[current].id, body |-> "shimError"])
    BY <1>1, <1>2 DEF Fits, Replies, Ids, Outcomes
  <2> QED
    BY <1>0, <1>1, <1>3, <2>1 DEF Ends, Receive, Fail, Timeout, Done, ReplyError, Reply, Fits
<1>4. ASSUME NEW r \in response[current], relay(current, r), ~ReplyError(current), Receive
      PROVE  \/ ~expectsReply(stdin[current]) /\ stdout' = stdout
             \/ /\ expectsReply(stdin[current])
                /\ \E e \in Replies : Fits(current, e) /\ stdout' = Append(stdout, e)
  <2>1. r \in Responses /\ ResponseOK(current, r) /\ request[current] = "answered"
    BY <1>1 DEF RelayInv, TypeOK, ServerOK
  <2>2. CASE ~expectsReply(stdin[current])
    BY <1>4, <2>2 DEF relay
  <2>3. CASE expectsReply(stdin[current])
    <3> DEFINE e == [line |-> current, id |-> r.id, body |-> r.body]
    <3>1. stdout' = Append(stdout, e) /\ ~(r.http >= 300) /\ r.body # "empty"
      BY <1>4, <2>3 DEF relay, Reply
    <3>2. e \in Replies /\ e.line = current /\ e.id = r.id /\ e.body = r.body
      BY <1>1, <2>1 DEF Replies, Responses
    <3> HIDE DEF e
    <3>3. Fits(current, e)
      BY <2>1, <2>3, <3>1, <3>2 DEF Fits, ResponseOK, expectsReply
    <3> QED
      BY <2>3, <3>1, <3>2, <3>3
  <2> QED
    BY <2>2, <2>3
<1>5. CASE Receive
  BY <1>0, <1>1, <1>3, <1>4, <1>5 DEF Receive, Done
<1> QED
  BY <1>3, <1>5 DEF Ends, Fail, Timeout

\* A line that is no JSON is answered and done with at once; any other is
\* posted.
LEMMA TakeFacts ==
    ASSUME RelayInv, Take
    PROVE  /\ at = "wait" /\ hold \in Line /\ hold \in 1..scanned /\ hold' = 0
           /\ hold \notin handled /\ request[hold] = "none"
           /\ UNCHANGED <<client, scanned, scanning, stopping, authorised, up, response,
                          proposals, crashes>>
           /\ \/ /\ stdin[hold].json /\ at' = "post" /\ current' = hold
                 /\ request' = [request EXCEPT ![hold] = "sent"]
                 /\ UNCHANGED <<stdout, handled>>
              \/ /\ ~stdin[hold].json /\ at' = "wait" /\ current' = 0
                 /\ handled' = handled \cup {hold} /\ UNCHANGED request
                 /\ \E e \in Replies : Fits(hold, e) /\ stdout' = Append(stdout, e)
<1>0. hold \in 1..scanned /\ hold \in Line
  BY RelayAssumption DEF Take, RelayInv, TypeOK, Line
<1>1. /\ hold \in 1..scanned /\ hold \in Line
      /\ hold \notin handled /\ request[hold] = "none"
  BY <1>0 DEF Take, RelayInv, QueueInv, ServerOK
<1>2. CASE stdin[hold].json
  BY <1>1, <1>2 DEF Take
<1>3. CASE ~stdin[hold].json
  <2>1. Fits(hold, [line |-> hold, id |-> "null", body |-> "shimError"])
    BY <1>1, <1>3 DEF Fits, Replies, Ids, Outcomes
  <2> QED
    BY <1>1, <1>3, <2>1 DEF Take, Done, Reply, Fits
<1> QED
  BY <1>2, <1>3

(***************************************************************************)
(* The invariant.                                                          *)
(***************************************************************************)
LEMMA ServerShape ==
    ASSUME RelayInv, ServerStep
    PROVE  /\ UNCHANGED <<client, shim, authorised>>
           /\ up' \in BOOLEAN /\ crashes' \in Nat
           /\ request' \in [Line -> {"none", "sent", "running", "ran", "gone", "answered"}]
           /\ response' \in [Line -> SUBSET Responses]
           /\ proposals' \in [Line -> Nat]
<1>0. TypeOK
  BY DEF RelayInv
<1>1. ASSUME NEW i \in Line, request[i] \notin {"none", "gone"}
      PROVE  i \in 1..Len(stdin) /\ stdin[i] \in Messages
  BY <1>1 DEF RelayInv, TypeOK, ServerOK, Line
<1>2. ASSUME NEW i \in Line, Refuse(i)
      PROVE  \E r \in Responses : Respond(i, r)
  BY <1>1, <1>2, RefusalFacts DEF Refuse
<1>3. ASSUME NEW i \in Line, Handle(i)
      PROVE  \E r \in Responses : Respond(i, r)
  <2>1. stdin[i] \in Messages
    BY <1>1, <1>3 DEF Handle
  <2>2. PICK b \in dispatch(stdin[i]) : Respond(i, Answer(200, stdin[i].id, b))
    BY <1>3 DEF Handle
  <2>3. Answer(200, stdin[i].id, b) \in Responses
    BY <2>1, StoringFacts DEF Answer, Responses, Ids
  <2> QED
    BY <2>2, <2>3
<1>4. ASSUME NEW i \in Line, NEW r \in Responses, Respond(i, r)
      PROVE  /\ request' \in [Line -> {"none", "sent", "running", "ran", "gone", "answered"}]
             /\ response' \in [Line -> SUBSET Responses]
  BY <1>0, <1>4 DEF Respond, TypeOK
<1>5. ASSUME NEW i \in Line, Refuse(i) \/ Handle(i)
      PROVE  /\ request' \in [Line -> {"none", "sent", "running", "ran", "gone", "answered"}]
             /\ response' \in [Line -> SUBSET Responses]
             /\ UNCHANGED <<client, shim, authorised, up, proposals, crashes>>
  BY <1>2, <1>3, <1>4, <1>5 DEF Refuse, Handle
<1>6. ASSUME NEW i \in Line, Accept(i)
      PROVE  /\ request' \in [Line -> {"none", "sent", "running", "ran", "gone", "answered"}]
             /\ UNCHANGED <<client, shim, authorised, up, response, proposals, crashes>>
  BY <1>0, <1>6 DEF Accept, TypeOK
<1>7. ASSUME NEW i \in Line, Propose(i)
      PROVE  /\ request' \in [Line -> {"none", "sent", "running", "ran", "gone", "answered"}]
             /\ proposals' \in [Line -> Nat]
             /\ UNCHANGED <<client, shim, authorised, up, response, crashes>>
  BY <1>0, <1>7 DEF Propose, TypeOK
<1>8. ASSUME Crash
      PROVE  /\ up' \in BOOLEAN /\ crashes' \in Nat
             /\ request' \in [Line -> {"none", "sent", "running", "ran", "gone", "answered"}]
             /\ UNCHANGED <<client, shim, authorised, response, proposals>>
  <2>1. request' \in [Line -> {"none", "sent", "running", "ran", "gone", "answered"}]
    BY <1>0, <1>8 DEF Crash, TypeOK
  <2>2. up' \in BOOLEAN
    BY <1>8 DEF Crash
  <2>3. crashes' \in Nat
    BY <1>0, <1>8 DEF Crash, TypeOK
  <2>4. UNCHANGED <<client, shim, authorised, response, proposals>>
    BY <1>8 DEF Crash
  <2> QED
    BY <2>1, <2>2, <2>3, <2>4
<1>9. ASSUME Restart
      PROVE  /\ up' \in BOOLEAN
             /\ UNCHANGED <<client, shim, authorised, request, response, proposals, crashes>>
  BY <1>9 DEF Restart
<1>10. ASSUME NEW i \in Line, Refuse(i) \/ Accept(i) \/ Propose(i) \/ Handle(i)
       PROVE  /\ UNCHANGED <<client, shim, authorised, up, crashes>>
              /\ request' \in [Line -> {"none", "sent", "running", "ran", "gone", "answered"}]
              /\ response' \in [Line -> SUBSET Responses]
              /\ proposals' \in [Line -> Nat]
  <2>1. CASE Refuse(i) \/ Handle(i)
    BY <1>0, <1>5, <2>1 DEF TypeOK
  <2>2. CASE Accept(i)
    BY <1>0, <1>6, <2>2 DEF TypeOK
  <2>3. CASE Propose(i)
    BY <1>0, <1>7, <2>3 DEF TypeOK
  <2> QED
    BY <1>10, <2>1, <2>2, <2>3
<1>11. CASE \E i \in Line : Refuse(i) \/ Accept(i) \/ Propose(i) \/ Handle(i)
  BY <1>0, <1>10, <1>11 DEF TypeOK
<1>12. CASE Crash
  BY <1>0, <1>8, <1>12 DEF TypeOK
<1>13. CASE Restart
  BY <1>0, <1>9, <1>13 DEF TypeOK
<1> QED
  BY <1>11, <1>12, <1>13 DEF ServerStep

LEMMA RelayTypeStep ==
    ASSUME RelayInv, [Next]_vars
    PROVE  TypeOK'
<1> USE DEF client, shim, server
<1>0. TypeOK
  BY DEF RelayInv
<1>1. ASSUME NEW m \in Messages, Write(m)
      PROVE  TypeOK'
  BY <1>0, <1>1, StdinGrows DEF Write, TypeOK
<1>2. CASE Scan
  <2>1. scanned' \in 0..Len(stdin) /\ scanned' = scanned + 1
    BY <1>0, <1>2 DEF Scan, TypeOK
  <2>2. scanning' \in BOOLEAN
    BY <1>0, <1>2 DEF Scan, TypeOK
  <2>3. hold' = hold \/ hold' = scanned + 1
    BY <1>2 DEF Scan
  <2>4. hold' \in 0..scanned'
    BY <1>0, <2>1, <2>3 DEF TypeOK
  <2>5. current \in 0..scanned' /\ handled \subseteq 1..scanned'
    BY <1>0, <2>1 DEF TypeOK
  <2> QED
    BY <1>0, <1>2, <2>1, <2>2, <2>4, <2>5 DEF Scan, TypeOK
<1>3. CASE CloseStdin
  BY <1>0, <1>3 DEF CloseStdin, TypeOK
<1>4. CASE ScanEnds
  <2>1. hold' = 0 /\ scanning' \in BOOLEAN
    BY <1>4 DEF ScanEnds
  <2>2. UNCHANGED <<stdin, open, scanned, at, current, stopping, stdout, handled, server>>
    BY <1>4 DEF ScanEnds
  <2> QED
    BY <1>0, <2>1, <2>2 DEF TypeOK
<1>5. CASE Signal
  BY <1>0, <1>5 DEF Signal, TypeOK
<1>6. CASE Exit
  BY <1>0, <1>6 DEF Exit, TypeOK
<1>7. ASSUME NEW e \in Replies, stdout' = Append(stdout, e)
      PROVE  stdout' \in Seq(Replies)
  BY <1>0, <1>7 DEF TypeOK
<1>8. CASE Take
  <2>1. stdout' \in Seq(Replies) /\ handled' \subseteq 1..scanned
    BY <1>0, <1>7, <1>8, TakeFacts DEF TypeOK
  <2>2. request' \in [Line -> {"none", "sent", "running", "ran", "gone", "answered"}]
    BY <1>0, <1>8, TakeFacts DEF TypeOK
  <2>3. hold' \in 0..scanned /\ current' \in 0..scanned /\ at' \in {"wait", "post", "exited"}
    BY <1>0, <1>8, TakeFacts DEF TypeOK
  <2>4. UNCHANGED <<stdin, open, scanned, scanning, stopping, authorised, up, response,
                    proposals, crashes>>
    BY <1>8, TakeFacts
  <2> QED
    BY <1>0, <2>1, <2>2, <2>3, <2>4 DEF TypeOK
<1>9. CASE Ends
  <2>1. stdout' \in Seq(Replies) /\ handled' \subseteq 1..scanned
    BY <1>0, <1>7, <1>9, EndFacts DEF TypeOK
  <2>2. current' \in 0..scanned /\ at' \in {"wait", "post", "exited"}
    BY <1>0, <1>9, EndFacts DEF TypeOK
  <2>3. UNCHANGED <<stdin, open, scanned, hold, scanning, stopping, authorised, up, request,
                    response, proposals, crashes>>
    BY <1>9, EndFacts
  <2> QED
    BY <1>0, <2>1, <2>2, <2>3 DEF TypeOK
<1>10. CASE ServerStep
  BY <1>0, <1>10, ServerShape DEF TypeOK
<1>11. CASE UNCHANGED vars
  BY <1>0, <1>11 DEF vars, TypeOK
<1> QED
  BY <1>1, <1>2, <1>3, <1>4, <1>5, <1>6, <1>8, <1>9, <1>10, <1>11, StepCases
     DEF Quiet, Scanner

LEMMA QueueStep ==
    ASSUME RelayInv, [Next]_vars
    PROVE  QueueInv'
<1> USE DEF client, shim, server
<1>0. TypeOK /\ QueueInv
  BY DEF RelayInv
<1>1. CASE Take
  BY <1>0, <1>1, TakeFacts DEF TypeOK, QueueInv
<1>2. CASE Ends
  BY <1>0, <1>2, EndFacts DEF TypeOK, QueueInv
<1>3. CASE Quiet
  BY <1>0, <1>3 DEF Quiet, CloseStdin, Scanner, Scan, ScanEnds, Signal, Exit, TypeOK, QueueInv
<1>4. CASE ServerStep \/ UNCHANGED vars
  BY <1>0, <1>4, ServerShape DEF vars, QueueInv
<1>5. ASSUME NEW m \in Messages, Write(m)
      PROVE  QueueInv'
  <2>1. at = "post" => current \in 1..Len(stdin)
    BY <1>0 DEF TypeOK, QueueInv
  <2>2. at = "post" => stdin'[current] = stdin[current]
    BY <1>0, <2>1, StdinGrows
  <2> QED
    BY <1>0, <1>5, <2>2 DEF Write, QueueInv
<1> QED
  BY <1>1, <1>2, <1>3, <1>4, <1>5, StepCases

\* A line that the server has heard of was read from stdin.
LEMMA SeenIsRead ==
    ASSUME RelayInv, NEW i \in Line, request[i] # "none" \/ i \in handled
    PROVE  i \in 1..Len(stdin) /\ stdin[i] \in Messages
  BY DEF RelayInv, TypeOK, QueueInv, ServerOK, Line

\* What one step of the server does with one line.
LEMMA LineCases ==
    ASSUME RelayInv, ServerStep, NEW i \in Line
    PROVE  \/ /\ request'[i] = request[i] /\ response'[i] = response[i]
              /\ proposals'[i] = proposals[i]
           \/ /\ request[i] \in {"sent", "running", "ran"} /\ request'[i] = "answered"
              /\ \E r : response'[i] = {r} /\ ResponseOK(i, r)
              /\ proposals'[i] = proposals[i]
           \/ /\ request[i] = "sent" /\ request'[i] = "running" /\ authorised
              /\ response'[i] = response[i] /\ proposals'[i] = proposals[i]
           \/ /\ request[i] = "running" /\ request'[i] = "ran" /\ Stores(stdin[i])
              /\ response'[i] = response[i] /\ proposals'[i] = proposals[i] + 1
           \/ /\ request[i] \notin {"none", "answered"} /\ request'[i] = "gone"
              /\ response'[i] = response[i] /\ proposals'[i] = proposals[i]
<1>0. /\ DOMAIN request = Line /\ DOMAIN response = Line /\ DOMAIN proposals = Line
      /\ ServerOK(i)
  BY DEF RelayInv, TypeOK
<1>1. ASSUME Refuse(i)
      PROVE  /\ request[i] = "sent" /\ request'[i] = "answered"
             /\ \E r : response'[i] = {r} /\ ResponseOK(i, r)
             /\ proposals'[i] = proposals[i]
  <2>1. PICK r \in refusals(stdin[i], authorised) : Respond(i, r)
    BY <1>1 DEF Refuse
  <2>2. request[i] = "sent" /\ proposals' = proposals /\ proposals[i] = 0
    BY <1>0, <1>1 DEF Refuse, ServerOK
  <2>3. stdin[i] \in Messages
    BY <2>2, SeenIsRead
  <2>4. ResponseOK(i, r)
    BY <2>2, <2>3, RefusalFacts DEF ResponseOK, Truthful
  <2> QED
    BY <1>0, <2>1, <2>2, <2>4 DEF Respond
<1>2. ASSUME Handle(i)
      PROVE  /\ request[i] \in {"running", "ran"} /\ request'[i] = "answered"
             /\ \E r : response'[i] = {r} /\ ResponseOK(i, r)
             /\ proposals'[i] = proposals[i]
  <2>1. PICK b \in dispatch(stdin[i]) :
               /\ (b = "result" /\ Stores(stdin[i])) => request[i] = "ran"
               /\ Respond(i, Answer(200, stdin[i].id, b))
    BY <1>2 DEF Handle
  <2>2. request[i] \in {"running", "ran"} /\ proposals' = proposals
    BY <1>2 DEF Handle
  <2>3. b = "protocolError" => proposals[i] = 0
    BY <1>0, <2>2, StoringFacts DEF ServerOK
  <2>4. b = "result" /\ Stores(stdin[i]) => proposals[i] = 1
    BY <1>0, <2>1 DEF ServerOK
  <2>5. ResponseOK(i, Answer(200, stdin[i].id, b))
    BY <2>3, <2>4 DEF ResponseOK, Truthful, Answer
  <2> QED
    BY <1>0, <2>1, <2>2, <2>5 DEF Respond
<1>3. ASSUME Accept(i)
      PROVE  /\ request[i] = "sent" /\ request'[i] = "running" /\ authorised
             /\ response'[i] = response[i] /\ proposals'[i] = proposals[i]
  BY <1>0, <1>3, AcceptedIsAuthorised DEF Accept
<1>4. ASSUME Propose(i)
      PROVE  /\ request[i] = "running" /\ request'[i] = "ran" /\ Stores(stdin[i])
             /\ response'[i] = response[i] /\ proposals'[i] = proposals[i] + 1
  BY <1>0, <1>4 DEF Propose
<1>5. ASSUME NEW j \in Line, j # i, Refuse(j) \/ Accept(j) \/ Propose(j) \/ Handle(j)
      PROVE  /\ request'[i] = request[i] /\ response'[i] = response[i]
             /\ proposals'[i] = proposals[i]
  <2>1. CASE Refuse(j) \/ Handle(j)
    BY <1>0, <1>5, <2>1 DEF Refuse, Handle, Respond
  <2>2. CASE Accept(j) \/ Propose(j)
    BY <1>0, <1>5, <2>2 DEF Accept, Propose
  <2> QED
    BY <1>5, <2>1, <2>2
<1>6. ASSUME Crash
      PROVE  /\ request'[i] = IF request[i] \in {"none", "answered"} THEN request[i] ELSE "gone"
             /\ response'[i] = response[i] /\ proposals'[i] = proposals[i]
  BY <1>6 DEF Crash
<1>7. ASSUME Restart
      PROVE  /\ request'[i] = request[i] /\ response'[i] = response[i]
             /\ proposals'[i] = proposals[i]
  BY <1>7 DEF Restart
<1>8. CASE Crash
  BY <1>6, <1>8
<1>9. CASE \E j \in Line : Refuse(j) \/ Accept(j) \/ Propose(j) \/ Handle(j)
  <2>1. CASE Refuse(i)
    BY <1>1, <2>1
  <2>2. CASE Handle(i)
    BY <1>2, <2>2
  <2>3. CASE Accept(i)
    BY <1>3, <2>3
  <2>4. CASE Propose(i)
    BY <1>4, <2>4
  <2> QED
    BY <1>5, <1>9, <2>1, <2>2, <2>3, <2>4
<1> QED
  BY <1>7, <1>8, <1>9 DEF ServerStep

\* What holds of a line, at both ends of the connection.
LineOK(i) == ServerOK(i) /\ \A r \in response[i] : ResponseOK(i, r)

LEMMA LineStep ==
    ASSUME RelayInv, [Next]_vars, NEW i \in Line
    PROVE  LineOK(i)'
<1> USE DEF client, shim, server
<1>0. LineOK(i) /\ TypeOK /\ QueueInv
  BY DEF RelayInv, LineOK
<1>1. request[i] # "none" => stdin'[i] = stdin[i]
  BY <1>0, SeenIsRead, StdinGrows
<1>2. request[i] = "none" => response[i] = {} /\ proposals[i] = 0
  BY <1>0 DEF LineOK, ServerOK
<1>3. ASSUME request'[i] = request[i], response'[i] = response[i], proposals'[i] = proposals[i],
             authorised' = authorised,
             request[i] # "none" => i \in handled' \/ (at' = "post" /\ i = current')
      PROVE  LineOK(i)'
  BY <1>0, <1>1, <1>2, <1>3 DEF LineOK, ServerOK, ResponseOK, Truthful
<1>4. CASE Take
  <2>1. CASE i = hold /\ stdin[hold].json
    <3>1. /\ request'[i] = "sent" /\ response'[i] = {} /\ proposals'[i] = 0
          /\ at' = "post" /\ current' = i
      BY <1>0, <1>2, <1>4, <2>1, TakeFacts DEF TypeOK
    <3> QED
      BY <3>1 DEF LineOK, ServerOK
  <2>2. CASE ~(i = hold /\ stdin[hold].json)
    <3>1. /\ request'[i] = request[i] /\ response'[i] = response[i]
          /\ proposals'[i] = proposals[i] /\ authorised' = authorised
      BY <1>0, <1>4, <2>2, TakeFacts DEF TypeOK
    <3>2. request[i] # "none" => i \in handled /\ handled \subseteq handled'
      BY <1>0, <1>4, TakeFacts DEF LineOK, ServerOK
    <3> QED
      BY <1>3, <3>1, <3>2
  <2> QED
    BY <2>1, <2>2
<1>5. CASE Ends
  <2>1. UNCHANGED server /\ handled' = handled \cup {current}
    BY <1>5, EndFacts
  <2> QED
    BY <1>0, <1>3, <2>1 DEF LineOK, ServerOK
<1>6. CASE Quiet
  <2>1. UNCHANGED <<server, handled, current>> /\ (at' = at \/ at = "wait")
    BY <1>6 DEF Quiet, CloseStdin, Scanner, Scan, ScanEnds, Signal, Exit
  <2> QED
    BY <1>0, <1>3, <2>1 DEF LineOK, ServerOK
<1>7. CASE UNCHANGED <<shim, server>>
  BY <1>0, <1>3, <1>7 DEF LineOK, ServerOK
<1>8. CASE ServerStep
  <2>1. UNCHANGED <<client, shim, authorised>>
    BY <1>8, ServerShape
  <2>2. request[i] # "none" => i \in handled' \/ (at' = "post" /\ i = current')
    BY <1>0, <2>1 DEF LineOK, ServerOK
  <2>3. proposals[i] \in Nat
    BY <1>0 DEF TypeOK
  <2>4. ASSUME NEW r, ResponseOK(i, r), proposals'[i] = proposals[i]
        PROVE  ResponseOK(i, r)'
    BY <2>1, <2>4 DEF ResponseOK, Truthful
  <2>5. ServerOK(i)'
    BY <1>0, <1>8, <2>1, <2>2, <2>3, LineCases DEF LineOK, ServerOK
  <2>6. \A r \in response'[i] : ResponseOK(i, r)'
    BY <1>0, <1>8, <2>4, LineCases DEF LineOK, ServerOK
  <2> QED
    BY <2>5, <2>6 DEF LineOK
<1>9. (\E m \in Messages : Write(m)) \/ UNCHANGED vars => UNCHANGED <<shim, server>>
  BY DEF Write, vars
<1> QED
  BY <1>4, <1>5, <1>6, <1>7, <1>8, <1>9, StepCases

\* A line that is handled stays so, and nothing that was answered changes.
LEMMA AnsweredIsFinal ==
    ASSUME RelayInv, [Next]_vars, NEW i \in Line, i \in handled
    PROVE  /\ i \in handled' /\ stdin'[i] = stdin[i]
           /\ request[i] = "answered" =>
                 request'[i] = "answered" /\ proposals'[i] = proposals[i]
<1> USE DEF client, shim, server
<1>0. TypeOK
  BY DEF RelayInv
<1>1. stdin'[i] = stdin[i]
  BY <1>0, SeenIsRead, StdinGrows
<1>2. CASE Take
  BY <1>0, <1>1, <1>2, TakeFacts DEF TypeOK
<1>3. CASE Ends
  BY <1>1, <1>3, EndFacts
<1>4. CASE ServerStep
  BY <1>1, <1>4, ServerShape, LineCases
<1>5. CASE UNCHANGED <<handled, server>>
  BY <1>1, <1>5
<1>6. (\E m \in Messages : Write(m)) \/ Quiet \/ UNCHANGED vars => UNCHANGED <<handled, server>>
  BY DEF Write, vars, Quiet, CloseStdin, Scanner, Scan, ScanEnds, Signal, Exit
<1> QED
  BY <1>2, <1>3, <1>4, <1>5, <1>6, StepCases

\* What a step writes: nothing, or one reply for the line it is done with.
LEMMA WriteCases ==
    ASSUME RelayInv, [Next]_vars
    PROVE  \/ UNCHANGED <<stdout, handled>>
           \/ \E i \in Line :
                 /\ i \notin handled /\ i \in 1..Len(stdin) /\ handled' = handled \cup {i}
                 /\ stdin' = stdin /\ UNCHANGED <<request, proposals>>
                 /\ \/ stdin[i].json /\ ~expectsReply(stdin[i]) /\ stdout' = stdout
                    \/ /\ ~(stdin[i].json /\ ~expectsReply(stdin[i]))
                       /\ \E e \in Replies : Fits(i, e) /\ stdout' = Append(stdout, e)
<1> USE DEF client, shim, server
<1>0. scanned <= Len(stdin) /\ scanned \in Nat /\ Len(stdin) \in Nat
  BY DEF RelayInv, TypeOK
<1>1. CASE Take
  BY <1>0, <1>1, TakeFacts
<1>2. CASE Ends
  BY <1>0, <1>2, EndFacts
<1>3. (\E m \in Messages : Write(m)) \/ Quiet \/ UNCHANGED vars => UNCHANGED <<stdout, handled>>
  BY DEF Write, vars, Quiet, CloseStdin, Scanner, Scan, ScanEnds, Signal, Exit
<1>4. ServerStep => UNCHANGED <<stdout, handled>>
  BY ServerShape
<1> QED
  BY <1>1, <1>2, <1>3, <1>4, StepCases

LEMMA StdoutStep ==
    ASSUME RelayInv, [Next]_vars, NEW n \in DOMAIN stdout'
    PROVE  StdoutOK(n)'
<1>0. TypeOK /\ \A k \in DOMAIN stdout : StdoutOK(k)
  BY DEF RelayInv
<1>1. ASSUME n \in DOMAIN stdout, stdout'[n] = stdout[n]
      PROVE  StdoutOK(n)'
  <2>0. stdout[n] \in Replies
    BY <1>0, <1>1 DEF TypeOK
  <2>1. stdout[n].line \in Line /\ stdout[n].line \in handled
    BY <1>0, <1>1, <2>0 DEF Replies, StdoutOK
  <2> QED
    BY <1>0, <1>1, <2>1, AnsweredIsFinal DEF StdoutOK, Truthful
<1>2. CASE stdout' = stdout
  BY <1>1, <1>2
<1>3. ASSUME NEW i \in Line, NEW e \in Replies, Fits(i, e), stdout' = Append(stdout, e),
             handled' = handled \cup {i}, stdin' = stdin, UNCHANGED <<request, proposals>>
      PROVE  StdoutOK(n)'
  <2>1. /\ n \in 1..Len(stdout) + 1 /\ (n \in 1..Len(stdout) => stdout'[n] = stdout[n])
        /\ DOMAIN stdout = 1..Len(stdout) /\ Len(stdout) \in Nat
        /\ stdout'[Len(stdout) + 1] = e
    BY <1>0, <1>3 DEF TypeOK
  <2>2. CASE n = Len(stdout) + 1
    BY <1>3, <2>1, <2>2 DEF StdoutOK, Fits, Truthful
  <2>3. CASE n # Len(stdout) + 1
    BY <1>1, <2>1, <2>3
  <2> QED
    BY <2>2, <2>3
<1> QED
  BY <1>2, <1>3, WriteCases

LEMMA RelayInit == Init => RelayInv
<1> SUFFICES ASSUME Init
             PROVE  RelayInv
  OBVIOUS
<1>1. authorised \in BOOLEAN
  BY DEF Init, checkAuth
<1>2. /\ request \in [Line -> {"none", "sent", "running", "ran", "gone", "answered"}]
      /\ response \in [Line -> SUBSET Responses] /\ proposals \in [Line -> Nat]
  BY DEF Init
<1>3. TypeOK
  <2>1. stdin \in Seq(Messages) /\ Len(stdin) = 0 /\ Len(stdin) <= MaxLines
    BY RelayAssumption DEF Init
  <2>2. /\ scanned \in 0..Len(stdin) /\ hold \in 0..scanned /\ current \in 0..scanned
        /\ crashes \in Nat /\ handled \subseteq 1..scanned
    BY <2>1 DEF Init
  <2>3. /\ open \in BOOLEAN /\ scanning \in BOOLEAN /\ stopping \in BOOLEAN /\ up \in BOOLEAN
        /\ at \in {"wait", "post", "exited"}
    BY DEF Init
  <2>4. stdout \in Seq(Replies)
    BY DEF Init
  <2> QED
    BY <1>1, <1>2, <2>1, <2>2, <2>3, <2>4 DEF TypeOK
<1>4. QueueInv /\ \A i \in Line : ServerOK(i) /\ \A r \in response[i] : ResponseOK(i, r)
  BY DEF Init, QueueInv, ServerOK
<1>5. DOMAIN stdout = {}
  BY DEF Init
<1> QED
  BY <1>3, <1>4, <1>5 DEF RelayInv

LEMMA RelayStep == RelayInv /\ [Next]_vars => RelayInv'
<1> SUFFICES ASSUME RelayInv, [Next]_vars
             PROVE  RelayInv'
  OBVIOUS
<1>1. TypeOK' /\ QueueInv'
  BY RelayTypeStep, QueueStep
<1>2. \A i \in Line : ServerOK(i)' /\ (\A r \in response[i] : ResponseOK(i, r))'
  BY LineStep DEF LineOK
<1>3. \A n \in DOMAIN stdout' : StdoutOK(n)'
  BY StdoutStep
<1> QED
  BY <1>1, <1>2, <1>3 DEF RelayInv

\* Where every line stands on both ends of the connection, at every step of
\* the scanner, the loop and the server (cmd/sa-mcp-shim/main.go,
\* internal/mcp/server.go), whatever is lost to a crash or a deadline.
THEOREM RelayInvariant == Spec => []RelayInv
  BY RelayInit, RelayStep, PTL DEF Spec

\* What a client may conclude from a reply about the proposal it made
\* (internal/mcp/jsonrpc.go): a result means that it is stored, once; a
\* protocol error that it is not; and a wrong token stores nothing.
THEOREM RepliesAreTruthful == Spec => []ReplyIsTruthful
<1>1. ASSUME RelayInv
      PROVE  ReplyIsTruthful
  <2>1. ASSUME NEW n \in DOMAIN stdout
        PROVE  Truthful(stdout[n].line, stdout[n].body) \/ stdout[n].body = "shimError"
    <3>1. stdout[n] \in Replies /\ StdoutOK(n)
      BY <1>1 DEF RelayInv, TypeOK
    <3> QED
      BY <3>1 DEF StdoutOK, Replies
  <2>2. ASSUME NEW i \in Line
        PROVE  proposals[i] <= (IF authorised THEN 1 ELSE 0)
    BY <1>1 DEF RelayInv, TypeOK, ServerOK
  <2> QED
    BY <2>1, <2>2 DEF ReplyIsTruthful, Truthful
<1> QED
  BY <1>1, RelayInvariant, PTL

(***************************************************************************)
(* One reply.                                                              *)
(***************************************************************************)

\* What OneReply says of one line.
AnsweredOnce(i) ==
    /\ i \notin handled => RepliesTo(i) = {}
    /\ i \in handled =>
          /\ Cardinality(RepliesTo(i)) = IF stdin[i].json /\ ~expectsReply(stdin[i]) THEN 0 ELSE 1
          /\ \A n \in RepliesTo(i) :
                \/ stdout[n].id = stdin[i].id
                \/ stdout[n].id = "null" /\ (~stdin[i].json \/ stdin[i].method = "malformed")

LEMMA AnsweredOnceStep ==
    ASSUME RelayInv, [Next]_vars, NEW i \in Line, AnsweredOnce(i)
    PROVE  AnsweredOnce(i)'
<1>0. /\ DOMAIN stdout = 1..Len(stdout) /\ Len(stdout) \in Nat
      /\ stdout \in Seq(Replies)
  BY DEF RelayInv, TypeOK
<1>1. i \in handled => stdin'[i] = stdin[i]
  BY AnsweredIsFinal
<1>2. ASSUME (i \in handled') <=> (i \in handled), RepliesTo(i)' = RepliesTo(i),
             \A n \in RepliesTo(i) : stdout'[n] = stdout[n]
      PROVE  AnsweredOnce(i)'
  BY <1>1, <1>2 DEF AnsweredOnce
<1>3. CASE UNCHANGED <<stdout, handled>>
  BY <1>2, <1>3 DEF RepliesTo
<1>4. ASSUME NEW j \in Line, j \notin handled, handled' = handled \cup {j}, stdin' = stdin,
             stdin[j].json, ~expectsReply(stdin[j]), stdout' = stdout
      PROVE  AnsweredOnce(i)'
  <2>1. RepliesTo(i)' = RepliesTo(i)
    BY <1>4 DEF RepliesTo
  <2>2. CASE i = j
    <3>1. RepliesTo(i)' = {}
      BY <1>4, <2>1, <2>2 DEF AnsweredOnce
    <3>2. Cardinality(RepliesTo(i)') = 0
      BY <3>1, FS_EmptySet
    <3> QED
      BY <1>4, <2>2, <3>1, <3>2 DEF AnsweredOnce
  <2>3. CASE i # j
    BY <1>2, <1>4, <2>1, <2>3
  <2> QED
    BY <2>2, <2>3
<1>5. ASSUME NEW j \in Line, NEW e \in Replies, j \notin handled, handled' = handled \cup {j},
             stdin' = stdin, ~(stdin[j].json /\ ~expectsReply(stdin[j])),
             Fits(j, e), stdout' = Append(stdout, e)
      PROVE  AnsweredOnce(i)'
  <2>1. /\ DOMAIN stdout' = 1..Len(stdout) + 1 /\ stdout'[Len(stdout) + 1] = e
        /\ \A n \in DOMAIN stdout : stdout'[n] = stdout[n]
    BY <1>0, <1>5
  <2>2. e.line = j
    BY <1>5 DEF Fits
  <2>3. CASE i = j
    <3>1. RepliesTo(i) = {}
      BY <1>5, <2>3 DEF AnsweredOnce
    <3>2. \A n \in DOMAIN stdout : stdout[n].line # i
      BY <3>1 DEF RepliesTo
    <3>3. RepliesTo(i)' = {Len(stdout) + 1}
      BY <1>0, <2>1, <2>2, <2>3, <3>2 DEF RepliesTo
    <3>4. Cardinality(RepliesTo(i)') = 1
      BY <3>3, FS_Singleton
    <3>5. \/ e.id = stdin[i].id
          \/ e.id = "null" /\ (~stdin[i].json \/ stdin[i].method = "malformed")
      BY <1>5, <2>3 DEF Fits
    <3>6. \A n \in RepliesTo(i)' : stdout'[n] = e
      BY <2>1, <3>3
    <3>7. i \in handled' /\ stdin' = stdin /\ ~(stdin[i].json /\ ~expectsReply(stdin[i]))
      BY <1>5, <2>3
    <3> QED
      BY <3>4, <3>5, <3>6, <3>7 DEF AnsweredOnce
  <2>4. CASE i # j
    <3>1. RepliesTo(i)' = RepliesTo(i)
      BY <1>0, <2>1, <2>2, <2>4 DEF RepliesTo
    <3>2. \A n \in RepliesTo(i) : stdout'[n] = stdout[n]
      BY <2>1 DEF RepliesTo
    <3> QED
      BY <1>2, <1>5, <2>4, <3>1, <3>2
  <2> QED
    BY <2>3, <2>4
<1> QED
  BY <1>3, <1>4, <1>5, WriteCases

\* The promise of handleLine (cmd/sa-mcp-shim/main.go:143-146), for any
\* interleaving of deadlines, restarts and late answers: a message with an id
\* is answered exactly once, under its own id, and one without never.
THEOREM EveryLineAnsweredOnce == Spec => []OneReply
<1> DEFINE Inv == \A i \in Line : AnsweredOnce(i)
<1>1. Init => Inv
  BY DEF Init, AnsweredOnce, RepliesTo
<1>2. ASSUME RelayInv, Inv, [Next]_vars
      PROVE  Inv'
  BY <1>2, AnsweredOnceStep
<1>3. Inv => OneReply
  BY DEF AnsweredOnce, OneReply
<1> HIDE DEF Inv
<1> QED
  BY <1>1, <1>2, <1>3, RelayInvariant, PTL DEF Spec
=============================================================================
