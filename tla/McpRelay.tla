----------------------------- MODULE McpRelay ------------------------------
(***************************************************************************)
(* The stdio shim of cmd/sa-mcp-shim/main.go between a local client and    *)
(* the MCP endpoint: a scanner goroutine that reads lines, a loop that     *)
(* relays one line at a time over HTTP with a deadline, and the server,    *)
(* which may be slow, restart, or go on with a request the shim gave up    *)
(* on.  Lines are identified by their position.  net/http sends a POST     *)
(* again only if nothing of it was written, so a request arrives once.     *)
(***************************************************************************)
EXTENDS McpServer, Sequences

CONSTANTS
    Messages,   \* the lines the client may write
    MaxLines,   \* bound on their number
    MaxCrashes  \* bound on the server's restarts

ASSUME RelayAssumption == MaxLines \in Nat /\ MaxCrashes \in Nat

VARIABLES
    stdin,       \* the lines written so far
    open,        \* stdin has not been closed
    scanned,     \* lines the scanner has read
    hold,        \* the line it offers on its channel, 0 for none
    scanning,    \* its goroutine runs
    at,          \* the relay loop: "wait", "post" or "exited"
    current,     \* the line it is relaying
    stopping,    \* a signal cancelled the context
    stdout,      \* replies: [line, id, body]; body "shimError" is the shim's own
    handled,     \* lines the loop is done with
    authorised,  \* checkAuth of the shim's token, which is fixed on both sides
    up,          \* the server runs
    request,     \* per line, at the server: "none", "sent", "running", "ran", "gone", "answered"
    response,    \* per line: the answer on its way back, a set of at most one
    proposals,   \* history: proposals stored for each line
    crashes      \* restarts so far

shim == <<scanned, hold, scanning, at, current, stopping, stdout, handled>>
client == <<stdin, open>>
server == <<authorised, up, request, response, proposals, crashes>>
vars == <<client, shim, server>>

Line == 1..MaxLines

Init ==
    /\ stdin = <<>> /\ open = TRUE
    /\ scanned = 0 /\ hold = 0 /\ scanning = TRUE
    /\ at = "wait" /\ current = 0 /\ stopping = FALSE
    /\ stdout = <<>> /\ handled = {}
    /\ \E authToken, provided \in Tokens : authorised = checkAuth(authToken, provided)
    /\ up = TRUE
    /\ request = [i \in Line |-> "none"]
    /\ response = [i \in Line |-> {}]
    /\ proposals = [i \in Line |-> 0]
    /\ crashes = 0
-----------------------------------------------------------------------------
(***************************************************************************)
(* The client.                                                             *)
(***************************************************************************)
Write(m) ==
    /\ open
    /\ Len(stdin) < MaxLines
    /\ stdin' = Append(stdin, m)
    /\ UNCHANGED <<open, shim, server>>

CloseStdin ==
    /\ open
    /\ open' = FALSE
    /\ UNCHANGED <<stdin, shim, server>>
-----------------------------------------------------------------------------
(***************************************************************************)
(* The scanner.                                                            *)
(***************************************************************************)

\* A line over the buffer's cap ends the scan.
Scan ==
    /\ scanning /\ hold = 0
    /\ scanned < Len(stdin)
    /\ scanned' = scanned + 1
    /\ IF stdin[scanned + 1].size = "endless"
       THEN scanning' = FALSE /\ UNCHANGED hold
       ELSE hold' = scanned + 1 /\ UNCHANGED scanning
    /\ UNCHANGED <<client, at, current, stopping, stdout, handled, server>>

ScanEnds ==
    /\ scanning
    /\ \/ stopping /\ hold # 0
       \/ hold = 0 /\ ~open /\ scanned = Len(stdin)
    /\ scanning' = FALSE
    /\ hold' = 0
    /\ UNCHANGED <<client, scanned, at, current, stopping, stdout, handled, server>>
-----------------------------------------------------------------------------
(***************************************************************************)
(* The relay loop: run and handleLine.                                     *)
(***************************************************************************)
expectsReply(m) == m.id # "absent"

Reply(i, id, body) == stdout' = Append(stdout, [line |-> i, id |-> id, body |-> body])

\* writeError for a line that waits for an answer, nothing for another.
ReplyError(i) ==
    IF expectsReply(stdin[i]) THEN Reply(i, stdin[i].id, "shimError") ELSE UNCHANGED stdout

Done(i) ==
    /\ at' = "wait"
    /\ current' = 0
    /\ handled' = handled \cup {i}

\* Not JSON: answered at once, with a null id.  Anything else is posted.
Take ==
    /\ at = "wait"
    /\ hold # 0
    /\ hold' = 0
    /\ IF stdin[hold].json
       THEN /\ at' = "post" /\ current' = hold
            /\ request' = [request EXCEPT ![hold] = "sent"]
            /\ UNCHANGED <<stdout, handled>>
       ELSE /\ Done(hold)
            /\ Reply(hold, "null", "shimError")
            /\ UNCHANGED request
    /\ UNCHANGED <<client, scanned, scanning, stopping, authorised, up, response, proposals, crashes>>

\* Mutation: the shim answers every message that it relays.
relayAll(i, r) == Reply(i, r.id, r.body)

\* What the shim makes of a response.
relay(i, r) ==
    CASE ~expectsReply(stdin[i]) -> UNCHANGED stdout
      [] expectsReply(stdin[i]) /\ (r.http >= 300 \/ r.body = "empty") -> ReplyError(i)
      [] OTHER -> Reply(i, r.id, r.body)

Receive ==
    /\ at = "post"
    /\ \E r \in response[current] : relay(current, r)
    /\ Done(current)
    /\ UNCHANGED <<client, scanned, hold, scanning, stopping, server>>

\* The connection is refused or breaks, or the signal cancels the request.
Fail ==
    /\ at = "post"
    /\ ~up \/ request[current] = "gone" \/ stopping
    /\ ReplyError(current)
    /\ Done(current)
    /\ UNCHANGED <<client, scanned, hold, scanning, stopping, server>>

\* Mutation: the request has no deadline.
NoTimeout == FALSE /\ UNCHANGED vars

\* The deadline passes; the server is not asked, it only loses its reader.
Timeout ==
    /\ at = "post"
    /\ ReplyError(current)
    /\ Done(current)
    /\ UNCHANGED <<client, scanned, hold, scanning, stopping, server>>

Signal ==
    /\ ~stopping /\ at # "exited"
    /\ stopping' = TRUE
    /\ UNCHANGED <<client, scanned, hold, scanning, at, current, stdout, handled, server>>

Exit ==
    /\ at = "wait"
    /\ stopping \/ (~scanning /\ hold = 0)
    /\ at' = "exited"
    /\ UNCHANGED <<client, scanned, hold, scanning, current, stopping, stdout, handled, server>>
-----------------------------------------------------------------------------
(***************************************************************************)
(* The server.                                                             *)
(***************************************************************************)
Respond(i, r) ==
    /\ request' = [request EXCEPT ![i] = "answered"]
    /\ response' = [response EXCEPT ![i] = {r}]

Refuse(i) ==
    /\ up
    /\ request[i] = "sent"
    /\ \E r \in refusals(stdin[i], authorised) : Respond(i, r)
    /\ UNCHANGED <<client, shim, authorised, up, proposals, crashes>>

Accept(i) ==
    /\ up
    /\ request[i] = "sent"
    /\ refusals(stdin[i], authorised) = {}
    /\ request' = [request EXCEPT ![i] = "running"]
    /\ UNCHANGED <<client, shim, authorised, up, response, proposals, crashes>>

\* The one durable effect a tool has.
Propose(i) ==
    /\ request[i] = "running"
    /\ Stores(stdin[i])
    /\ request' = [request EXCEPT ![i] = "ran"]
    /\ proposals' = [proposals EXCEPT ![i] = @ + 1]
    /\ UNCHANGED <<client, shim, authorised, up, response, crashes>>

\* A tool that stores a proposal succeeds only once it is stored.
Handle(i) ==
    /\ request[i] \in {"running", "ran"}
    /\ \E b \in dispatch(stdin[i]) :
          /\ (b = "result" /\ Stores(stdin[i])) => request[i] = "ran"
          /\ Respond(i, Answer(200, stdin[i].id, b))
    /\ UNCHANGED <<client, shim, authorised, up, proposals, crashes>>

Crash ==
    /\ up
    /\ crashes < MaxCrashes
    /\ up' = FALSE
    /\ crashes' = crashes + 1
    /\ request' = [i \in Line |-> IF request[i] \in {"none", "answered"} THEN request[i] ELSE "gone"]
    /\ UNCHANGED <<client, shim, authorised, response, proposals>>

Restart ==
    /\ ~up
    /\ up' = TRUE
    /\ UNCHANGED <<client, shim, authorised, request, response, proposals, crashes>>

Scanner == Scan \/ ScanEnds
Relay == Take \/ Receive \/ Fail \/ Timeout \/ Exit

Next ==
    \/ (\E m \in Messages : Write(m)) \/ CloseStdin
    \/ Scanner
    \/ Relay
    \/ Signal
    \/ \E i \in Line : Refuse(i) \/ Accept(i) \/ Propose(i) \/ Handle(i)
    \/ Crash \/ Restart

\* The shim's two goroutines run; the request has its own deadline.  Nothing
\* is assumed of the server: a tool may hang for ever.
Fairness == WF_vars(Scanner) /\ WF_vars(Relay)

Spec == Init /\ [][Next]_vars /\ Fairness
-----------------------------------------------------------------------------
(***************************************************************************)
(* Properties.                                                             *)
(***************************************************************************)
RepliesTo(i) == {n \in DOMAIN stdout : stdout[n].line = i}

\* What handleLine promises (main.go:143-146) of the two ends together: a
\* message with an id gets exactly one reply, under its own id unless its
\* envelope is broken; a message without one gets none, whatever the server
\* made of it; and nothing is answered before it is handled.
OneReply ==
    \A i \in Line :
        /\ i \notin handled => RepliesTo(i) = {}
        /\ i \in handled =>
              /\ Cardinality(RepliesTo(i)) = IF stdin[i].json /\ ~expectsReply(stdin[i]) THEN 0 ELSE 1
              /\ \A n \in RepliesTo(i) :
                    \/ stdout[n].id = stdin[i].id
                    \/ stdout[n].id = "null" /\ (~stdin[i].json \/ stdin[i].method = "malformed")

\* A reply is the truth about the proposal: a result means that exactly one
\* was stored, a protocol error that none was (jsonrpc.go: only "a malformed
\* call or an unknown tool name are protocol errors"), a line never stores
\* two, and a shim with the wrong token none at all.
ReplyIsTruthful ==
    /\ \A n \in DOMAIN stdout :
          /\ (stdout[n].body = "result" /\ Stores(stdin[stdout[n].line])) => proposals[stdout[n].line] = 1
          /\ stdout[n].body = "protocolError" => proposals[stdout[n].line] = 0
    /\ \A i \in Line : proposals[i] <= (IF authorised THEN 1 ELSE 0)

(***************************************************************************)
(* The inductive invariant behind them.                                    *)
(***************************************************************************)
Ids == {m.id : m \in Messages} \cup {"null"}
Outcomes == {"empty", "result", "toolError", "protocolError"}
Replies == [line : Line, id : Ids, body : Outcomes \cup {"shimError"}]
Responses == [http : Nat, id : Ids, body : Outcomes]

\* Type correctness of the pipes, the shim and the server.
TypeOK ==
    /\ stdin \in Seq(Messages) /\ Len(stdin) <= MaxLines /\ open \in BOOLEAN
    /\ scanned \in 0..Len(stdin) /\ hold \in 0..scanned /\ current \in 0..scanned
    /\ scanning \in BOOLEAN /\ stopping \in BOOLEAN
    /\ at \in {"wait", "post", "exited"}
    /\ stdout \in Seq(Replies) /\ handled \subseteq 1..scanned
    /\ authorised \in BOOLEAN /\ up \in BOOLEAN
    /\ request \in [Line -> {"none", "sent", "running", "ran", "gone", "answered"}]
    /\ response \in [Line -> SUBSET Responses]
    /\ proposals \in [Line -> Nat] /\ crashes \in Nat

\* A line is with the scanner, in the relay loop or handled, never two of them,
\* and only JSON is posted.
QueueInv ==
    /\ hold \notin handled
    /\ at = "post" =>
          current # 0 /\ current \notin handled /\ current # hold /\ stdin[current].json

\* How far the server got with a line, and what it stored for it.
ServerOK(i) ==
    /\ request[i] # "none" => i \in handled \/ (at = "post" /\ i = current)
    /\ response[i] # {} => request[i] = "answered"
    /\ request[i] \in {"running", "ran"} => authorised
    /\ request[i] \in {"none", "sent", "running"} => proposals[i] = 0
    /\ request[i] = "ran" => proposals[i] = 1
    /\ proposals[i] # 0 => proposals[i] = 1 /\ authorised /\ Stores(stdin[i])

\* What an answer says of the proposal of its line.
Truthful(i, body) ==
    /\ body = "result" /\ Stores(stdin[i]) => proposals[i] = 1
    /\ body = "protocolError" => proposals[i] = 0

\* A response says the truth, and carries the id of its line unless the shim
\* answers in its place or the envelope is broken.
ResponseOK(i, r) ==
    /\ Truthful(i, r.body)
    /\ \/ r.id = stdin[i].id \/ r.http >= 300 \/ r.body = "empty" \/ stdin[i].id = "absent"
       \/ r.id = "null" /\ stdin[i].method = "malformed"

\* A reply belongs to a line that was handled; the server's own are final.
StdoutOK(n) ==
    /\ stdout[n].line \in handled
    /\ stdout[n].body \in Outcomes =>
          request[stdout[n].line] = "answered" /\ Truthful(stdout[n].line, stdout[n].body)

\* Where every line stands, on both ends, at every step (main.go, run and
\* handleLine; server.go).
RelayInv ==
    /\ TypeOK /\ QueueInv
    /\ \A i \in Line : ServerOK(i) /\ \A r \in response[i] : ResponseOK(i, r)
    /\ \A n \in DOMAIN stdout : StdoutOK(n)

\* A hung server does not hang the client: every line that is read is
\* handled, unless the shim is told to stop or the line is too long for it.
EveryLineHandled ==
    \A i \in Line :
        (scanned >= i /\ stdin[i].size # "endless") ~> (i \in handled \/ stopping)
=============================================================================
