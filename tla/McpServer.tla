----------------------------- MODULE McpServer -----------------------------
(***************************************************************************)
(* How the MCP endpoint of internal/mcp answers one request: the checks of *)
(* serveHTTP and handlePost, dispatch, and the handlers of its tools and   *)
(* resources.  The endpoint keeps no session, so this is a function from a *)
(* message to what may happen.                                             *)
(*                                                                         *)
(* A message is what the code tells apart:                                 *)
(*   json    FALSE for a line that is no JSON object                       *)
(*   id      "absent", "null" or a value                                   *)
(*   size    "small", "big" (over maxRequestBytes) or "endless" (over the  *)
(*           shim's scanner buffer)                                        *)
(*   method  "malformed" (not a string), "none", or a method's name        *)
(*   name    the tool or resource asked for: "none" or its name            *)
(*   args    the tool's arguments: "unparsable", "missing", "bad" (refused *)
(*           by the handler) or "good"                                     *)
(* A response is [http, id, body] with body "empty", "result", "toolError" *)
(* or "protocolError".                                                     *)
(***************************************************************************)
EXTENDS Naturals, FiniteSets

ReadTools == {"get_host_info", "get_reachability", "get_array_state", "get_disk_smart",
              "list_shares", "list_containers", "list_trend_series", "get_proposal", "check_script"}
Tools == ReadTools \cup {"get_smart_trend", "propose_script"}
Resources == {"unraid://host", "unraid://array", "unraid://shares", "unraid://containers"}

Answer(http, id, body) == [http |-> http, id |-> id, body |-> body]

\* writeError: an id that could not be read is answered as null.
writeError(id) == Answer(200, IF id = "absent" THEN "null" ELSE id, "protocolError")
writeUnauthorized == Answer(401, "null", "protocolError")

\* The shared secret of the configuration, or none; without one nothing is asked
\* of the caller.
Tokens == {"none", "secret", "other"}
checkAuth(authToken, provided) == authToken = "none" \/ provided = authToken

isNotification(m) == m.id \in {"absent", "null"}

\* The tool that a message reaches, {} if it is refused on the way.
ToolOf(m) == IF m.name \in Tools /\ m.args \notin {"unparsable", "missing"} THEN {m.name} ELSE {}

\* A source that fails is the tool's failure: in-band, so that the model can
\* correct itself.
handleSourceErr == "toolError"
readTool == {"result", handleSourceErr}

\* A window that makes no sense never was a call to run.
get_smart_trend(m) == IF m.args = "bad" THEN {"protocolError"} ELSE {"result", "toolError"}

\* A blank script is refused before anything is stored.  After the proposal
\* was stored an error of the dry run is still the tool's failure.
propose_script(m) == IF m.args = "bad" THEN {"toolError"} ELSE {"result", "toolError"}
Stores(m) == m.method = "tools/call" /\ ToolOf(m) = {"propose_script"} /\ m.args # "bad"

handleToolsCall(m) ==
    CASE ToolOf(m) = {} -> {"protocolError"}
      [] ToolOf(m) = {"propose_script"} -> propose_script(m)
      [] ToolOf(m) = {"get_smart_trend"} -> get_smart_trend(m)
      [] OTHER -> readTool

handleResourcesRead(m) == IF m.name \in Resources THEN {"result", "protocolError"} ELSE {"protocolError"}

dispatch(m) ==
    CASE m.method = "tools/call" -> handleToolsCall(m)
      [] m.method = "resources/read" -> handleResourcesRead(m)
      [] m.method \in {"initialize", "ping", "tools/list", "resources/list"} -> {"result"}
      [] OTHER -> {"protocolError"}

\* Mutation: the token is not checked.
refusalsOfAll(m, authorised) ==
    IF m.size # "small" THEN {Answer(413, "null", "empty")}
    ELSE IF m.method = "malformed" THEN {writeError("absent")}
    ELSE IF m.method = "none" THEN {writeError(m.id)}
    ELSE IF isNotification(m) THEN {Answer(202, "null", "empty")}
    ELSE {}

\* What is answered without dispatching, in the order of the checks.
refusals(m, authorised) ==
    IF ~authorised THEN {writeUnauthorized}
    ELSE IF m.size # "small" THEN {Answer(413, "null", "empty")}
    ELSE IF m.method = "malformed" THEN {writeError("absent")}
    ELSE IF m.method = "none" THEN {writeError(m.id)}
    ELSE IF isNotification(m) THEN {Answer(202, "null", "empty")}
    ELSE {}
=============================================================================
