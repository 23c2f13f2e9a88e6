------------------------------ MODULE MCRelay ------------------------------
(***************************************************************************)
(* Small instances of McpRelay for TLC.                                    *)
(***************************************************************************)
EXTENDS McpRelay, TLC

Call(name, args) ==
    [json |-> TRUE, id |-> "7", size |-> "small", method |-> "tools/call", name |-> name, args |-> args]
Ask(method, name) == [Call(name, "good") EXCEPT !.method = method]

\* One message of every kind that the two ends tell apart.
Kinds ==
    {Call("propose_script", a) : a \in {"missing", "bad", "good"}}
    \cup {Call("get_smart_trend", "bad"), Call("get_host_info", "good"), Call("no_such_tool", "good")}
    \cup {Ask("ping", "none"), Ask("resources/read", "unraid://array"), Ask("resources/read", "none"),
          Ask("none", "none"), Ask("malformed", "none")}
    \cup {[Call("propose_script", "good") EXCEPT !.id = x] : x \in {"absent", "null"}}
    \cup {[Call("propose_script", "good") EXCEPT !.size = x] : x \in {"big", "endless"}}
    \cup {[Call("propose_script", "good") EXCEPT !.json = FALSE]}
=============================================================================
