----------------------------- MODULE Dashboard -----------------------------
(***************************************************************************)
(* The live dashboard: the views that the poll loops of                    *)
(* internal/monitor/monitor.go write, the hub (hub.go) that fans them out  *)
(* to the open tabs, and the event stream of internal/web/web.go that      *)
(* paints a tab and keeps it current.                                      *)
(*                                                                         *)
(* What matters is the order in which a loop writes Monitor.views and      *)
(* pushes to the hub, because the two are separate critical sections: here *)
(* the committed Status a Probe leads to is any of Statuses, and the Store *)
(* writes and Alerts between them are left to Monitor.  A view is its      *)
(* Status; the latency, time and sparkline in the row are left out.        *)
(***************************************************************************)
EXTENDS Naturals, Sequences, SequencesExt

CONSTANTS
    Services,  \* the configured Services
    Host,      \* the Host's own row
    Statuses,  \* the committed Statuses the Service loops may show
    Tabs,      \* browser tabs
    Buffer     \* capacity of a subscriber's channel, 16 in the code

ASSUME ServicesAssumption == IsFiniteSet(Services)
ASSUME HostAssumption == Host \notin Services
ASSUME BufferAssumption == Buffer \in Nat \ {0}

Subjects == Services \cup {Host}

VARIABLES
    gate,      \* Monitor.gate
    view,      \* Monitor.views
    at,        \* where each poll loop is
    hand,      \* the view it is about to write or to push: [name, status]
    blinding,  \* Services the Host loop has still to show as UNKNOWN
    tab,       \* a tab: "gone", "loaded", "subscribed" or "live"
    queue,     \* the channel hub.subscribe made for it
    shown,     \* the Status each of its rows shows
    missed     \* history: rows whose last push was dropped or out of date

loops == <<gate, view, at, hand, blinding>>
tabs == <<tab, queue, shown, missed>>
vars == <<loops, tabs>>

Row(n, v) == [name |-> n, status |-> v]

Init ==
    /\ gate = TRUE
    /\ view = [x \in Subjects |-> "UNKNOWN"]
    /\ at = [x \in Subjects |-> "idle"]
    /\ hand = [x \in Subjects |-> Row(x, "UNKNOWN")]
    /\ blinding = <<>>
    /\ tab = [t \in Tabs |-> "gone"]
    /\ queue = [t \in Tabs |-> <<>>]
    /\ shown = [t \in Tabs |-> view]
    /\ missed = [t \in Tabs |-> {}]
-----------------------------------------------------------------------------
(***************************************************************************)
(* The hub.                                                                *)
(***************************************************************************)
Subscribed(t) == tab[t] \in {"subscribed", "live"}
HasRoom(t) == Len(queue[t]) < Buffer

\* A channel with no room is skipped.
broadcast(v) ==
    LET sent(t) == Subscribed(t) /\ HasRoom(t) IN
    /\ queue' = [t \in Tabs |-> IF sent(t) THEN Append(queue[t], v) ELSE queue[t]]
    /\ missed' = [t \in Tabs |->
                     IF sent(t) /\ v.status = view[v.name]
                     THEN missed[t] \ {v.name}
                     ELSE missed[t] \cup {v.name}]
    /\ UNCHANGED <<tab, shown>>

setView(v) == view' = [view EXCEPT ![v.name] = v.status]

Step(x, from, to) == at[x] = from /\ at' = [at EXCEPT ![x] = to]
Hold(x, v) == hand' = [hand EXCEPT ![x] = v]
-----------------------------------------------------------------------------
(***************************************************************************)
(* A Service loop: probeOnce.                                              *)
(***************************************************************************)

\* The gate is open: Probe and observe, which leaves a committed Status.
Poll(s) ==
    /\ gate
    /\ Step(s, "idle", "set")
    /\ \E c \in Statuses : Hold(s, Row(s, c))
    /\ UNCHANGED <<gate, view, blinding, tabs>>

\* The gate is closed: nothing is pushed for a row that is UNKNOWN already.
PollBlind(s) ==
    /\ ~gate
    /\ view[s] # "UNKNOWN"
    /\ Step(s, "idle", "set")
    /\ Hold(s, Row(s, "UNKNOWN"))
    /\ UNCHANGED <<gate, view, blinding, tabs>>

\* Either way the view is written first; a commit is stored and alerted
\* before it is pushed.
ServiceSets(s) ==
    /\ Step(s, "set", "push")
    /\ setView(hand[s])
    /\ UNCHANGED <<gate, hand, blinding, tabs>>

\* Mutation: a Service is not pushed again once a tab was too slow for it.
PushUnlessSlow(s) ==
    /\ Step(s, "push", "idle")
    /\ IF \E t \in Tabs : s \in missed[t]
       THEN UNCHANGED tabs
       ELSE broadcast(hand[s])
    /\ UNCHANGED <<gate, view, hand, blinding>>

ServicePushes(s) ==
    /\ Step(s, "push", "idle")
    /\ broadcast(hand[s])
    /\ UNCHANGED <<gate, view, hand, blinding>>
-----------------------------------------------------------------------------
(***************************************************************************)
(* The Host loop: hostProbeOnce.                                           *)
(***************************************************************************)

\* The gate takes the latest Probe; closing it blinds every Service.
SwapGate(v) ==
    /\ Step(Host, "idle", "set")
    /\ gate' = (v # "DOWN")
    /\ blinding' = IF gate /\ ~gate' THEN SetToSeq(Services) ELSE <<>>
    /\ Hold(Host, Row(Host, v))
    /\ UNCHANGED <<view, tabs>>

HostSets ==
    /\ Step(Host, "set", "blind")
    /\ setView(hand[Host])
    /\ UNCHANGED <<gate, hand, blinding, tabs>>

BlindSets ==
    /\ blinding # <<>>
    /\ Step(Host, "blind", "blindPush")
    /\ setView(Row(Head(blinding), "UNKNOWN"))
    /\ UNCHANGED <<gate, hand, blinding, tabs>>

BlindPushes ==
    /\ Step(Host, "blindPush", "blind")
    /\ broadcast(Row(Head(blinding), "UNKNOWN"))
    /\ blinding' = Tail(blinding)
    /\ UNCHANGED <<gate, view, hand>>

\* Last, the Host's own row as this Probe found it.
HostPushes ==
    /\ blinding = <<>>
    /\ Step(Host, "blind", "idle")
    /\ broadcast(hand[Host])
    /\ UNCHANGED <<gate, view, hand, blinding>>
-----------------------------------------------------------------------------
(***************************************************************************)
(* A tab.                                                                  *)
(***************************************************************************)

\* The page itself is rendered from a Snapshot.
LoadPage(t) ==
    /\ tab[t] = "gone"
    /\ tab' = [tab EXCEPT ![t] = "loaded"]
    /\ shown' = [shown EXCEPT ![t] = view]
    /\ UNCHANGED <<loops, queue, missed>>

Subscribe(t) ==
    /\ tab[t] = "loaded"
    /\ tab' = [tab EXCEPT ![t] = "subscribed"]
    /\ missed' = [missed EXCEPT ![t] = {}]
    /\ UNCHANGED <<loops, queue, shown>>

\* Mutation: the stream relies on the page for its first paint.
NoPaint(t) ==
    /\ tab[t] = "subscribed"
    /\ tab' = [tab EXCEPT ![t] = "live"]
    /\ UNCHANGED <<loops, queue, shown, missed>>

\* The first paint of the stream: every view, read after subscribing.
Paint(t) ==
    /\ tab[t] = "subscribed"
    /\ tab' = [tab EXCEPT ![t] = "live"]
    /\ shown' = [shown EXCEPT ![t] = view]
    /\ UNCHANGED <<loops, queue, missed>>

writeEvent(t, v) == shown' = [shown EXCEPT ![t][v.name] = v.status]

Receive(t) ==
    /\ tab[t] = "live"
    /\ queue[t] # <<>>
    /\ writeEvent(t, Head(queue[t]))
    /\ queue' = [queue EXCEPT ![t] = Tail(@)]
    /\ UNCHANGED <<loops, tab, missed>>

\* Mutation: a subscription that ends leaves its channel behind.
CloseLeaksQueue(t) ==
    /\ Subscribed(t)
    /\ tab' = [tab EXCEPT ![t] = "gone"]
    /\ UNCHANGED <<loops, queue, shown, missed>>

\* The request ends: the subscription is cancelled with what it holds.
Close(t) ==
    /\ Subscribed(t)
    /\ tab' = [tab EXCEPT ![t] = "gone"]
    /\ queue' = [queue EXCEPT ![t] = <<>>]
    /\ UNCHANGED <<loops, shown, missed>>

ServiceLoop(s) == Poll(s) \/ PollBlind(s) \/ ServiceSets(s) \/ ServicePushes(s)

HostLoop ==
    \/ \E v \in {"UP", "DOWN"} : SwapGate(v)
    \/ HostSets \/ BlindSets \/ BlindPushes \/ HostPushes

Stream(t) == Paint(t) \/ Receive(t)

Next ==
    \/ \E s \in Services : ServiceLoop(s)
    \/ HostLoop
    \/ \E t \in Tabs : LoadPage(t) \/ Subscribe(t) \/ Stream(t) \/ Close(t)

\* The loops poll on their tickers for as long as the daemon runs, and the
\* stream writes what it receives; nobody has to open or close a tab.
Fairness ==
    /\ \A s \in Services : WF_vars(ServiceLoop(s))
    /\ WF_vars(HostLoop)
    /\ \A t \in Tabs : WF_vars(Stream(t))

Spec == Init /\ [][Next]_vars /\ Fairness
-----------------------------------------------------------------------------
(***************************************************************************)
(* Properties.                                                             *)
(***************************************************************************)

\* The view of x is written and its push is still to come.
InFlight(x) ==
    \/ at[x] = "push"
    \/ x = Host /\ at[Host] \in {"blind", "blindPush"}
    \/ at[Host] = "blindPush" /\ x = Head(blinding)

\* A live tab (web.go:91-92: "so a freshly opened tab is current") agrees
\* with Monitor.views row by row once its queue is drained and no push is on
\* its way, unless its last push was dropped by a full channel or overtaken
\* by another loop's write.
TabIsCurrent ==
    \A t \in Tabs, x \in Subjects :
        (tab[t] = "live" /\ queue[t] = <<>> /\ ~InFlight(x) /\ x \notin missed[t])
            => shown[t][x] = view[x]

\* Types, and whose view each loop holds: a Service loop writes and pushes its
\* own row, the Host loop its own and those it blinds.
Shown == Statuses \cup {"UNKNOWN", "UP", "DOWN"}
Rows == [name : Subjects, status : Shown]
TypeOK ==
    /\ gate \in BOOLEAN /\ view \in [Subjects -> Shown]
    /\ at \in [Subjects -> {"idle", "set", "push", "blind", "blindPush"}]
    /\ hand \in [Subjects -> Rows] /\ blinding \in Seq(Services)
    /\ \A x \in Subjects : hand[x].name = x
    /\ at[Host] # "push" /\ \A s \in Services : at[s] \in {"idle", "set", "push"}
    /\ at[Host] = "blindPush" => blinding # <<>>
    /\ tab \in [Tabs -> {"gone", "loaded", "subscribed", "live"}]
    /\ queue \in [Tabs -> Seq(Rows)] /\ shown \in [Tabs -> [Subjects -> Shown]]
    /\ missed \in [Tabs -> SUBSET Subjects]

\* No later event of x is in the channel q behind the n-th.
IsLast(q, n, x) == q[n].name = x /\ \A m \in DOMAIN q : m > n => q[m].name # x

\* What reaches the row of x in tab t last is the view of x: the last event of
\* x that waits in the channel or, with none, what the row shows.
Converges(t, x) ==
    /\ \A n \in DOMAIN queue[t] : IsLast(queue[t], n, x) => queue[t][n].status = view[x]
    /\ tab[t] = "live" /\ (\A n \in DOMAIN queue[t] : queue[t][n].name # x) =>
          shown[t][x] = view[x]

\* The inductive invariant behind TabIsCurrent: a tab without a subscription
\* has an empty channel, and any other converges row by row unless a push is
\* still to come or was missed (hub.go, web.go:79-110).
TabInv ==
    /\ TypeOK
    /\ \A t \in Tabs : ~Subscribed(t) => queue[t] = <<>>
    /\ \A t \in Tabs, x \in Subjects :
          Subscribed(t) /\ ~InFlight(x) /\ x \notin missed[t] => Converges(t, x)

\* hub.go drops views for a slow tab and loops overtake each other, yet a
\* tab that stays open while the Host stays reachable ends on the Status
\* that the Service settles on, provided that some of the polls find room in
\* its channel: every poll pushes, not only changes (monitor.go:452-453).
TabCatchesUp ==
    \A t \in Tabs, s \in Services, v \in Statuses :
        (/\ <>[](tab[t] = "live" /\ gate /\ view[s] = v)
         /\ []<><<HasRoom(t) /\ ServicePushes(s)>>_vars)
            => <>[](shown[t][s] = v)
=============================================================================
