-------------------------- MODULE DashboardProofs --------------------------
(***************************************************************************)
(* Proofs about Dashboard for any Services, any number of tabs and any     *)
(* capacity of their channels.  A step of a loop holds a view, writes one  *)
(* or pushes one; a step of a tab touches that tab alone.                  *)
(***************************************************************************)
EXTENDS Dashboard, FiniteSetTheorems, TLAPS

\* The order in which the Host loop blinds the Services is a sequence of them.
LEMMA BlindingOrder == SetToSeq(Services) \in Seq(Services)
<1> DEFINE n == Cardinality(Services)
<1>1. n \in Nat /\ ExistsBijection(1..n, Services)
  BY ServicesAssumption, FS_CardinalityType
<1>2. \E f \in [1..n -> Services] : IsInjective(f)
  BY <1>1 DEF ExistsBijection, Bijection, Injection
<1>3. SetToSeq(Services) \in [1..n -> Services]
  BY <1>2 DEF SetToSeq
<1> HIDE DEF n
<1> QED
  BY <1>1, <1>3

\* The last event of x in a channel, after an event is appended ...
LEMMA LastOfAppend ==
    ASSUME NEW q \in Seq(Rows), NEW v \in Rows, NEW x, NEW n \in DOMAIN Append(q, v),
           IsLast(Append(q, v), n, x)
    PROVE  IF v.name = x THEN Append(q, v)[n] = v
           ELSE n \in DOMAIN q /\ Append(q, v)[n] = q[n] /\ IsLast(q, n, x)
<1>1. /\ DOMAIN q = 1..Len(q) /\ Len(q) \in Nat /\ DOMAIN Append(q, v) = 1..Len(q) + 1
      /\ Append(q, v)[Len(q) + 1] = v /\ \A m \in 1..Len(q) : Append(q, v)[m] = q[m]
  OBVIOUS
<1>2. CASE v.name = x
  BY <1>1, <1>2 DEF IsLast
<1>3. CASE v.name # x
  BY <1>1, <1>3 DEF IsLast
<1> QED
  BY <1>2, <1>3

\* ... and after the first one is taken out.
LEMMA LastOfTail ==
    ASSUME NEW q \in Seq(Rows), q # <<>>, NEW x, NEW n \in DOMAIN Tail(q), IsLast(Tail(q), n, x)
    PROVE  n + 1 \in DOMAIN q /\ Tail(q)[n] = q[n + 1] /\ IsLast(q, n + 1, x)
<1>1. /\ DOMAIN q = 1..Len(q) /\ Len(q) \in Nat \ {0} /\ DOMAIN Tail(q) = 1..Len(q) - 1
      /\ \A m \in 1..Len(q) - 1 : Tail(q)[m] = q[m + 1]
  OBVIOUS
<1>2. n + 1 \in DOMAIN q /\ Tail(q)[n] = q[n + 1] /\ q[n + 1].name = x
  BY <1>1 DEF IsLast
<1>3. ASSUME NEW m \in DOMAIN q, m > n + 1
      PROVE  q[m].name # x
  <2>1. m - 1 \in 1..Len(q) - 1 /\ m - 1 > n /\ Tail(q)[m - 1] = q[m]
    BY <1>1, <1>3
  <2> QED
    BY <1>1, <2>1 DEF IsLast
<1> QED
  BY <1>2, <1>3 DEF IsLast

(***************************************************************************)
(* The steps by what they do.                                              *)
(***************************************************************************)
LoopStep == (\E s \in Services : ServiceLoop(s)) \/ HostLoop
TabStep(t) == LoadPage(t) \/ Subscribe(t) \/ Paint(t) \/ Receive(t) \/ Close(t)

\* A loop turns to a new view and nobody sees it yet.
Holds ==
    /\ UNCHANGED <<view, tabs>>
    /\ \A x \in Subjects : InFlight(x)' <=> InFlight(x)

\* A loop writes the view of x: its push is now due.
Sets(x) ==
    /\ \A y \in Subjects : y # x => view'[y] = view[y] /\ (InFlight(y)' <=> InFlight(y))
    /\ InFlight(x)'
    /\ UNCHANGED tabs

\* A loop pushes v.
Pushes(v) ==
    /\ v \in Rows
    /\ broadcast(v)
    /\ UNCHANGED view
    /\ \A y \in Subjects : y # v.name => (InFlight(y)' <=> InFlight(y))

LEMMA NextCases ==
    ASSUME [Next]_vars
    PROVE  LoopStep \/ (\E t \in Tabs : TabStep(t)) \/ UNCHANGED vars
  BY Zenon DEF Next, LoopStep, TabStep, Stream

\* Every step of a loop is one of the three.
LEMMA LoopCases ==
    ASSUME TypeOK, LoopStep
    PROVE  Holds \/ (\E x \in Subjects : Sets(x)) \/ (\E v : Pushes(v))
<1> USE HostAssumption DEF Subjects, InFlight, Step
<1>1. ASSUME NEW s \in Services, Poll(s) \/ PollBlind(s)
      PROVE  Holds
  BY <1>1 DEF Poll, PollBlind, Holds, TypeOK
<1>2. ASSUME NEW s \in Services, ServiceSets(s)
      PROVE  Sets(s)
  BY <1>2 DEF ServiceSets, setView, Sets, TypeOK
<1>3. ASSUME NEW s \in Services, ServicePushes(s)
      PROVE  Pushes(hand[s])
  BY <1>3 DEF ServicePushes, Pushes, TypeOK
<1>4. ASSUME NEW v \in {"UP", "DOWN"}, SwapGate(v)
      PROVE  Holds
  BY <1>4 DEF SwapGate, Holds, TypeOK
<1>5. ASSUME HostSets
      PROVE  Sets(Host)
  BY <1>5 DEF HostSets, setView, Sets, TypeOK
<1>6. blinding # <<>> => Head(blinding) \in Services
  BY DEF TypeOK
<1>7. ASSUME BlindSets
      PROVE  Sets(Head(blinding))
  BY <1>6, <1>7 DEF BlindSets, setView, Row, Sets, TypeOK
<1>8. ASSUME BlindPushes
      PROVE  Pushes(Row(Head(blinding), "UNKNOWN"))
  BY <1>6, <1>8 DEF BlindPushes, Row, Rows, Shown, Pushes, TypeOK
<1>9. ASSUME HostPushes
      PROVE  Pushes(hand[Host])
  BY <1>9 DEF HostPushes, Pushes, TypeOK
<1>10. /\ BlindSets => Head(blinding) \in Subjects
       /\ Host \in Subjects /\ \A s \in Services : s \in Subjects
  BY <1>6 DEF BlindSets
<1> HIDE DEF Subjects, InFlight, Step
<1>11. ASSUME NEW s \in Services, ServiceLoop(s)
       PROVE  Holds \/ (\E x \in Subjects : Sets(x)) \/ (\E v : Pushes(v))
  BY <1>1, <1>2, <1>3, <1>10, <1>11 DEF ServiceLoop
<1>12. CASE HostLoop
  BY <1>4, <1>5, <1>7, <1>8, <1>9, <1>10, <1>12 DEF HostLoop
<1> QED
  BY <1>11, <1>12 DEF LoopStep

(***************************************************************************)
(* The invariant.                                                          *)
(***************************************************************************)
LEMMA TypeStep ==
    ASSUME TypeOK, [Next]_vars
    PROVE  TypeOK'
<1> USE DEF loops, tabs
<1>0. Host \in Subjects /\ Services \subseteq Subjects /\ Subjects = Services \cup {Host}
  BY DEF Subjects
<1>1. ASSUME NEW v, Pushes(v)
      PROVE  /\ queue' \in [Tabs -> Seq(Rows)] /\ missed' \in [Tabs -> SUBSET Subjects]
             /\ UNCHANGED <<tab, shown>>
  <2>1. v \in Rows /\ v.name \in Subjects
    BY <1>1 DEF Pushes, Rows
  <2>2. \A t \in Tabs : Append(queue[t], v) \in Seq(Rows) /\ queue[t] \in Seq(Rows)
    BY <2>1 DEF TypeOK
  <2>3. queue' \in [Tabs -> Seq(Rows)]
    BY <1>1, <2>2 DEF Pushes, broadcast
  <2>4. missed' \in [Tabs -> SUBSET Subjects]
    BY <1>1, <2>1 DEF Pushes, broadcast, TypeOK
  <2> QED
    BY <1>1, <2>3, <2>4 DEF Pushes, broadcast
<1>2. ASSUME NEW s \in Services, Poll(s)
      PROVE  TypeOK'
  <2>1. PICK c \in Statuses : Hold(s, Row(s, c))
    BY <1>2 DEF Poll
  <2>2. Row(s, c) \in Rows /\ Row(s, c).name = s
    BY <1>0 DEF Row, Rows, Shown
  <2>3. hand' \in [Subjects -> Rows] /\ \A x \in Subjects : hand'[x].name = x
    BY <1>0, <2>1, <2>2 DEF Hold, TypeOK
  <2> QED
    BY <1>0, <1>2, <2>3, HostAssumption DEF Poll, Step, TypeOK
<1>3. ASSUME NEW s \in Services, PollBlind(s)
      PROVE  TypeOK'
  <2>2. Row(s, "UNKNOWN") \in Rows /\ Row(s, "UNKNOWN").name = s
    BY <1>0 DEF Row, Rows, Shown
  <2>3. hand' \in [Subjects -> Rows] /\ \A x \in Subjects : hand'[x].name = x
    BY <1>0, <1>3, <2>2 DEF PollBlind, Hold, TypeOK
  <2> QED
    BY <1>0, <1>3, <2>3, HostAssumption DEF PollBlind, Step, TypeOK
<1>4. ASSUME NEW s \in Services, ServiceSets(s)
      PROVE  TypeOK'
  <2>1. view' \in [Subjects -> Shown]
    BY <1>0, <1>4 DEF ServiceSets, setView, Rows, TypeOK
  <2> QED
    BY <1>0, <1>4, <2>1, HostAssumption DEF ServiceSets, Step, TypeOK
<1>5. ASSUME NEW s \in Services, ServicePushes(s)
      PROVE  TypeOK'
  <2>1. Pushes(hand[s])
    BY <1>0, <1>5, HostAssumption DEF ServicePushes, Pushes, Step, InFlight, TypeOK
  <2> QED
    BY <1>0, <1>1, <1>5, <2>1, HostAssumption DEF ServicePushes, Step, TypeOK
<1>6. ASSUME NEW v \in {"UP", "DOWN"}, SwapGate(v)
      PROVE  TypeOK'
  <2>1. Row(Host, v) \in Rows /\ Row(Host, v).name = Host
    BY <1>0 DEF Row, Rows, Shown
  <2>2. hand' \in [Subjects -> Rows] /\ \A x \in Subjects : hand'[x].name = x
    BY <1>0, <1>6, <2>1 DEF SwapGate, Hold, TypeOK
  <2>3. blinding' \in Seq(Services)
    BY <1>6, BlindingOrder DEF SwapGate
  <2>4. gate' \in BOOLEAN
    BY <1>6 DEF SwapGate
  <2> QED
    BY <1>0, <1>6, <2>2, <2>3, <2>4, HostAssumption DEF SwapGate, Step, TypeOK
<1>7. ASSUME HostSets
      PROVE  TypeOK'
  <2>1. view' \in [Subjects -> Shown]
    BY <1>0, <1>7 DEF HostSets, setView, Rows, TypeOK
  <2> QED
    BY <1>0, <1>7, <2>1, HostAssumption DEF HostSets, Step, TypeOK
<1>8. ASSUME BlindSets
      PROVE  TypeOK'
  <2>1. view' \in [Subjects -> Shown]
    BY <1>0, <1>8 DEF BlindSets, setView, Row, Shown, TypeOK
  <2> QED
    BY <1>0, <1>8, <2>1, HostAssumption DEF BlindSets, Step, TypeOK
<1>9. ASSUME BlindPushes
      PROVE  TypeOK'
  <2>1. blinding # <<>> /\ Head(blinding) \in Services /\ blinding' \in Seq(Services)
    BY <1>9 DEF BlindPushes, Step, TypeOK
  <2>2. Row(Head(blinding), "UNKNOWN") \in Rows
    BY <1>0, <2>1 DEF Row, Rows, Shown
  <2>3. Pushes(Row(Head(blinding), "UNKNOWN"))
    BY <1>0, <1>9, <2>1, <2>2, HostAssumption
       DEF BlindPushes, Pushes, Step, InFlight, Row, TypeOK
  <2> QED
    BY <1>0, <1>1, <1>9, <2>1, <2>3, HostAssumption DEF BlindPushes, Step, TypeOK
<1>10. ASSUME HostPushes
       PROVE  TypeOK'
  <2>1. Pushes(hand[Host])
    BY <1>0, <1>10, HostAssumption DEF HostPushes, Pushes, Step, InFlight, TypeOK
  <2> QED
    BY <1>0, <1>1, <1>10, <2>1, HostAssumption DEF HostPushes, Step, TypeOK
<1>11. ASSUME NEW t \in Tabs, LoadPage(t) \/ Paint(t)
       PROVE  TypeOK'
  BY <1>11 DEF LoadPage, Paint, TypeOK
<1>12. ASSUME NEW t \in Tabs, Subscribe(t)
       PROVE  TypeOK'
  BY <1>12 DEF Subscribe, TypeOK
<1>13. ASSUME NEW t \in Tabs, Receive(t)
       PROVE  TypeOK'
  <2>1. Head(queue[t]) \in Rows /\ Tail(queue[t]) \in Seq(Rows)
    BY <1>13 DEF Receive, TypeOK
  <2>2. shown' \in [Tabs -> [Subjects -> Shown]]
    BY <1>13, <2>1 DEF Receive, writeEvent, Rows, TypeOK
  <2>3. queue' \in [Tabs -> Seq(Rows)]
    BY <1>13, <2>1 DEF Receive, TypeOK
  <2> QED
    BY <1>13, <2>2, <2>3 DEF Receive, TypeOK
<1>14. ASSUME NEW t \in Tabs, Close(t)
       PROVE  TypeOK'
  BY <1>14 DEF Close, TypeOK
<1>15. CASE UNCHANGED vars
  BY <1>15 DEF vars, TypeOK
<1>16. CASE LoopStep
  BY <1>2, <1>3, <1>4, <1>5, <1>6, <1>7, <1>8, <1>9, <1>10, <1>16
     DEF LoopStep, ServiceLoop, HostLoop
<1>17. ASSUME NEW t \in Tabs, TabStep(t)
       PROVE  TypeOK'
  BY <1>11, <1>12, <1>13, <1>14, <1>17 DEF TabStep
<1> QED
  BY <1>15, <1>16, <1>17, NextCases

\* A tab without a subscription keeps an empty channel.
LEMMA QueueStep ==
    ASSUME TabInv, [Next]_vars, NEW t \in Tabs
    PROVE  ~Subscribed(t)' => queue'[t] = <<>>
<1> USE DEF tabs
<1>0. TypeOK /\ (~Subscribed(t) => queue[t] = <<>>)
  BY DEF TabInv
<1>1. ASSUME NEW v, Pushes(v)
      PROVE  ~Subscribed(t)' => queue'[t] = <<>>
  BY <1>0, <1>1 DEF Pushes, broadcast, Subscribed
<1>2. CASE UNCHANGED tabs
  BY <1>0, <1>2 DEF Subscribed
<1>3. CASE LoopStep
  BY <1>0, <1>1, <1>2, <1>3, LoopCases DEF Holds, Sets
<1>4. ASSUME NEW u \in Tabs, TabStep(u)
      PROVE  ~Subscribed(t)' => queue'[t] = <<>>
  BY <1>0, <1>4 DEF TabStep, LoadPage, Subscribe, Paint, Receive, Close, Subscribed, TypeOK
<1>5. CASE UNCHANGED vars
  BY <1>2, <1>5 DEF vars
<1> QED
  BY <1>3, <1>4, <1>5, NextCases

\* Every step keeps the tabs on their way to the views.
LEMMA ConvergeStep ==
    ASSUME TabInv, [Next]_vars, NEW t \in Tabs, NEW x \in Subjects,
           Subscribed(t)', ~InFlight(x)', x \notin missed'[t]
    PROVE  Converges(t, x)'
<1> USE DEF tabs
<1>0. /\ TypeOK /\ queue[t] \in Seq(Rows) /\ (~Subscribed(t) => queue[t] = <<>>)
      /\ Subscribed(t) /\ ~InFlight(x) /\ x \notin missed[t] => Converges(t, x)
  BY DEF TabInv, TypeOK
<1>1. CASE Holds
  BY <1>0, <1>1 DEF Holds, Subscribed, Converges
<1>2. ASSUME NEW y \in Subjects, Sets(y)
      PROVE  Converges(t, x)'
  BY <1>0, <1>2 DEF Sets, Subscribed, Converges
<1>3. ASSUME NEW v, Pushes(v)
      PROVE  Converges(t, x)'
  <2>1. v \in Rows /\ view' = view /\ tab' = tab /\ shown' = shown /\ Subscribed(t)
    BY <1>3 DEF Pushes, broadcast, Subscribed
  <2>2. CASE v.name = x
    <3>1. queue'[t] = Append(queue[t], v) /\ v.status = view[x]
      BY <1>3, <2>2 DEF Pushes, broadcast, TypeOK
    <3>2. \A n \in DOMAIN queue'[t] : IsLast(queue'[t], n, x) => queue'[t][n] = v
      BY <1>0, <2>1, <2>2, <3>1, LastOfAppend
    <3>3. Len(queue[t]) + 1 \in DOMAIN queue'[t] /\ queue'[t][Len(queue[t]) + 1].name = x
      BY <1>0, <2>1, <2>2, <3>1
    <3> QED
      BY <2>1, <3>1, <3>2, <3>3 DEF Converges
  <2>3. CASE v.name # x
    <3>1. Converges(t, x)
      BY <1>0, <1>3, <2>1, <2>3 DEF Pushes, broadcast
    <3>2. CASE queue'[t] = queue[t]
      BY <2>1, <3>1, <3>2 DEF Converges
    <3>3. CASE queue'[t] = Append(queue[t], v)
      <4>1. \A n \in DOMAIN queue'[t] :
               IsLast(queue'[t], n, x) =>
                  n \in DOMAIN queue[t] /\ queue'[t][n] = queue[t][n] /\ IsLast(queue[t], n, x)
        BY <1>0, <2>1, <2>3, <3>3, LastOfAppend
      <4>2. \A n \in DOMAIN queue[t] : n \in DOMAIN queue'[t] /\ queue'[t][n] = queue[t][n]
        BY <1>0, <2>1, <3>3
      <4> QED
        BY <2>1, <3>1, <4>1, <4>2 DEF Converges
    <3> QED
      BY <1>3, <3>2, <3>3 DEF Pushes, broadcast
  <2> QED
    BY <2>2, <2>3
<1>4. CASE LoopStep
  BY <1>0, <1>1, <1>2, <1>3, <1>4, LoopCases
<1>5. ASSUME NEW u \in Tabs, TabStep(u)
      PROVE  UNCHANGED loops /\ (InFlight(x)' <=> InFlight(x)) /\ view' = view
  BY <1>5 DEF TabStep, LoadPage, Subscribe, Paint, Receive, Close, loops, InFlight
<1>6. ASSUME NEW u \in Tabs, TabStep(u), u # t
      PROVE  Converges(t, x)'
  <2>1. /\ tab'[t] = tab[t] /\ queue'[t] = queue[t] /\ shown'[t] = shown[t]
        /\ missed'[t] = missed[t]
    BY <1>0, <1>6
       DEF TabStep, LoadPage, Subscribe, Paint, Receive, writeEvent, Close, TypeOK
  <2> QED
    BY <1>0, <1>5, <1>6, <2>1 DEF Subscribed, Converges
<1>7. CASE Subscribe(t)
  <2>1. queue'[t] = <<>> /\ tab'[t] = "subscribed"
    BY <1>0, <1>7 DEF Subscribe, Subscribed, TypeOK
  <2> QED
    BY <2>1 DEF Converges
<1>8. CASE Paint(t)
  <2>1. Converges(t, x) /\ view' = view
    BY <1>0, <1>5, <1>8 DEF TabStep, Paint, Subscribed
  <2>2. queue' = queue /\ shown'[t] = view
    BY <1>8 DEF Paint, TypeOK, TabInv
  <2> QED
    BY <2>1, <2>2 DEF Converges
<1>9. CASE Receive(t)
  <2> DEFINE q == queue[t]
  <2>1. Converges(t, x) /\ view' = view /\ q # <<>> /\ q \in Seq(Rows)
    BY <1>0, <1>5, <1>9 DEF TabStep, Receive, Subscribed
  <2>2. queue'[t] = Tail(q) /\ tab'[t] = "live" /\ tab[t] = "live"
    BY <1>0, <1>9 DEF Receive, TypeOK
  <2>3. shown'[t][x] = IF Head(q).name = x THEN Head(q).status ELSE shown[t][x]
    BY <1>0, <1>9 DEF Receive, writeEvent, TypeOK
  <2>4. \A n \in DOMAIN Tail(q) :
           IsLast(Tail(q), n, x) => /\ n + 1 \in DOMAIN q /\ Tail(q)[n] = q[n + 1]
                                    /\ IsLast(q, n + 1, x)
    BY <2>1, LastOfTail
  <2>5. /\ DOMAIN q = 1..Len(q) /\ Len(q) \in Nat \ {0} /\ Head(q) = q[1]
        /\ DOMAIN Tail(q) = 1..Len(q) - 1
        /\ \A m \in 1..Len(q) - 1 : Tail(q)[m] = q[m + 1]
    BY <2>1
  <2>6. \A n \in DOMAIN q : IsLast(q, n, x) => q[n].status = view[x]
    BY <2>1 DEF Converges
  <2>7. \A n \in DOMAIN queue'[t] : IsLast(queue'[t], n, x) => queue'[t][n].status = view'[x]
    BY <2>1, <2>2, <2>4, <2>6
  <2>8. ASSUME \A n \in DOMAIN Tail(q) : Tail(q)[n].name # x
        PROVE  shown'[t][x] = view[x]
    <3>1. \A m \in DOMAIN q : m > 1 => q[m].name # x
      <4>1. ASSUME NEW m \in DOMAIN q, m > 1
            PROVE  m - 1 \in DOMAIN Tail(q) /\ Tail(q)[m - 1] = q[m]
        BY <2>5, <4>1
      <4> QED
        BY <2>8, <4>1
    <3>2. CASE Head(q).name = x
      <4>1. IsLast(q, 1, x) /\ 1 \in DOMAIN q
        BY <2>5, <3>1, <3>2 DEF IsLast
      <4> QED
        BY <2>3, <2>5, <2>6, <3>2, <4>1
    <3>3. CASE Head(q).name # x
      <4>1. \A m \in DOMAIN q : q[m].name # x
        BY <2>5, <3>1, <3>3
      <4> QED
        BY <2>1, <2>2, <2>3, <3>3, <4>1 DEF Converges
    <3> QED
      BY <3>2, <3>3
  <2> HIDE DEF q
  <2> QED
    BY <2>1, <2>2, <2>7, <2>8 DEF Converges
<1>10. ~LoadPage(t) /\ ~Close(t)
  BY <1>0 DEF LoadPage, Close, Subscribed, TypeOK
<1>11. CASE UNCHANGED vars
  BY <1>0, <1>11 DEF vars, loops, Subscribed, InFlight, Converges
<1>12. CASE TabStep(t)
  BY <1>7, <1>8, <1>9, <1>10, <1>12 DEF TabStep
<1> QED
  BY <1>4, <1>6, <1>11, <1>12, NextCases

LEMMA TabInit == Init => TabInv
<1> SUFFICES ASSUME Init
             PROVE  TabInv
  OBVIOUS
<1>1. \A x \in Subjects : Row(x, "UNKNOWN") \in Rows /\ Row(x, "UNKNOWN").name = x
  BY DEF Row, Rows, Shown
<1>2. hand \in [Subjects -> Rows] /\ \A x \in Subjects : hand[x].name = x
  BY <1>1 DEF Init
<1>3. TypeOK
  <2>1. view \in [Subjects -> Shown] /\ shown \in [Tabs -> [Subjects -> Shown]]
    BY DEF Init, Shown
  <2>2. queue \in [Tabs -> Seq(Rows)] /\ missed \in [Tabs -> SUBSET Subjects]
    BY DEF Init
  <2>3. blinding \in Seq(Services) /\ gate \in BOOLEAN
    BY DEF Init
  <2>4. \A x \in Subjects : at[x] = "idle"
    BY DEF Init
  <2>5. at[Host] = "idle" /\ \A x \in Services : at[x] = "idle"
    BY <2>4 DEF Subjects
  <2> QED
    BY <1>2, <2>1, <2>2, <2>3, <2>4, <2>5 DEF Init, TypeOK
<1> QED
  BY <1>3 DEF Init, TabInv, Subscribed

LEMMA TabStepInv == TabInv /\ [Next]_vars => TabInv'
<1> SUFFICES ASSUME TabInv, [Next]_vars
             PROVE  TabInv'
  OBVIOUS
<1>1. TypeOK'
  BY TypeStep DEF TabInv
<1>2. \A t \in Tabs : ~Subscribed(t)' => queue'[t] = <<>>
  BY QueueStep
<1>3. \A t \in Tabs, x \in Subjects :
         Subscribed(t)' /\ ~InFlight(x)' /\ x \notin missed'[t] => Converges(t, x)'
  BY ConvergeStep
<1> QED
  BY <1>1, <1>2, <1>3 DEF TabInv

\* Whatever the loops write and push, overtake and drop, the last word that
\* reaches a row is the Monitor's view (hub.go, monitor.go, web.go:79-110).
THEOREM TabInvariant == Spec => []TabInv
  BY TabInit, TabStepInv, PTL DEF Spec

\* A live tab with a drained channel shows the Monitor's views, for any
\* number of tabs and Services and any capacity of the channel.
THEOREM TabsAreCurrent == Spec => []TabIsCurrent
<1>1. TabInv => TabIsCurrent
  BY DEF TabInv, TabIsCurrent, Converges, Subscribed
<1> QED
  BY <1>1, TabInvariant, PTL
=============================================================================
