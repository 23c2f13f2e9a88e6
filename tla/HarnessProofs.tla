--------------------------- MODULE HarnessProofs ---------------------------
(***************************************************************************)
(* Proofs about Harness for every value of its constants.  The argument is *)
(* the inductive invariant IInv: a lemma per conjunct shows                *)
(* that every action keeps it; the theorems at the end read the properties *)
(* off it.                                                                 *)
(***************************************************************************)
EXTENDS HarnessProperties, TLAPS

\* The conjuncts of TypeOK that need most of the work.
CycleType == cycle \in [CycleIds -> CycleRec]
PcType == pc \in [CycleIds -> Running \cup {"new", "done"}]

\* The steps that may change the local cycle of a goroutine.
LEMMA CycleFrame ==
    ASSUME [Next]_vars
    PROVE  \/ UNCHANGED cycle
           \/ \E s \in Services : ObserveCommit(s)
           \/ \E c \in CycleIds :
                 \/ Diagnose(c) \/ ReceiveDecision(c) \/ ExpireApproval(c) \/ Dispatch(c)
                 \/ PersistAlreadyUp(c) \/ AwaitOutcome(c) \/ Return(c)
           \/ Crash
  BY DEF Next, runCycle, Operator, Reconcile, vars, locals, Commit, CooldownEnds,
       PersistStep, PersistThen, AskOperator, ApprovalTimeout, StartWatch, Resolve,
            EnterCooldown, CheckIncident, RefuseDecision, DecideUnsaved, Decide,
                 SendDecision, Halt, Rearm, ReconcileRow, StartSpine, CloseQuestion

\* The local cycles stay records of the right shape.
LEMMA CycleTypeStep ==
    ASSUME TypeOK, [Next]_vars
    PROVE  CycleType'
<1> CycleType
  BY DEF TypeOK, CycleType
<1>1. ASSUME NEW s \in Services, ObserveCommit(s)
      PROVE  CycleType'
  BY <1>1 DEF CycleType, CycleRec, ObserveCommit, StartCycle
<1>2. ASSUME NEW c \in CycleIds, Diagnose(c)
      PROVE  CycleType'
  <2>1. PICK p \in Reply \cup {runbook(c)} :
           \/ cycle' = [cycle EXCEPT ![c].target = validateProposal(p),
                                     ![c].approval = "NotRequested", ![c].outcome = "none"]
           \/ cycle' = [cycle EXCEPT ![c].target = validateProposal(p)]
    BY <1>2 DEF Diagnose, ClosesUnasked
  <2>2. validateProposal(p) \in Containers \cup {None}
    BY DEF validateProposal, Containers
  <2> QED
    BY <2>1, <2>2 DEF CycleType, CycleRec, Approval, Outcome, Resolved
<1>3. ASSUME NEW c \in CycleIds, ReceiveDecision(c)
      PROVE  CycleType'
  <2>1. decisionCh[c] \in Approval
    BY <1>3 DEF ReceiveDecision, TypeOK, Approval
  <2> QED
    BY <1>3, <2>1 DEF CycleType, CycleRec, ReceiveDecision, Settle, Outcome, Resolved
<1>4. ASSUME NEW c \in CycleIds, ExpireApproval(c)
      PROVE  CycleType'
  BY <1>4 DEF CycleType, CycleRec, ExpireApproval, Settle, Approval, Outcome, Resolved, CloseQuestion
<1>5. ASSUME NEW c \in CycleIds, Dispatch(c)
      PROVE  CycleType'
  BY <1>5 DEF CycleType, CycleRec, Dispatch, Outcome, Resolved, AfterDispatchErr
<1>6. ASSUME NEW c \in CycleIds, PersistAlreadyUp(c)
      PROVE  CycleType'
  BY <1>6 DEF CycleType, CycleRec, PersistAlreadyUp, Outcome, Resolved
<1>7. ASSUME NEW c \in CycleIds, AwaitOutcome(c)
      PROVE  CycleType'
  BY <1>7 DEF CycleType, CycleRec, AwaitOutcome, Outcome, Resolved
<1>8. ASSUME NEW c \in CycleIds, Return(c)
      PROVE  CycleType'
  BY <1>8 DEF CycleType, CycleRec, Return, NoCycle, Approval, Outcome, Resolved
<1>9. CASE Crash
  BY <1>9 DEF CycleType, CycleRec, Crash, NoCycle, Approval, Outcome, Resolved
<1> QED
  BY <1>1, <1>2, <1>3, <1>4, <1>5, <1>6, <1>7, <1>8, <1>9, CycleFrame DEF CycleType

\* The program counters stay among the steps of runCycle.
LEMMA PcTypeStep ==
    ASSUME PcType, [Next]_vars
    PROVE  PcType'
<1> USE DEF PcType, Running, Unasked, Deciding, Listening, Dispatched
<1>1. ASSUME NEW s \in Services, ObserveCommit(s)
      PROVE  PcType'
  BY <1>1 DEF ObserveCommit, StartCycle
<1>2. ASSUME NEW c \in CycleIds, runCycle(c)
      PROVE  PcType'
  <2>1. CASE PersistStep(c)
    BY <2>1 DEF PersistStep, PersistThen, Goto
  <2>2. CASE Diagnose(c)
    BY <2>2 DEF Diagnose, Goto, ClosesUnasked
  <2>3. CASE ReceiveDecision(c) \/ ExpireApproval(c)
    BY <2>3 DEF ReceiveDecision, ExpireApproval, Settle, Goto, CloseQuestion
  <2>4. CASE Dispatch(c)
    BY <2>4 DEF Dispatch, Goto, AfterDispatchErr
  <2> QED
    BY <1>2, <2>1, <2>2, <2>3, <2>4
       DEF runCycle, AskOperator, ApprovalTimeout, StartWatch, PersistAlreadyUp,
           AwaitOutcome, Resolve, EnterCooldown, Return, Goto
<1>3. CASE Crash
  BY <1>3 DEF Crash
<1>4. UNCHANGED pc \/ Crash \/ (\E s \in Services : ObserveCommit(s))
         \/ (\E c \in CycleIds : runCycle(c))
  BY DEF Next, Operator, Reconcile, vars, locals, Commit, CooldownEnds, CheckIncident,
         RefuseDecision, DecideUnsaved, Decide, SendDecision, Halt, Rearm,
         ReconcileRow, StartSpine, CloseQuestion
<1> QED
  BY <1>1, <1>2, <1>3, <1>4

\* Every step keeps the types; the subject of a cooling cycle and the id a
\* request carries come from FlightInv and QuestionInv.
LEMMA TypeStep ==
    ASSUME IInv, [Next]_vars
    PROVE  TypeOK'
<1> TypeOK /\ FlightInv /\ QuestionInv
  BY DEF IInv
<1> CycleType' /\ PcType'
  BY CycleTypeStep, PcTypeStep DEF TypeOK, PcType
<1> USE DEF memory, locals, history, TypeOK, CycleType, PcType, CommitRec, StoredRow,
     RequestRec
<1>1. ASSUME NEW s \in Services, NEW st \in Status, Commit(s, st)
      PROVE  TypeOK'
  BY <1>1 DEF Commit, Status, Decision, Approval, Outcome, Resolved, Stamp
<1>2. ASSUME NEW s \in Services, ObserveCommit(s)
      PROVE  TypeOK'
  <2>1. inflight[s].stamp \in Stamp
    OBVIOUS
  <2>2. lastUp' \in [Services -> Stamp \cup {"none"}] /\ inflight' \in [Services -> CommitRec]
    BY <1>2, <2>1 DEF ObserveCommit, NoCommit, Status, Stamp
  <2>3. upSeen' \in [CycleIds -> Stamp \cup {"none"}]
    BY <1>2, <2>1 DEF ObserveCommit
  <2>4. outcomeCh' \in [CycleIds -> BOOLEAN]
    BY <1>2 DEF ObserveCommit, Watching
  <2>5. active' \in CycleIds \cup {None}
    BY <1>2 DEF ObserveCommit, StartCycle
  <2> QED
    BY <1>2, <2>2, <2>3, <2>4, <2>5 DEF ObserveCommit
<1>3. ASSUME NEW s \in Services, CooldownEnds(s)
      PROVE  TypeOK'
  BY <1>3 DEF CooldownEnds, Status, Decision, Approval, Outcome, Resolved, Stamp
<1>4. ASSUME NEW c \in CycleIds, PersistStep(c)
      PROVE  TypeOK'
  <2>1. Row(c) \in StoredRow
    BY DEF Row, CycleRec
  <2>2. stored' \in [CycleIds -> StoredRow] /\ storeFailures' \in 0..MaxStoreFailures
    <3>1. persist(c, Row(c))
      BY <1>4 DEF PersistStep, PersistThen
    <3> QED
      BY <2>1, <3>1, BoundsAssumption DEF persist
  <2> QED
    BY <1>4, <2>2 DEF PersistStep, PersistThen
<1>5. ASSUME NEW c \in CycleIds, Diagnose(c)
      PROVE  TypeOK'
  BY <1>5 DEF Diagnose, Status, Decision, Approval, Outcome, Resolved, Stamp, ClosesUnasked
<1>6. ASSUME NEW c \in CycleIds, AskOperator(c)
      PROVE  TypeOK'
  BY <1>6 DEF AskOperator, Status, Decision, Approval, Outcome, Resolved, Stamp
<1>7. ASSUME NEW c \in CycleIds, ReceiveDecision(c)
      PROVE  TypeOK'
  BY <1>7 DEF ReceiveDecision, Status, Decision, Approval, Outcome, Resolved, Stamp
<1>8. ASSUME NEW c \in CycleIds, ApprovalTimeout(c)
      PROVE  TypeOK'
  BY <1>8 DEF ApprovalTimeout, Status, Decision, Approval, Outcome, Resolved, Stamp
<1>9. ASSUME NEW c \in CycleIds, ExpireApproval(c)
      PROVE  TypeOK'
  BY <1>9 DEF ExpireApproval, Status, Decision, Approval, Outcome, Resolved, Stamp, CloseQuestion
<1>10. ASSUME NEW c \in CycleIds, Dispatch(c)
      PROVE  TypeOK'
  BY <1>10 DEF Dispatch, Status, Decision, Approval, Outcome, Resolved, Stamp, AfterDispatchErr
<1>11. ASSUME NEW c \in CycleIds, StartWatch(c)
      PROVE  TypeOK'
  BY <1>11 DEF StartWatch, Status, Decision, Approval, Outcome, Resolved, Stamp
<1>12. ASSUME NEW c \in CycleIds, PersistAlreadyUp(c)
      PROVE  TypeOK'
  <2>1. Row(c) \in StoredRow
    BY DEF Row, CycleRec
  <2>2. stored' \in [CycleIds -> StoredRow] /\ storeFailures' \in 0..MaxStoreFailures
    BY <1>12, <2>1, BoundsAssumption DEF PersistAlreadyUp, persist
  <2> QED
    BY <1>12, <2>2 DEF PersistAlreadyUp
<1>13. ASSUME NEW c \in CycleIds, AwaitOutcome(c)
      PROVE  TypeOK'
  BY <1>13 DEF AwaitOutcome, Status, Decision, Approval, Outcome, Resolved, Stamp
<1>14. ASSUME NEW c \in CycleIds, Resolve(c)
      PROVE  TypeOK'
  BY <1>14 DEF Resolve, Status, Decision, Approval, Outcome, Resolved, Stamp
<1>15. ASSUME NEW c \in CycleIds, EnterCooldown(c)
      PROVE  TypeOK'
  <2>1. cycle[c].subject \in Services
    BY <1>15 DEF EnterCooldown, FlightInv, Running, Dispatched
  <2> QED
    BY <1>15, <2>1 DEF EnterCooldown
<1>16. ASSUME NEW c \in CycleIds, Return(c)
      PROVE  TypeOK'
  BY <1>16 DEF Return, Status, Decision, Approval, Outcome, Resolved, Stamp
<1>17. ASSUME NEW r \in Requests, NEW c \in CycleIds, NEW d \in Decision,
     CheckIncident(r, c, d)
      PROVE  TypeOK'
  BY <1>17 DEF CheckIncident, Status, Decision, Approval, Outcome, Resolved, Stamp
<1>18. ASSUME NEW r \in Requests, RefuseDecision(r)
      PROVE  TypeOK'
  BY <1>18 DEF RefuseDecision, NoRequest, Status, Decision, Approval, Outcome, Resolved,
       Stamp
<1>19. ASSUME NEW r \in Requests, DecideUnsaved(r)
      PROVE  TypeOK'
  BY <1>19, BoundsAssumption DEF DecideUnsaved, NoRequest, Decision
<1>20. ASSUME NEW r \in Requests, Decide(r)
      PROVE  TypeOK'
  <2>1. request[r].id \in CycleIds /\ request[r].decision \in Decision
    BY <1>20 DEF Decide, QuestionInv, CloseQuestion
  <2>2. cycle[request[r].id].outcome \in Outcome
    BY <2>1 DEF CycleRec
  <2>3. stored' \in [CycleIds -> StoredRow]
    BY <1>20, <2>1, <2>2 DEF Decide, Approval, CloseQuestion
  <2>4. lastUp' \in [Services -> Stamp \cup {"none"}] /\ inflight' \in [Services -> CommitRec]
    <3>1. ASSUME NEW s \in Services
          PROVE  [inflight[s] EXCEPT !.stamp = "old"] \in CommitRec
      BY DEF Stamp
    <3> QED
      BY <1>20, <3>1 DEF Decide, AgeStamps, Stamp, CloseQuestion
  <2>5. acked' \in [CycleIds -> Decision \cup {"none"}] /\ request' \in [Requests -> RequestRec]
    BY <1>20, <2>1 DEF Decide, CloseQuestion
  <2> QED
    BY <1>20, <2>3, <2>4, <2>5 DEF Decide, CloseQuestion
<1>21. ASSUME NEW r \in Requests, SendDecision(r)
      PROVE  TypeOK'
  BY <1>21 DEF SendDecision, NoRequest, Status, Decision, Approval, Outcome, Resolved, Stamp
<1>22. CASE Halt
  BY <1>22 DEF Halt, Status, Decision, Approval, Outcome, Resolved, Stamp
<1>23. CASE Rearm
  BY <1>23 DEF Rearm, Status, Decision, Approval, Outcome, Resolved, Stamp
<1>24. CASE Crash
  <2>1. crashes' \in 0..MaxCrashes
    BY <1>24, BoundsAssumption DEF Crash
  <2>2. NoCommit \in CommitRec /\ NoRequest \in RequestRec
    BY DEF NoCommit, NoRequest, Stamp, Decision
  <2>3. inflight' \in [Services -> CommitRec] /\ request' \in [Requests -> RequestRec]
    BY <1>24, <2>2 DEF Crash
  <2> QED
    BY <1>24, <2>1, <2>3 DEF Crash
<1>25. ASSUME NEW c \in CycleIds, ReconcileRow(c)
      PROVE  TypeOK'
  BY <1>25 DEF ReconcileRow, Reconciled, Status, Decision, Approval, Outcome, Resolved,
       Stamp
<1>26. CASE StartSpine
  BY <1>26 DEF StartSpine, Status, Decision, Approval, Outcome, Resolved, Stamp
<1>27. CASE UNCHANGED vars
  BY <1>27 DEF vars, Status, Decision, Approval, Outcome, Resolved, Stamp
<1> QED
  BY <1>1, <1>2, <1>3, <1>4, <1>5, <1>6, <1>7, <1>8, <1>9, <1>10, <1>11, <1>12, <1>13,
       <1>14, <1>15, <1>16, <1>17, <1>18, <1>19, <1>20, <1>21, <1>22, <1>23, <1>24,
            <1>25, <1>26, <1>27 DEF Next, runCycle, Operator, Reconcile

\* What ObserveCommit may do to a cycle.
LEMMA ObserveEffect ==
    ASSUME TypeOK, NEW s \in Services, ObserveCommit(s), NEW x \in CycleIds
    PROVE  /\ cycle'[x].outcome = cycle[x].outcome
           /\ cycle'[x].approval = cycle[x].approval
           /\ (pc'[x] = pc[x] \/ (pc[x] = "new" /\ pc'[x] = "persistStart"))
<1>1. CASE Triggers(s)
  <2>1. PICK c \in CycleIds : StartCycle(c, s)
    BY <1>1 DEF ObserveCommit
  <2> QED
    BY <2>1 DEF StartCycle, TypeOK, CycleRec
<1>2. CASE ~Triggers(s)
  BY <1>2 DEF ObserveCommit
<1> QED
  BY <1>1, <1>2

\* What Dispatch may do to a cycle.
LEMMA DispatchEffect ==
    ASSUME TypeOK, NEW c \in CycleIds, Dispatch(c), NEW x \in CycleIds
    PROVE  /\ cycle'[x].subject = cycle[x].subject
           /\ cycle'[x].approval = cycle[x].approval
           /\ x # c => cycle'[x] = cycle[x] /\ pc'[x] = pc[x]
           /\ \/ pc'[c] = "watch" /\ cycle'[c].outcome = "pending"
              \/ pc'[c] = "persistDispatchErr" /\ cycle'[c].outcome = "dispatch_error"
<1>1. PICK o \in {"pending", "dispatch_error"} :
         /\ cycle' = [cycle EXCEPT ![c].outcome = o]
         /\ pc' = [pc EXCEPT ![c] = IF o = "pending" THEN "watch" ELSE "persistDispatchErr"]
  BY DEF Dispatch, Goto, AfterDispatchErr
<1> QED
  BY <1>1 DEF TypeOK, CycleRec


\* Every step keeps the single flight: only ObserveCommit sets active, and
\* only when it was nil; only Return and Crash clear it.
LEMMA FlightStep ==
    ASSUME IInv, TypeOK', [Next]_vars
    PROVE  FlightInv'
<1> TypeOK /\ FlightInv
  BY DEF IInv
<1> USE DEF memory, locals, history, TypeOK, FlightInv, SingleFlight, Running, Unasked,
     Deciding, Listening, Dispatched
<1>1. ASSUME NEW s \in Services, NEW st \in Status, Commit(s, st)
      PROVE  FlightInv'
  BY <1>1 DEF Commit
<1>2. ASSUME NEW s \in Services, ObserveCommit(s)
      PROVE  FlightInv'
  <2>1. CASE Triggers(s)
    <3>1. PICK c \in CycleIds : StartCycle(c, s)
      BY <1>2, <2>1 DEF ObserveCommit
    <3>2. cycle'[c].subject = s
      BY <3>1 DEF StartCycle, CycleRec
    <3> QED
      BY <1>2, <2>1, <3>1, <3>2, NoneAssumption DEF ObserveCommit, StartCycle, Triggers
  <2>2. CASE ~Triggers(s)
    BY <1>2, <2>2 DEF ObserveCommit
  <2> QED
    BY <2>1, <2>2
<1>3. ASSUME NEW s \in Services, CooldownEnds(s)
      PROVE  FlightInv'
  BY <1>3 DEF CooldownEnds
<1>4. ASSUME NEW c \in CycleIds, PersistStep(c)
      PROVE  FlightInv'
  BY <1>4 DEF PersistStep, PersistThen, persist, Goto, Row
<1>5. ASSUME NEW c \in CycleIds, Diagnose(c)
      PROVE  FlightInv'
  <2>1. \A x \in CycleIds : cycle'[x].subject = cycle[x].subject
    BY <1>5 DEF Diagnose, CycleRec, ClosesUnasked
  <2> QED
    BY <1>5, <2>1 DEF Diagnose, Goto, ClosesUnasked
<1>6. ASSUME NEW c \in CycleIds, AskOperator(c)
      PROVE  FlightInv'
  BY <1>6 DEF AskOperator, Goto
<1>7. ASSUME NEW c \in CycleIds, ReceiveDecision(c)
      PROVE  FlightInv'
  BY <1>7 DEF ReceiveDecision, Settle, Goto
<1>8. ASSUME NEW c \in CycleIds, ApprovalTimeout(c)
      PROVE  FlightInv'
  BY <1>8 DEF ApprovalTimeout, Goto
<1>9. ASSUME NEW c \in CycleIds, ExpireApproval(c)
      PROVE  FlightInv'
  BY <1>9 DEF ExpireApproval, Settle, Goto, CloseQuestion
<1>10. ASSUME NEW c \in CycleIds, Dispatch(c)
      PROVE  FlightInv'
  <2>1. \A x \in CycleIds : cycle'[x].subject = cycle[x].subject
    BY <1>10 DEF Dispatch, CycleRec, AfterDispatchErr
  <2> QED
    BY <1>10, <2>1 DEF Dispatch, Goto, AfterDispatchErr
<1>11. ASSUME NEW c \in CycleIds, StartWatch(c)
      PROVE  FlightInv'
  BY <1>11 DEF StartWatch, Goto
<1>12. ASSUME NEW c \in CycleIds, PersistAlreadyUp(c)
      PROVE  FlightInv'
  BY <1>12 DEF PersistAlreadyUp, persist, Goto, Row
<1>13. ASSUME NEW c \in CycleIds, AwaitOutcome(c)
      PROVE  FlightInv'
  <2>1. \A x \in CycleIds : cycle'[x].subject = cycle[x].subject
    BY <1>13 DEF AwaitOutcome, CycleRec
  <2> QED
    BY <1>13, <2>1 DEF AwaitOutcome, Goto
<1>14. ASSUME NEW c \in CycleIds, Resolve(c)
      PROVE  FlightInv'
  BY <1>14 DEF Resolve, Goto
<1>15. ASSUME NEW c \in CycleIds, EnterCooldown(c)
      PROVE  FlightInv'
  BY <1>15 DEF EnterCooldown, Goto
<1>16. ASSUME NEW c \in CycleIds, Return(c)
      PROVE  FlightInv'
  BY <1>16, NoneAssumption DEF Return, Goto
<1>17. ASSUME NEW r \in Requests, NEW c \in CycleIds, NEW d \in Decision,
     CheckIncident(r, c, d)
      PROVE  FlightInv'
  BY <1>17 DEF CheckIncident
<1>18. ASSUME NEW r \in Requests, RefuseDecision(r)
      PROVE  FlightInv'
  BY <1>18 DEF RefuseDecision, NoRequest
<1>19. ASSUME NEW r \in Requests, DecideUnsaved(r)
      PROVE  FlightInv'
  BY <1>19 DEF DecideUnsaved, NoRequest
<1>20. ASSUME NEW r \in Requests, Decide(r)
      PROVE  FlightInv'
  BY <1>20 DEF Decide, AgeStamps, Undecidable, CloseQuestion
<1>21. ASSUME NEW r \in Requests, SendDecision(r)
      PROVE  FlightInv'
  BY <1>21 DEF SendDecision, NoRequest
<1>22. CASE Halt
  BY <1>22 DEF Halt
<1>23. CASE Rearm
  BY <1>23 DEF Rearm
<1>24. CASE Crash
  BY <1>24, NoneAssumption DEF Crash
<1>25. ASSUME NEW c \in CycleIds, ReconcileRow(c)
      PROVE  FlightInv'
  <2>1. pc[c] # "new"
    BY <1>25 DEF ReconcileRow, Reconciled, NoRow
  <2> QED
    BY <1>25, <2>1 DEF ReconcileRow
<1>26. CASE StartSpine
  BY <1>26 DEF StartSpine
<1>27. CASE UNCHANGED vars
  BY <1>27 DEF vars
<1> QED
  BY <1>1, <1>2, <1>3, <1>4, <1>5, <1>6, <1>7, <1>8, <1>9, <1>10, <1>11, <1>12, <1>13,
       <1>14, <1>15, <1>16, <1>17, <1>18, <1>19, <1>20, <1>21, <1>22, <1>23, <1>24,
            <1>25, <1>26, <1>27 DEF Next, runCycle, Operator, Reconcile

\* Every step keeps the question and its answer together: Decide alone
\* records, and closes the question as it does.
LEMMA QuestionStep ==
    ASSUME IInv, TypeOK', [Next]_vars
    PROVE  QuestionInv'
<1> TypeOK /\ FlightInv /\ QuestionInv
  BY DEF IInv
<1> USE DEF memory, locals, history, TypeOK, RequestRec, FlightInv, SingleFlight,
     QuestionInv, Decision, Running, Unasked, Deciding, Listening, Dispatched
<1>1. ASSUME NEW s \in Services, NEW st \in Status, Commit(s, st)
      PROVE  QuestionInv'
  BY <1>1 DEF Commit
<1>2. ASSUME NEW s \in Services, ObserveCommit(s)
      PROVE  QuestionInv'
  BY <1>2 DEF ObserveCommit, StartCycle
<1>3. ASSUME NEW s \in Services, CooldownEnds(s)
      PROVE  QuestionInv'
  BY <1>3 DEF CooldownEnds
<1>4. ASSUME NEW c \in CycleIds, PersistStep(c)
      PROVE  QuestionInv'
  BY <1>4 DEF PersistStep, PersistThen, persist, Goto, Row
<1>5. ASSUME NEW c \in CycleIds, Diagnose(c)
      PROVE  QuestionInv'
  BY <1>5 DEF Diagnose, Goto, ClosesUnasked
<1>6. ASSUME NEW c \in CycleIds, AskOperator(c)
      PROVE  QuestionInv'
  BY <1>6 DEF AskOperator, Goto
<1>7. ASSUME NEW c \in CycleIds, ReceiveDecision(c)
      PROVE  QuestionInv'
  BY <1>7 DEF ReceiveDecision, Settle, Goto
<1>8. ASSUME NEW c \in CycleIds, ApprovalTimeout(c)
      PROVE  QuestionInv'
  BY <1>8 DEF ApprovalTimeout, Goto
<1>9. ASSUME NEW c \in CycleIds, ExpireApproval(c)
      PROVE  QuestionInv'
  BY <1>9 DEF ExpireApproval, Settle, Goto, CloseQuestion
<1>10. ASSUME NEW c \in CycleIds, Dispatch(c)
      PROVE  QuestionInv'
  BY <1>10 DEF Dispatch, Goto, AfterDispatchErr
<1>11. ASSUME NEW c \in CycleIds, StartWatch(c)
      PROVE  QuestionInv'
  BY <1>11 DEF StartWatch, Goto
<1>12. ASSUME NEW c \in CycleIds, PersistAlreadyUp(c)
      PROVE  QuestionInv'
  BY <1>12 DEF PersistAlreadyUp, persist, Goto, Row
<1>13. ASSUME NEW c \in CycleIds, AwaitOutcome(c)
      PROVE  QuestionInv'
  BY <1>13 DEF AwaitOutcome, Goto
<1>14. ASSUME NEW c \in CycleIds, Resolve(c)
      PROVE  QuestionInv'
  BY <1>14 DEF Resolve, Goto
<1>15. ASSUME NEW c \in CycleIds, EnterCooldown(c)
      PROVE  QuestionInv'
  BY <1>15 DEF EnterCooldown, Goto
<1>16. ASSUME NEW c \in CycleIds, Return(c)
      PROVE  QuestionInv'
  BY <1>16 DEF Return, Goto, NoCycle
<1>17. ASSUME NEW r \in Requests, NEW c \in CycleIds, NEW d \in Decision,
     CheckIncident(r, c, d)
      PROVE  QuestionInv'
  BY <1>17 DEF CheckIncident
<1>18. ASSUME NEW r \in Requests, RefuseDecision(r)
      PROVE  QuestionInv'
  BY <1>18 DEF RefuseDecision, NoRequest
<1>19. ASSUME NEW r \in Requests, DecideUnsaved(r)
      PROVE  QuestionInv'
  BY <1>19 DEF DecideUnsaved, NoRequest
<1>20. ASSUME NEW r \in Requests, Decide(r)
      PROVE  QuestionInv'
  BY <1>20 DEF Decide, AgeStamps, Undecidable, CloseQuestion
<1>21. ASSUME NEW r \in Requests, SendDecision(r)
      PROVE  QuestionInv'
  BY <1>21 DEF SendDecision, NoRequest
<1>22. CASE Halt
  BY <1>22 DEF Halt
<1>23. CASE Rearm
  BY <1>23 DEF Rearm
<1>24. CASE Crash
  BY <1>24 DEF Crash, NoCycle, NoCommit, NoRequest
<1>25. ASSUME NEW c \in CycleIds, ReconcileRow(c)
      PROVE  QuestionInv'
  BY <1>25 DEF ReconcileRow, Reconciled
<1>26. CASE StartSpine
  BY <1>26 DEF StartSpine
<1>27. CASE UNCHANGED vars
  BY <1>27 DEF vars
<1> QED
  BY <1>1, <1>2, <1>3, <1>4, <1>5, <1>6, <1>7, <1>8, <1>9, <1>10, <1>11, <1>12, <1>13,
       <1>14, <1>15, <1>16, <1>17, <1>18, <1>19, <1>20, <1>21, <1>22, <1>23, <1>24,
            <1>25, <1>26, <1>27 DEF Next, runCycle, Operator, Reconcile

\* Every step keeps the way to the Actuator: the only entry to "dispatch" is
\* an Approved taken from the channel, which QuestionInv says was recorded.
LEMMA DispatchStep ==
    ASSUME IInv, TypeOK', [Next]_vars
    PROVE  DispatchInv'
<1> TypeOK /\ FlightInv /\ QuestionInv /\ DispatchInv
  BY DEF IInv
<1> USE DEF memory, locals, history, TypeOK, DispatchInv, Asked, Acting, Running,
     Unasked, Deciding, Listening, Dispatched
<1>1. ASSUME NEW s \in Services, NEW st \in Status, Commit(s, st)
      PROVE  DispatchInv'
  BY <1>1 DEF Commit
<1>2. ASSUME NEW s \in Services, ObserveCommit(s)
      PROVE  DispatchInv'
  BY <1>2 DEF ObserveCommit, StartCycle
<1>3. ASSUME NEW s \in Services, CooldownEnds(s)
      PROVE  DispatchInv'
  BY <1>3 DEF CooldownEnds
<1>4. ASSUME NEW c \in CycleIds, PersistStep(c)
      PROVE  DispatchInv'
  BY <1>4 DEF PersistStep, PersistThen, persist, Goto, Row
<1>5. ASSUME NEW c \in CycleIds, Diagnose(c)
      PROVE  DispatchInv'
  <2>1. fired[c] = 0 /\ Mode \in {"shadow", "live"}
    BY <1>5, ModeAssumption DEF Diagnose, FlightInv, ClosesUnasked
  <2>2. pc'[c] = "ask" => Mode # "shadow" /\ cycle'[c].target \in Containers
    <3>1. PICK p \in Reply \cup {runbook(c)} :
             pc'[c] = "ask" => /\ Mode # "shadow"
                               /\ validateProposal(p) # None
                               /\ cycle' = [cycle EXCEPT ![c].target = validateProposal(p)]
      BY <1>5 DEF Diagnose, Goto, ClosesUnasked
    <3> QED
      BY <3>1 DEF validateProposal, Containers, CycleRec
  <2>3. \A x \in CycleIds \ {c} : pc'[x] = pc[x] /\ cycle'[x] = cycle[x]
    BY <1>5 DEF Diagnose, Goto, ClosesUnasked
  <2>4. pc'[c] \in {"ask", "persistClosed"}
    BY <1>5 DEF Diagnose, Goto, ClosesUnasked
  <2> QED
    BY <1>5, <2>1, <2>2, <2>3, <2>4 DEF Diagnose, ClosesUnasked
<1>6. ASSUME NEW c \in CycleIds, AskOperator(c)
      PROVE  DispatchInv'
  BY <1>6 DEF AskOperator, Goto
<1>7. ASSUME NEW c \in CycleIds, ReceiveDecision(c)
      PROVE  DispatchInv'
  <2>1. acked[c] = decisionCh[c] /\ fired[c] = 0 /\ Mode = "live"
    BY <1>7 DEF ReceiveDecision, QuestionInv
  <2>2. cycle'[c].target = cycle[c].target
        /\ \A x \in CycleIds \ {c} : cycle'[x] = cycle[x]
    BY <1>7 DEF ReceiveDecision, Settle, CycleRec
  <2> QED
    BY <1>7, <2>1, <2>2 DEF ReceiveDecision, Settle, Goto
<1>8. ASSUME NEW c \in CycleIds, ApprovalTimeout(c)
      PROVE  DispatchInv'
  BY <1>8 DEF ApprovalTimeout, Goto
<1>9. ASSUME NEW c \in CycleIds, ExpireApproval(c)
      PROVE  DispatchInv'
  BY <1>9 DEF ExpireApproval, Settle, Goto, CloseQuestion
<1>10. ASSUME NEW c \in CycleIds, Dispatch(c)
      PROVE  DispatchInv'
  BY <1>10 DEF Dispatch, Goto, AfterDispatchErr
<1>11. ASSUME NEW c \in CycleIds, StartWatch(c)
      PROVE  DispatchInv'
  BY <1>11 DEF StartWatch, Goto
<1>12. ASSUME NEW c \in CycleIds, PersistAlreadyUp(c)
      PROVE  DispatchInv'
  BY <1>12 DEF PersistAlreadyUp, persist, Goto, Row
<1>13. ASSUME NEW c \in CycleIds, AwaitOutcome(c)
      PROVE  DispatchInv'
  BY <1>13 DEF AwaitOutcome, Goto
<1>14. ASSUME NEW c \in CycleIds, Resolve(c)
      PROVE  DispatchInv'
  BY <1>14 DEF Resolve, Goto
<1>15. ASSUME NEW c \in CycleIds, EnterCooldown(c)
      PROVE  DispatchInv'
  BY <1>15 DEF EnterCooldown, Goto
<1>16. ASSUME NEW c \in CycleIds, Return(c)
      PROVE  DispatchInv'
  BY <1>16 DEF Return, Goto, NoCycle
<1>17. ASSUME NEW r \in Requests, NEW c \in CycleIds, NEW d \in Decision,
     CheckIncident(r, c, d)
      PROVE  DispatchInv'
  BY <1>17 DEF CheckIncident
<1>18. ASSUME NEW r \in Requests, RefuseDecision(r)
      PROVE  DispatchInv'
  BY <1>18 DEF RefuseDecision, NoRequest
<1>19. ASSUME NEW r \in Requests, DecideUnsaved(r)
      PROVE  DispatchInv'
  BY <1>19 DEF DecideUnsaved, NoRequest
<1>20. ASSUME NEW r \in Requests, Decide(r)
      PROVE  DispatchInv'
  <2>1. request[r].id \in CycleIds /\ pc[request[r].id] \in Deciding
    BY <1>20 DEF Decide, Undecidable, QuestionInv, CloseQuestion
  <2> QED
    BY <1>20, <2>1 DEF Decide, CloseQuestion
<1>21. ASSUME NEW r \in Requests, SendDecision(r)
      PROVE  DispatchInv'
  BY <1>21 DEF SendDecision, NoRequest
<1>22. CASE Halt
  BY <1>22 DEF Halt
<1>23. CASE Rearm
  BY <1>23 DEF Rearm
<1>24. CASE Crash
  BY <1>24 DEF Crash, NoCycle, NoCommit, NoRequest
<1>25. ASSUME NEW c \in CycleIds, ReconcileRow(c)
      PROVE  DispatchInv'
  BY <1>25 DEF ReconcileRow, Reconciled
<1>26. CASE StartSpine
  BY <1>26 DEF StartSpine
<1>27. CASE UNCHANGED vars
  BY <1>27 DEF vars
<1> QED
  BY <1>1, <1>2, <1>3, <1>4, <1>5, <1>6, <1>7, <1>8, <1>9, <1>10, <1>11, <1>12, <1>13,
       <1>14, <1>15, <1>16, <1>17, <1>18, <1>19, <1>20, <1>21, <1>22, <1>23, <1>24,
            <1>25, <1>26, <1>27 DEF Next, runCycle, Operator, Reconcile

\* Every step keeps resolved rows at the end of their cycle.
LEMMA RowStep ==
    ASSUME IInv, TypeOK', [Next]_vars
    PROVE  RowInv'
<1> TypeOK /\ FlightInv /\ QuestionInv /\ RowInv
  BY DEF IInv
<1> USE DEF memory, locals, history, TypeOK, RowInv, Asked, Acting, Resolved, CycleRec,
     StoredRow, Running, Unasked, Deciding, Listening, Dispatched
<1>1. ASSUME NEW s \in Services, NEW st \in Status, Commit(s, st)
      PROVE  RowInv'
  BY <1>1 DEF Commit
<1>2. ASSUME NEW s \in Services, ObserveCommit(s)
      PROVE  RowInv'
  <2>1. \A x \in CycleIds : /\ cycle'[x].outcome = cycle[x].outcome
                            /\ cycle'[x].approval = cycle[x].approval
                            /\ (pc'[x] = pc[x] \/ (pc[x] = "new" /\ pc'[x] = "persistStart"))
    BY <1>2, ObserveEffect
  <2>3. \A x \in CycleIds : pc[x] = "new" => stored[x].outcome = "unset"
    BY DEF FlightInv, NoRow
  <2> QED
    BY <1>2, <2>1, <2>3 DEF ObserveCommit
<1>3. ASSUME NEW s \in Services, CooldownEnds(s)
      PROVE  RowInv'
  BY <1>3 DEF CooldownEnds
<1>4. ASSUME NEW c \in CycleIds, PersistStep(c)
      PROVE  RowInv'
  BY <1>4 DEF PersistStep, PersistThen, persist, Goto, Row
<1>5. ASSUME NEW c \in CycleIds, Diagnose(c)
      PROVE  RowInv'
  BY <1>5 DEF Diagnose, Goto, ClosesUnasked
<1>6. ASSUME NEW c \in CycleIds, AskOperator(c)
      PROVE  RowInv'
  BY <1>6 DEF AskOperator, Goto
<1>7. ASSUME NEW c \in CycleIds, ReceiveDecision(c)
      PROVE  RowInv'
  BY <1>7 DEF ReceiveDecision, Settle, Goto
<1>8. ASSUME NEW c \in CycleIds, ApprovalTimeout(c)
      PROVE  RowInv'
  BY <1>8 DEF ApprovalTimeout, Goto
<1>9. ASSUME NEW c \in CycleIds, ExpireApproval(c)
      PROVE  RowInv'
  BY <1>9 DEF ExpireApproval, Settle, Goto, CloseQuestion
<1>10. ASSUME NEW c \in CycleIds, Dispatch(c)
      PROVE  RowInv'
  <2>1. \A x \in CycleIds \ {c} : pc'[x] = pc[x] /\ cycle'[x] = cycle[x]
    BY <1>10, DispatchEffect
  <2>2. pc[c] = "dispatch" /\ stored' = stored
    BY <1>10 DEF Dispatch, AfterDispatchErr
  <2>4. cycle[c].approval = "Approved" /\ stored[c].outcome \notin Resolved
    BY <2>2
  <2>5. cycle'[c].approval = "Approved"
    BY <1>10, <2>4, DispatchEffect
  <2>3. \/ pc'[c] = "watch" /\ cycle'[c].outcome = "pending"
        \/ pc'[c] = "persistDispatchErr" /\ cycle'[c].outcome = "dispatch_error"
    BY <1>10, DispatchEffect
  <2> QED
    BY <2>1, <2>2, <2>3, <2>4, <2>5
<1>11. ASSUME NEW c \in CycleIds, StartWatch(c)
      PROVE  RowInv'
  BY <1>11 DEF StartWatch, Goto
<1>12. ASSUME NEW c \in CycleIds, PersistAlreadyUp(c)
      PROVE  RowInv'
  BY <1>12 DEF PersistAlreadyUp, persist, Goto, Row
<1>13. ASSUME NEW c \in CycleIds, AwaitOutcome(c)
      PROVE  RowInv'
  BY <1>13 DEF AwaitOutcome, Goto
<1>14. ASSUME NEW c \in CycleIds, Resolve(c)
      PROVE  RowInv'
  BY <1>14 DEF Resolve, Goto
<1>15. ASSUME NEW c \in CycleIds, EnterCooldown(c)
      PROVE  RowInv'
  BY <1>15 DEF EnterCooldown, Goto
<1>16. ASSUME NEW c \in CycleIds, Return(c)
      PROVE  RowInv'
  BY <1>16 DEF Return, Goto, NoCycle
<1>17. ASSUME NEW r \in Requests, NEW c \in CycleIds, NEW d \in Decision,
     CheckIncident(r, c, d)
      PROVE  RowInv'
  BY <1>17 DEF CheckIncident
<1>18. ASSUME NEW r \in Requests, RefuseDecision(r)
      PROVE  RowInv'
  BY <1>18 DEF RefuseDecision, NoRequest
<1>19. ASSUME NEW r \in Requests, DecideUnsaved(r)
      PROVE  RowInv'
  BY <1>19 DEF DecideUnsaved, NoRequest
<1>20. ASSUME NEW r \in Requests, Decide(r)
      PROVE  RowInv'
  <2>1. request[r].id \in CycleIds /\ pc[request[r].id] \in Deciding
    BY <1>20 DEF Decide, Undecidable, QuestionInv, CloseQuestion
  <2>2. stored'[request[r].id].outcome = "unset"
        /\ \A x \in CycleIds \ {request[r].id} : stored'[x] = stored[x]
    BY <1>20, <2>1 DEF Decide, CloseQuestion
  <2> QED
    BY <1>20, <2>1, <2>2 DEF Decide, CloseQuestion
<1>21. ASSUME NEW r \in Requests, SendDecision(r)
      PROVE  RowInv'
  BY <1>21 DEF SendDecision, NoRequest
<1>22. CASE Halt
  BY <1>22 DEF Halt
<1>23. CASE Rearm
  BY <1>23 DEF Rearm
<1>24. CASE Crash
  BY <1>24 DEF Crash, NoCycle, NoCommit, NoRequest
<1>25. ASSUME NEW c \in CycleIds, ReconcileRow(c)
      PROVE  RowInv'
  <2>1. pc[c] \notin Running /\ pc[c] # "new"
    BY <1>25, NoneAssumption DEF ReconcileRow, Reconciled, FlightInv, SingleFlight, NoRow
  <2>2. stored'[c].outcome \in Resolved => stored'[c].approval # "Pending"
    BY <1>25 DEF ReconcileRow, Reconciled
  <2>3. \A x \in CycleIds \ {c} : stored'[x] = stored[x]
    BY <1>25 DEF ReconcileRow
  <2> QED
    BY <1>25, <2>1, <2>2, <2>3 DEF ReconcileRow
<1>26. CASE StartSpine
  BY <1>26 DEF StartSpine
<1>27. CASE UNCHANGED vars
  BY <1>27 DEF vars
<1> QED
  BY <1>1, <1>2, <1>3, <1>4, <1>5, <1>6, <1>7, <1>8, <1>9, <1>10, <1>11, <1>12, <1>13,
       <1>14, <1>15, <1>16, <1>17, <1>18, <1>19, <1>20, <1>21, <1>22, <1>23, <1>24,
            <1>25, <1>26, <1>27 DEF Next, runCycle, Operator, Reconcile

\* Every step keeps an UP behind every recovery: Decide leaves no fresh
\* stamp, so a fresh one read later was delivered after the approval.
LEMMA RecoveryStep ==
    ASSUME IInv, TypeOK', [Next]_vars
    PROVE  RecoveryInv'
<1> TypeOK /\ FlightInv /\ QuestionInv /\ DispatchInv /\ RecoveryInv
  BY DEF IInv
<1> USE DEF memory, locals, history, TypeOK, RecoveryInv, CycleRec, StoredRow, Running,
     Unasked, Deciding, Listening, Dispatched
<1>1. ASSUME NEW s \in Services, NEW st \in Status, Commit(s, st)
      PROVE  RecoveryInv'
  BY <1>1 DEF Commit
<1>2. ASSUME NEW s \in Services, ObserveCommit(s)
      PROVE  RecoveryInv'
  <2>1. inflight[s].stamp # "none"
    BY DEF CommitRec, Stamp
  <2>2. \A x \in CycleIds : upSeen[x] # "none" => upSeen'[x] # "none"
    BY <1>2, <2>1 DEF ObserveCommit
  <2>3. \A x \in CycleIds : /\ cycle'[x].outcome = cycle[x].outcome
                            /\ pc'[x] = "persistAlreadyUp" => pc[x] = "persistAlreadyUp"
    BY <1>2, ObserveEffect
  <2>4. ASSUME NEW x \in CycleIds, inflight[s].status = "UP", active = x,
               cycle[x].subject = s, acked[x] = "Approved"
        PROVE  upSeen'[x] # "none"
    BY <1>2, <2>1, <2>4 DEF ObserveCommit
  <2>5. ASSUME NEW x \in CycleIds, outcomeCh'[x]
        PROVE  upSeen'[x] # "none"
    <3>1. CASE outcomeCh[x]
      BY <3>1, <2>2
    <3>2. CASE ~outcomeCh[x]
      BY <1>2, <2>4, <2>5, <3>2 DEF ObserveCommit, Watching, DispatchInv, Acting
    <3> QED
      BY <3>1, <3>2
  <2>6. ASSUME NEW x \in CycleIds, active' = x, acked'[x] = "Approved",
               lastUp'[cycle'[x].subject] = "fresh"
        PROVE  upSeen'[x] # "none"
    <3>1. active = x /\ cycle'[x] = cycle[x] /\ acked[x] = "Approved"
      BY <1>2, <2>6 DEF ObserveCommit, StartCycle, QuestionInv
    <3>2. cycle[x].subject \in Services
      BY <3>1 DEF FlightInv, SingleFlight
    <3>3. CASE inflight[s].status = "UP" /\ cycle[x].subject = s
      BY <2>4, <3>1, <3>3
    <3>4. CASE ~(inflight[s].status = "UP" /\ cycle[x].subject = s)
      BY <1>2, <2>2, <2>6, <3>1, <3>2, <3>4 DEF ObserveCommit
    <3> QED
      BY <3>3, <3>4
  <2>7. stored' = stored
    BY <1>2 DEF ObserveCommit
  <2> HIDE DEF TypeOK
  <2>8. ASSUME NEW x \in CycleIds, outcomeCh'[x] \/ pc'[x] = "persistAlreadyUp"
        PROVE  upSeen'[x] # "none"
    BY <2>2, <2>3, <2>5, <2>8
  <2>9. ASSUME NEW x \in CycleIds,
       cycle'[x].outcome = "recovered" \/ stored'[x].outcome = "recovered"
        PROVE  upSeen'[x] # "none"
    BY <2>2, <2>3, <2>7, <2>9
  <2> QED
    BY <2>6, <2>8, <2>9
<1>3. ASSUME NEW s \in Services, CooldownEnds(s)
      PROVE  RecoveryInv'
  BY <1>3 DEF CooldownEnds
<1>4. ASSUME NEW c \in CycleIds, PersistStep(c)
      PROVE  RecoveryInv'
  BY <1>4 DEF PersistStep, PersistThen, persist, Goto, Row
<1>5. ASSUME NEW c \in CycleIds, Diagnose(c)
      PROVE  RecoveryInv'
  <2>1. \A x \in CycleIds : /\ cycle'[x].subject = cycle[x].subject
                            /\ cycle'[x].outcome \in {cycle[x].outcome, "none"}
    BY <1>5 DEF Diagnose, ClosesUnasked
  <2> QED
    BY <1>5, <2>1 DEF Diagnose, Goto, ClosesUnasked
<1>6. ASSUME NEW c \in CycleIds, AskOperator(c)
      PROVE  RecoveryInv'
  BY <1>6 DEF AskOperator, Goto
<1>7. ASSUME NEW c \in CycleIds, ReceiveDecision(c)
      PROVE  RecoveryInv'
  BY <1>7 DEF ReceiveDecision, Settle, Goto
<1>8. ASSUME NEW c \in CycleIds, ApprovalTimeout(c)
      PROVE  RecoveryInv'
  BY <1>8 DEF ApprovalTimeout, Goto
<1>9. ASSUME NEW c \in CycleIds, ExpireApproval(c)
      PROVE  RecoveryInv'
  BY <1>9 DEF ExpireApproval, Settle, Goto, CloseQuestion
<1>10. ASSUME NEW c \in CycleIds, Dispatch(c)
      PROVE  RecoveryInv'
  <2>1. \A x \in CycleIds :
           /\ cycle'[x].subject = cycle[x].subject
           /\ cycle'[x].outcome \in {cycle[x].outcome, "pending", "dispatch_error"}
           /\ pc'[x] = "persistAlreadyUp" => pc[x] = "persistAlreadyUp"
    BY <1>10, DispatchEffect
  <2> QED
    BY <1>10, <2>1 DEF Dispatch, AfterDispatchErr
<1>11. ASSUME NEW c \in CycleIds, StartWatch(c)
      PROVE  RecoveryInv'
  <2>1. alreadyRecovered(c) => upSeen[c] # "none"
    BY <1>11 DEF StartWatch, alreadyRecovered, DispatchInv, Acting, FlightInv, SingleFlight
  <2> QED
    BY <1>11, <2>1 DEF StartWatch, Goto
<1>12. ASSUME NEW c \in CycleIds, PersistAlreadyUp(c)
      PROVE  RecoveryInv'
  <2>1. upSeen[c] # "none"
    BY <1>12 DEF PersistAlreadyUp
  <2> QED
    BY <1>12, <2>1 DEF PersistAlreadyUp, persist, Row, Goto
<1>13. ASSUME NEW c \in CycleIds, AwaitOutcome(c)
      PROVE  RecoveryInv'
  <2>1. \A x \in CycleIds : /\ cycle'[x].subject = cycle[x].subject
                            /\ (cycle'[x].outcome = cycle[x].outcome
                                  \/ (x = c /\ (outcomeCh[c] \/ cycle'[c].outcome = "action_failed")))
    BY <1>13 DEF AwaitOutcome
  <2>2. \A x \in CycleIds : outcomeCh'[x] => outcomeCh[x]
    BY <1>13 DEF AwaitOutcome
  <2> QED
    BY <1>13, <2>1, <2>2 DEF AwaitOutcome, Goto
<1>14. ASSUME NEW c \in CycleIds, Resolve(c)
      PROVE  RecoveryInv'
  BY <1>14 DEF Resolve, Goto
<1>15. ASSUME NEW c \in CycleIds, EnterCooldown(c)
      PROVE  RecoveryInv'
  BY <1>15 DEF EnterCooldown, Goto
<1>16. ASSUME NEW c \in CycleIds, Return(c)
      PROVE  RecoveryInv'
  BY <1>16, NoneAssumption DEF Return, NoCycle, Goto
<1>17. ASSUME NEW r \in Requests, NEW c \in CycleIds, NEW d \in Decision,
     CheckIncident(r, c, d)
      PROVE  RecoveryInv'
  BY <1>17 DEF CheckIncident
<1>18. ASSUME NEW r \in Requests, RefuseDecision(r)
      PROVE  RecoveryInv'
  BY <1>18 DEF RefuseDecision, NoRequest
<1>19. ASSUME NEW r \in Requests, DecideUnsaved(r)
      PROVE  RecoveryInv'
  BY <1>19 DEF DecideUnsaved, NoRequest
<1>20. ASSUME NEW r \in Requests, Decide(r)
      PROVE  RecoveryInv'
  <2>1. request[r].id \in CycleIds
    BY <1>20 DEF Decide, QuestionInv, CloseQuestion
  <2>2. \A x \in CycleIds : stored'[x].outcome \in {stored[x].outcome, cycle[x].outcome}
    BY <1>20, <2>1 DEF Decide, CloseQuestion
  <2>3. \A x \in Services : lastUp'[x] # "fresh"
    BY <1>20 DEF Decide, AgeStamps, CloseQuestion
  <2>4. \A x \in CycleIds : active' = x => cycle'[x].subject \in Services
    BY <1>20 DEF Decide, FlightInv, SingleFlight, CloseQuestion
  <2> QED
    BY <1>20, <2>2, <2>3, <2>4 DEF Decide, CloseQuestion
<1>21. ASSUME NEW r \in Requests, SendDecision(r)
      PROVE  RecoveryInv'
  BY <1>21 DEF SendDecision, NoRequest
<1>22. CASE Halt
  BY <1>22 DEF Halt
<1>23. CASE Rearm
  BY <1>23 DEF Rearm
<1>24. CASE Crash
  BY <1>24, NoneAssumption DEF Crash, NoCycle
<1>25. ASSUME NEW c \in CycleIds, ReconcileRow(c)
      PROVE  RecoveryInv'
  BY <1>25 DEF ReconcileRow, Reconciled
<1>26. CASE StartSpine
  BY <1>26 DEF StartSpine
<1>27. CASE UNCHANGED vars
  BY <1>27 DEF vars
<1> QED
  BY <1>1, <1>2, <1>3, <1>4, <1>5, <1>6, <1>7, <1>8, <1>9, <1>10, <1>11, <1>12, <1>13,
       <1>14, <1>15, <1>16, <1>17, <1>18, <1>19, <1>20, <1>21, <1>22, <1>23, <1>24,
            <1>25, <1>26, <1>27 DEF Next, runCycle, Operator, Reconcile

\* Every step keeps the rows settled: the last write of a cycle comes before
\* its return, and the only row that is rewritten later is a dead one's.
LEMMA SettledStep ==
    ASSUME IInv, TypeOK', [Next]_vars
    PROVE  SettledInv'
<1> TypeOK /\ FlightInv /\ QuestionInv /\ RowInv /\ SettledInv
  BY DEF IInv
<1> USE DEF memory, locals, TypeOK, FlightInv, SingleFlight, SettledInv, Settled, Closing, CycleRec,
            Running, Unasked, Deciding, Listening, Dispatched
<1>1. ASSUME NEW s \in Services, NEW st \in Status, Commit(s, st)
      PROVE  SettledInv'
  BY <1>1 DEF Commit
<1>2. ASSUME NEW s \in Services, ObserveCommit(s)
      PROVE  SettledInv'
  <2>1. \A x \in CycleIds : /\ cycle'[x].outcome = cycle[x].outcome
                            /\ (pc'[x] = pc[x] \/ (pc[x] = "new" /\ pc'[x] = "persistStart"))
    BY <1>2, ObserveEffect
  <2>2. stored' = stored /\ storeFailures' = storeFailures /\ phase' = phase
    BY <1>2 DEF ObserveCommit
  <2>3. active' = active \/ active = None
    BY <1>2 DEF ObserveCommit, Triggers
  <2> QED
    BY <2>1, <2>2, <2>3, NoneAssumption
<1>3. ASSUME NEW s \in Services, CooldownEnds(s)
      PROVE  SettledInv'
  BY <1>3 DEF CooldownEnds
<1>4. ASSUME NEW c \in CycleIds, PersistStep(c)
      PROVE  SettledInv'
  <2>1. active = c /\ active' = active /\ phase' = phase /\ cycle' = cycle
    BY <1>4 DEF PersistStep, PersistThen
  <2>2. persist(c, Row(c)) /\ \A x \in CycleIds \ {c} : pc'[x] = pc[x]
    BY <1>4 DEF PersistStep, PersistThen, Goto
  <2>3. \A x \in CycleIds \ {c} : stored'[x] = stored[x]
    BY <2>2 DEF persist
  <2>4. storeFailures' = 0 => storeFailures = 0 /\ stored'[c] = Row(c)
    BY <2>2, BoundsAssumption DEF persist
  <2>5. /\ pc'[c] \notin Closing
        /\ pc'[c] \in {"cool", "return"} => pc[c] \in Closing
    BY <1>4 DEF PersistStep, PersistThen, Goto
  <2>6. pc[c] \in Closing => Settled(Row(c))
    BY DEF Row, RowInv, Resolved
  <2> HIDE DEF Settled, Closing
  <2> QED
    BY <2>1, <2>2, <2>3, <2>4, <2>5, <2>6
<1>5. ASSUME NEW c \in CycleIds, Diagnose(c)
      PROVE  SettledInv'
  BY <1>5 DEF Diagnose, Goto, ClosesUnasked, Resolved
<1>6. ASSUME NEW c \in CycleIds, AskOperator(c)
      PROVE  SettledInv'
  BY <1>6 DEF AskOperator, Goto
<1>7. ASSUME NEW c \in CycleIds, ReceiveDecision(c)
      PROVE  SettledInv'
  BY <1>7 DEF ReceiveDecision, Settle, Goto, Resolved
<1>8. ASSUME NEW c \in CycleIds, ApprovalTimeout(c)
      PROVE  SettledInv'
  BY <1>8 DEF ApprovalTimeout, Goto
<1>9. ASSUME NEW c \in CycleIds, ExpireApproval(c)
      PROVE  SettledInv'
  BY <1>9 DEF ExpireApproval, Settle, Goto, CloseQuestion, Resolved
<1>10. ASSUME NEW c \in CycleIds, Dispatch(c)
      PROVE  SettledInv'
  <2>1. \A x \in CycleIds \ {c} : pc'[x] = pc[x] /\ cycle'[x] = cycle[x]
    BY <1>10, DispatchEffect
  <2>2. \/ pc'[c] = "watch"
        \/ pc'[c] = "persistDispatchErr" /\ cycle'[c].outcome = "dispatch_error"
    BY <1>10, DispatchEffect
  <2>3. stored' = stored /\ storeFailures' = storeFailures /\ phase' = phase /\ active' = active
    BY <1>10 DEF Dispatch, AfterDispatchErr
  <2> QED
    BY <2>1, <2>2, <2>3 DEF Resolved
<1>11. ASSUME NEW c \in CycleIds, StartWatch(c)
      PROVE  SettledInv'
  BY <1>11 DEF StartWatch, Goto
<1>12. ASSUME NEW c \in CycleIds, PersistAlreadyUp(c)
      PROVE  SettledInv'
  <2>1. active = c /\ active' = active /\ phase' = phase
    BY <1>12 DEF PersistAlreadyUp
  <2>2. persist(c, Row(c)) /\ \A x \in CycleIds \ {c} : pc'[x] = pc[x] /\ cycle'[x] = cycle[x]
    BY <1>12 DEF PersistAlreadyUp, Goto
  <2>3. \A x \in CycleIds \ {c} : stored'[x] = stored[x]
    BY <2>2 DEF persist
  <2>4. storeFailures' = 0 => storeFailures = 0
    BY <2>2, BoundsAssumption DEF persist
  <2>5. pc'[c] = "resolve" /\ cycle'[c].outcome \in Resolved
    BY <1>12 DEF PersistAlreadyUp, Goto, Resolved
  <2> HIDE DEF Settled
  <2> QED
    BY <2>1, <2>2, <2>3, <2>4, <2>5
<1>13. ASSUME NEW c \in CycleIds, AwaitOutcome(c)
      PROVE  SettledInv'
  BY <1>13 DEF AwaitOutcome, Goto, Resolved
<1>14. ASSUME NEW c \in CycleIds, Resolve(c)
      PROVE  SettledInv'
  BY <1>14 DEF Resolve, Goto
<1>15. ASSUME NEW c \in CycleIds, EnterCooldown(c)
      PROVE  SettledInv'
  BY <1>15 DEF EnterCooldown, Goto
<1>16. ASSUME NEW c \in CycleIds, Return(c)
      PROVE  SettledInv'
  BY <1>16 DEF Return, Goto
<1>17. ASSUME NEW r \in Requests, Operator(r)
      PROVE  SettledInv'
  <2>1. /\ UNCHANGED <<pc, cycle, active, phase>>
        /\ storeFailures' = 0 => storeFailures = 0
    BY <1>17, BoundsAssumption DEF Operator, CheckIncident, RefuseDecision, DecideUnsaved, Decide, SendDecision,
                 CloseQuestion
  <2>2. CASE UNCHANGED stored
    BY <2>1, <2>2
  <2>3. CASE Decide(r)
    <3>1. request[r].id \in CycleIds /\ active = request[r].id /\ pc[request[r].id] \in Deciding
      BY <2>3 DEF Decide, Undecidable, QuestionInv, CloseQuestion
    <3>2. \A x \in CycleIds \ {request[r].id} : stored'[x] = stored[x]
      BY <2>3 DEF Decide, CloseQuestion
    <3> QED
      BY <2>1, <3>1, <3>2
  <2>4. UNCHANGED stored \/ Decide(r)
    BY <1>17 DEF Operator, CheckIncident, RefuseDecision, DecideUnsaved, SendDecision
  <2> QED
    BY <2>2, <2>3, <2>4
<1>18. CASE Halt
  BY <1>18 DEF Halt
<1>19. CASE Rearm
  BY <1>19 DEF Rearm
<1>20. CASE Crash
  BY <1>20 DEF Crash
<1>21. ASSUME NEW c \in CycleIds, ReconcileRow(c)
      PROVE  SettledInv'
  <2>1. pc[c] \notin Running
    BY <1>21, NoneAssumption DEF ReconcileRow
  <2> QED
    BY <1>21, <2>1 DEF ReconcileRow
<1>22. CASE StartSpine
  <2>1. ASSUME NEW c \in CycleIds
        PROVE  Settled(stored[c])
    BY <1>22 DEF StartSpine, Reconciled, StoredRow
  <2> QED
    BY <1>22, <2>1 DEF StartSpine
<1>23. CASE UNCHANGED vars
  BY <1>23 DEF vars
<1> QED
  BY <1>1, <1>2, <1>3, <1>4, <1>5, <1>6, <1>7, <1>8, <1>9, <1>10, <1>11, <1>12, <1>13,
     <1>14, <1>15, <1>16, <1>17, <1>18, <1>19, <1>20, <1>21, <1>22, <1>23
     DEF Next, runCycle, Reconcile
\* RecordInv for one cycle.
RecordOK(c) ==
    /\ \A a \in {stored[c].approval, cycle[c].approval} :
          /\ a \in Decision => acked[c] = a
          /\ acked[c] # "none" => a \in {acked[c], "Expired", "Pending"}
    /\ pc[c] \in (Unasked \ {"persistClosed"}) \cup Deciding \cup {"new"} =>
          cycle[c].approval = "Pending"

\* Every step keeps the copies of a decision in agreement with what was
\* recorded: a write copies the cycle into the row, Settle the channel or the
\* timer's verdict into the cycle, and Decide records while nothing was.
LEMMA RecordStep ==
    ASSUME IInv, TypeOK', [Next]_vars
    PROVE  RecordInv'
<1> TypeOK /\ FlightInv /\ QuestionInv /\ RecordInv
  BY DEF IInv
<1> USE DEF memory, locals, history, TypeOK, RecordInv, CycleRec, StoredRow, Decision,
            Running, Unasked, Deciding, Listening, Dispatched
<1>1. ASSUME NEW s \in Services, ObserveCommit(s)
      PROVE  RecordInv'
  <2>1. \A x \in CycleIds : /\ cycle'[x].approval = cycle[x].approval
                            /\ (pc'[x] = pc[x] \/ (pc[x] = "new" /\ pc'[x] = "persistStart"))
    BY <1>1, ObserveEffect
  <2>2. stored' = stored /\ acked' = acked
    BY <1>1 DEF ObserveCommit
  <2> QED
    BY <2>1, <2>2
<1>2. ASSUME NEW c \in CycleIds, PersistStep(c) \/ PersistAlreadyUp(c)
      PROVE  RecordInv'
  <2>1. persist(c, Row(c)) /\ acked' = acked
    BY <1>2 DEF PersistStep, PersistThen, PersistAlreadyUp
  <2>2. \A x \in CycleIds : stored'[x].approval \in {stored[x].approval, cycle[x].approval}
    BY <2>1 DEF persist, Row
  <2>3. \A x \in CycleIds : cycle'[x].approval = cycle[x].approval
    BY <1>2 DEF PersistStep, PersistThen, PersistAlreadyUp
  <2>4. \A x \in CycleIds : pc'[x] \in (Unasked \ {"persistClosed"}) \cup Deciding \cup {"new"} =>
           pc[x] \in (Unasked \ {"persistClosed"}) \cup Deciding \cup {"new"}
    BY <1>2 DEF PersistStep, PersistThen, PersistAlreadyUp, Goto
  <2> QED
    BY <2>1, <2>2, <2>3, <2>4
<1>3. ASSUME NEW c \in CycleIds, Diagnose(c)
      PROVE  RecordInv'
  <2>1. acked[c] = "none" /\ acked' = acked /\ stored' = stored
    BY <1>3 DEF Diagnose, QuestionInv, ClosesUnasked
  <2>2. \A x \in CycleIds \ {c} : cycle'[x] = cycle[x] /\ pc'[x] = pc[x]
    BY <1>3 DEF Diagnose, Goto, ClosesUnasked
  <2>3. \/ pc'[c] = "persistClosed" /\ cycle'[c].approval = "NotRequested"
        \/ pc'[c] = "ask" /\ cycle'[c].approval = cycle[c].approval
    BY <1>3 DEF Diagnose, Goto, ClosesUnasked
  <2>4. pc[c] = "diagnose"
    BY <1>3 DEF Diagnose
  <2>5. RecordOK(c)'
    BY <2>1, <2>3, <2>4 DEF RecordOK
  <2>6. ASSUME NEW x \in CycleIds \ {c}
        PROVE  RecordOK(x)'
    BY <2>1, <2>2 DEF RecordOK
  <2> QED
    BY <2>5, <2>6 DEF RecordOK
<1>4. ASSUME NEW c \in CycleIds, ReceiveDecision(c)
      PROVE  RecordInv'
  <2>1. decisionCh[c] = acked[c] /\ acked' = acked /\ stored' = stored
    BY <1>4 DEF ReceiveDecision, QuestionInv
  <2> QED
    BY <1>4, <2>1 DEF ReceiveDecision, Settle, Goto
<1>5. ASSUME NEW c \in CycleIds, ExpireApproval(c)
      PROVE  RecordInv'
  BY <1>5 DEF ExpireApproval, Settle, Goto, CloseQuestion
<1>6. ASSUME NEW c \in CycleIds, Dispatch(c)
      PROVE  RecordInv'
  <2>1. \A x \in CycleIds \ {c} : pc'[x] = pc[x] /\ cycle'[x] = cycle[x]
    BY <1>6, DispatchEffect
  <2>2. pc'[c] \in {"watch", "persistDispatchErr"} /\ cycle'[c].approval = cycle[c].approval
    BY <1>6, DispatchEffect
  <2>3. acked' = acked /\ stored' = stored
    BY <1>6 DEF Dispatch, AfterDispatchErr
  <2>5. RecordOK(c)'
    BY <2>2, <2>3 DEF RecordOK
  <2>6. ASSUME NEW x \in CycleIds \ {c}
        PROVE  RecordOK(x)'
    BY <2>1, <2>3 DEF RecordOK
  <2> QED
    BY <2>5, <2>6 DEF RecordOK
<1>7. ASSUME NEW c \in CycleIds,
             \/ AskOperator(c) \/ ApprovalTimeout(c) \/ StartWatch(c) \/ Resolve(c) \/ EnterCooldown(c)
      PROVE  RecordInv'
  <2>1. UNCHANGED <<cycle, stored, acked>>
    BY <1>7 DEF AskOperator, ApprovalTimeout, StartWatch, Resolve, EnterCooldown
  <2>2. \A x \in CycleIds \ {c} : pc'[x] = pc[x]
    BY <1>7 DEF AskOperator, ApprovalTimeout, StartWatch, Resolve, EnterCooldown, Goto
  <2>3. \/ pc[c] \in {"ask", "waitApproval"}
        \/ pc'[c] \in {"persistAlreadyUp", "persistWatch", "persistOutcome", "return"}
    BY <1>7 DEF AskOperator, ApprovalTimeout, StartWatch, Resolve, EnterCooldown, Goto
  <2>4. RecordOK(c)'
    BY <2>1, <2>3 DEF RecordOK
  <2>5. ASSUME NEW x \in CycleIds \ {c}
        PROVE  RecordOK(x)'
    BY <2>1, <2>2 DEF RecordOK
  <2> QED
    BY <2>4, <2>5 DEF RecordOK
<1>8. ASSUME NEW c \in CycleIds, AwaitOutcome(c)
      PROVE  RecordInv'
  BY <1>8 DEF AwaitOutcome, Goto
<1>9. ASSUME NEW c \in CycleIds, Return(c)
      PROVE  RecordInv'
  BY <1>9 DEF Return, Goto, NoCycle
<1>10. ASSUME NEW r \in Requests, Decide(r)
      PROVE  RecordInv'
  <2>0. PICK c \in CycleIds, d \in Decision : c = request[r].id /\ d = request[r].decision
    BY <1>10 DEF Decide, QuestionInv, RequestRec
  <2>1. pc[c] \in Deciding
    BY <1>10, <2>0 DEF Decide, Undecidable, QuestionInv
  <2>2. /\ acked'[c] = d /\ stored'[c].approval = d
        /\ \A x \in CycleIds \ {c} : acked'[x] = acked[x] /\ stored'[x] = stored[x]
        /\ UNCHANGED <<pc, cycle>>
    BY <1>10, <2>0 DEF Decide, CloseQuestion
  <2>3. cycle[c].approval = "Pending"
    BY <2>1
  <2>4. RecordOK(c)'
    BY <2>1, <2>2, <2>3 DEF RecordOK
  <2>5. ASSUME NEW x \in CycleIds \ {c}
        PROVE  RecordOK(x)'
    BY <2>2 DEF RecordOK
  <2> QED
    BY <2>4, <2>5 DEF RecordOK
<1>11. CASE Crash
  BY <1>11 DEF Crash, NoCycle
<1>12. ASSUME NEW c \in CycleIds, ReconcileRow(c)
      PROVE  RecordInv'
  <2>1. \A x \in CycleIds : stored'[x].approval \in {stored[x].approval, "Expired"}
    BY <1>12 DEF ReconcileRow, Reconciled
  <2>2. UNCHANGED <<pc, cycle, acked>>
    BY <1>12 DEF ReconcileRow
  <2> QED
    BY <2>1, <2>2
<1>13. CASE UNCHANGED <<pc, cycle, stored, acked>>
  BY <1>13
<1>14. \/ UNCHANGED <<pc, cycle, stored, acked>>
       \/ Crash
       \/ \E s \in Services : ObserveCommit(s)
       \/ \E r \in Requests : Decide(r)
       \/ \E c \in CycleIds : runCycle(c) \/ ReconcileRow(c)
  BY DEF Next, Operator, Reconcile, vars, Commit, CooldownEnds, CheckIncident, RefuseDecision,
         DecideUnsaved, SendDecision, Halt, Rearm, StartSpine
<1> QED
  BY <1>1, <1>2, <1>3, <1>4, <1>5, <1>6, <1>7, <1>8, <1>9, <1>10, <1>11, <1>12, <1>13, <1>14
     DEF runCycle
-----------------------------------------------------------------------------
\* Every initial state satisfies the inductive invariant.
LEMMA InitInv ==
    ASSUME Init
    PROVE  IInv
<1>1. TypeOK
  <2>1. NoCommit \in CommitRec /\ NoRequest \in RequestRec
    BY DEF NoCommit, NoRequest, CommitRec, RequestRec, Stamp, Decision
  <2>2. NoCycle \in CycleRec /\ NoRow \in StoredRow
    BY DEF NoCycle, NoRow, CycleRec, StoredRow, Approval, Outcome
  <2>3. storeFailures \in 0..MaxStoreFailures /\ crashes \in 0..MaxCrashes
    BY BoundsAssumption DEF Init
  <2>4. inflight \in [Services -> CommitRec] /\ request \in [Requests -> RequestRec]
    BY <2>1 DEF Init
  <2>5. cycle \in [CycleIds -> CycleRec] /\ stored \in [CycleIds -> StoredRow]
    BY <2>2 DEF Init
  <2> QED
    BY <2>3, <2>4, <2>5 DEF Init, TypeOK
<1>2. FlightInv
  BY NoneAssumption
     DEF Init, FlightInv, SingleFlight, Running, Unasked, Deciding, Listening, Dispatched
<1>3. QuestionInv
  BY DEF Init, QuestionInv, NoRequest
<1>4. DispatchInv
  BY DEF Init, DispatchInv, Asked, Acting, Deciding, Listening, Dispatched
<1>5. RecoveryInv
  BY NoneAssumption DEF Init, RecoveryInv, NoCycle, NoRow
<1>6. RowInv
  BY DEF Init, RowInv, NoCycle, NoRow, Asked, Acting, Deciding, Listening, Dispatched,
       Resolved
<1>7. SettledInv
  BY DEF Init, SettledInv, Settled, Closing, NoRow
<1>8. RecordInv
  BY DEF Init, RecordInv, NoCycle, NoRow, Decision
<1> QED
  BY <1>1, <1>2, <1>3, <1>4, <1>5, <1>6, <1>7, <1>8 DEF IInv

\* No step rewrites a row whose outcome is resolved.
LEMMA FinalRowStep ==
    ASSUME IInv, [Next]_vars, NEW x \in CycleIds, stored[x].outcome \in Resolved
    PROVE  stored'[x] = stored[x]
<1> TypeOK /\ QuestionInv /\ RowInv
  BY DEF IInv
<1>1. stored[x].approval # "Pending" /\ pc[x] \in {"cool", "return", "done"}
  BY DEF RowInv
<1>2. ASSUME NEW c \in CycleIds, PersistStep(c) \/ PersistAlreadyUp(c)
      PROVE  stored'[x] = stored[x]
  <2>1. pc[c] \notin {"cool", "return", "done"}
    BY <1>2 DEF PersistStep, PersistThen, PersistAlreadyUp
  <2>2. persist(c, Row(c))
    BY <1>2 DEF PersistStep, PersistThen, PersistAlreadyUp
  <2> QED
    BY <1>1, <2>1, <2>2 DEF persist, TypeOK
<1>3. ASSUME NEW r \in Requests, Decide(r)
      PROVE  stored'[x] = stored[x]
  BY <1>1, <1>3 DEF Decide, Undecidable, QuestionInv, Deciding, TypeOK, CloseQuestion
<1>4. ASSUME NEW c \in CycleIds, ReconcileRow(c)
      PROVE  stored'[x] = stored[x]
  <2>1. Reconciled(stored[x]) = stored[x]
    BY <1>1 DEF Reconciled, Resolved
  <2> QED
    BY <1>4, <2>1 DEF ReconcileRow, TypeOK
<1>5. \/ UNCHANGED stored
      \/ \E c \in CycleIds : PersistStep(c) \/ PersistAlreadyUp(c) \/ ReconcileRow(c)
      \/ \E r \in Requests : Decide(r)
  BY DEF Next, runCycle, Operator, Reconcile, vars, Commit, ObserveCommit, CooldownEnds,
         Diagnose, AskOperator, ReceiveDecision, ApprovalTimeout, ExpireApproval, Dispatch,
         StartWatch, AwaitOutcome, Resolve, EnterCooldown, Return, CheckIncident,
         RefuseDecision, DecideUnsaved, SendDecision, Halt, Rearm, Crash, StartSpine, CloseQuestion, AfterDispatchErr, ClosesUnasked
<1> QED
  BY <1>2, <1>3, <1>4, <1>5

\* No step replaces a recorded decision.
LEMMA OneDecisionStep ==
    ASSUME IInv, [Next]_vars, NEW x \in CycleIds, acked[x] # "none"
    PROVE  acked'[x] = acked[x]
<1>1. ASSUME NEW r \in Requests, Decide(r)
      PROVE  acked'[x] = acked[x]
  BY <1>1 DEF Decide, Undecidable, IInv, QuestionInv, TypeOK, CloseQuestion
<1>2. UNCHANGED acked \/ \E r \in Requests : Decide(r)
  BY DEF Next, runCycle, Operator, Reconcile, vars, history, Commit, ObserveCommit,
       CooldownEnds,
         PersistStep, PersistThen, PersistAlreadyUp, ReconcileRow,
         Diagnose, AskOperator, ReceiveDecision, ApprovalTimeout, ExpireApproval, Dispatch,
         StartWatch, AwaitOutcome, Resolve, EnterCooldown, Return, CheckIncident,
         RefuseDecision, DecideUnsaved, SendDecision, Halt, Rearm, Crash, StartSpine, CloseQuestion, AfterDispatchErr, ClosesUnasked
<1> QED
  BY <1>1, <1>2

\* The initial states map to the initial state of OperatorGate.
LEMMA GateInit ==
    ASSUME Init
    PROVE  Gate!Init
  BY DEF Init, Gate!Init, Running, Unasked, Deciding, Listening, Dispatched

\* The incidents that are open, as OperatorGate sees them.
OpenIds == {c \in CycleIds : pc[c] \in Running}
OpenedIds == {c \in CycleIds : pc[c] # "new"}

\* Every step maps to a step of OperatorGate or to a stutter: starting a cycle
\* opens, Decide answers, Dispatch acts, Return and Crash close.
LEMMA GateStep ==
    ASSUME IInv, IInv', [Next]_vars
    PROVE  [Gate!Next]_(Gate!gateVars)
<1> TypeOK /\ SingleFlight /\ SingleFlight'
  BY DEF IInv, FlightInv
<1> SUFFICES ASSUME ~(UNCHANGED <<OpenedIds, OpenIds, acked, fired>>)
             PROVE  Gate!Next
  BY DEF Gate!gateVars, OpenIds, OpenedIds
<1>1. ASSUME NEW s \in Services, ObserveCommit(s)
      PROVE  Gate!Next
  <2>1. Triggers(s)
    BY <1>1 DEF ObserveCommit, OpenIds, OpenedIds
  <2>2. PICK c \in CycleIds : StartCycle(c, s)
    BY <1>1, <2>1 DEF ObserveCommit
  <2>3. OpenIds = {} /\ c \notin OpenedIds
    BY <2>1, <2>2, NoneAssumption DEF Triggers, StartCycle, SingleFlight, OpenIds, OpenedIds
  <2>4. OpenedIds' = OpenedIds \cup {c} /\ OpenIds' = {c}
    BY <2>2, <2>3 DEF StartCycle, OpenIds, OpenedIds, TypeOK, Running, Unasked
  <2>5. UNCHANGED <<acked, fired>>
    BY <1>1 DEF ObserveCommit
  <2> QED
    BY <2>3, <2>4, <2>5 DEF Gate!Next, Gate!Open, OpenIds, OpenedIds
<1>2. ASSUME NEW r \in Requests, Decide(r)
      PROVE  Gate!Next
  <2> DEFINE c == request[r].id
  <2>1. c \in CycleIds /\ c \in OpenIds /\ acked[c] = "none"
    BY <1>2 DEF Decide, Undecidable, IInv, QuestionInv, OpenIds, Running, CloseQuestion
  <2>2. request[r].decision \in {"Approved", "Denied"}
    BY DEF TypeOK, RequestRec, Decision
  <2>3. acked' = [acked EXCEPT ![c] = request[r].decision] /\ UNCHANGED <<pc, fired>>
    BY <1>2 DEF Decide, CloseQuestion
  <2> HIDE DEF c
  <2> QED
    BY <2>1, <2>2, <2>3 DEF Gate!Next, Gate!Answer, OpenIds
<1>3. ASSUME NEW c \in CycleIds, Dispatch(c)
      PROVE  Gate!Next
  <2>1. c \in OpenIds /\ acked[c] = "Approved" /\ fired[c] = 0
    BY <1>3 DEF Dispatch, IInv, DispatchInv, Asked, Acting, OpenIds, Running, AfterDispatchErr
  <2>2. UNCHANGED <<OpenIds, OpenedIds>>
    BY <1>3 DEF Dispatch, Goto, OpenIds, OpenedIds, TypeOK, Running, Dispatched, AfterDispatchErr
  <2>3. fired' = [fired EXCEPT ![c] = 1] /\ UNCHANGED acked
    BY <1>3, <2>1 DEF Dispatch, AfterDispatchErr
  <2> QED
    BY <2>1, <2>2, <2>3 DEF Gate!Next, Gate!Act, OpenIds, OpenedIds
<1>4. ASSUME NEW c \in CycleIds, Return(c)
      PROVE  Gate!Next
  <2>1. c \in OpenIds /\ OpenIds' = {}
    BY <1>4, NoneAssumption DEF Return, OpenIds, SingleFlight, Running
  <2>2. UNCHANGED <<OpenedIds, acked, fired>>
    BY <1>4 DEF Return, Goto, OpenedIds, TypeOK, history
  <2> QED
    BY <2>1, <2>2 DEF Gate!Next, Gate!Close, OpenIds, OpenedIds
<1>5. CASE Crash
  <2>1. OpenIds' = {}
    BY <1>5, NoneAssumption DEF Crash, OpenIds, SingleFlight
  <2>2. UNCHANGED <<OpenedIds, acked, fired>>
    BY <1>5 DEF Crash, OpenedIds, TypeOK, history, Running, Unasked, Deciding, Listening,
         Dispatched
  <2>3. OpenIds # {}
    BY <2>1, <2>2
  <2> QED
    BY <2>1, <2>2, <2>3 DEF Gate!Next, Gate!Close, OpenIds, OpenedIds
<1>6. ASSUME NEW c \in CycleIds,
             \/ PersistStep(c) \/ Diagnose(c) \/ AskOperator(c) \/ ReceiveDecision(c)
             \/ ApprovalTimeout(c) \/ ExpireApproval(c) \/ StartWatch(c)
             \/ PersistAlreadyUp(c) \/ AwaitOutcome(c) \/ Resolve(c) \/ EnterCooldown(c)
      PROVE  FALSE
  <2>1. UNCHANGED <<acked, fired>>
    BY <1>6 DEF PersistStep, PersistThen, Diagnose, AskOperator, ReceiveDecision,
                ApprovalTimeout, ExpireApproval, StartWatch, PersistAlreadyUp,
                AwaitOutcome, Resolve, EnterCooldown, history, CloseQuestion, ClosesUnasked
  <2>2. PICK to \in Running : pc' = [pc EXCEPT ![c] = to]
    <3> USE DEF Goto, Running, Unasked, Deciding, Listening, Dispatched
    <3>1. CASE PersistStep(c)
      BY <3>1 DEF PersistStep, PersistThen
    <3>2. CASE Diagnose(c)
      BY <3>2 DEF Diagnose, ClosesUnasked
    <3>3. CASE ReceiveDecision(c) \/ ExpireApproval(c)
      BY <3>3 DEF ReceiveDecision, ExpireApproval, Settle, CloseQuestion
    <3>4. CASE StartWatch(c)
      BY <3>4 DEF StartWatch
    <3> QED
      BY <1>6, <3>1, <3>2, <3>3, <3>4
         DEF AskOperator, ApprovalTimeout, PersistAlreadyUp, AwaitOutcome, Resolve,
              EnterCooldown
  <2>3. pc[c] \in Running
    BY <1>6 DEF PersistStep, PersistThen, Diagnose, AskOperator, ReceiveDecision,
                ApprovalTimeout, ExpireApproval, StartWatch, PersistAlreadyUp,
                AwaitOutcome, Resolve, EnterCooldown,
                Running, Unasked, Deciding, Listening, Dispatched, CloseQuestion, ClosesUnasked
  <2>4. "new" \notin Running
    BY DEF Running, Unasked, Deciding, Listening, Dispatched
  <2>5. UNCHANGED <<OpenIds, OpenedIds>>
    BY <2>2, <2>3, <2>4 DEF OpenIds, OpenedIds, TypeOK
  <2> QED
    BY <2>1, <2>5
<1>7. \/ UNCHANGED <<pc, acked, fired>>
      \/ Crash
      \/ \E s \in Services : ObserveCommit(s)
      \/ \E r \in Requests : Decide(r)
      \/ \E c \in CycleIds : runCycle(c)
  BY DEF Next, Operator, Reconcile, vars, locals, history, Commit, CooldownEnds,
         CheckIncident, RefuseDecision, DecideUnsaved, SendDecision, Halt, Rearm,
         ReconcileRow, StartSpine
<1>8. ~(UNCHANGED <<pc, acked, fired>>)
  BY DEF OpenIds, OpenedIds
<1> QED
  BY <1>1, <1>2, <1>3, <1>4, <1>5, <1>6, <1>7, <1>8 DEF runCycle

-----------------------------------------------------------------------------
(***************************************************************************)
(* The theorems.                                                           *)
(***************************************************************************)

\* IInv holds in every reachable state, for every set of services, ids and
\* requests, every mode and every bound on failures and crashes.
THEOREM InductiveInvariant == Spec => []IInv
<1>1. Init => IInv
  BY InitInv
<1>2. IInv /\ [Next]_vars => IInv'
  <2> SUFFICES ASSUME IInv, [Next]_vars
               PROVE  IInv'
    OBVIOUS
  <2>1. TypeOK'
    BY TypeStep
  <2> QED
    BY <2>1, FlightStep, QuestionStep, DispatchStep, RecoveryStep, RowStep, SettledStep,
       RecordStep DEF IInv
<1> QED
  BY <1>1, <1>2, PTL DEF Spec

\* The engine's memory, goroutines and table keep their types.
THEOREM TypeCorrect == Spec => []TypeOK
<1>1. IInv => TypeOK
  BY DEF IInv
<1> QED
  BY <1>1, InductiveInvariant, PTL

\* At most one runCycle goroutine exists at any time, and Harness.active
\* names it.
THEOREM SingleFlightHolds == Spec => []SingleFlight
<1>1. IInv => SingleFlight
  BY DEF IInv, FlightInv
<1> QED
  BY <1>1, InductiveInvariant, PTL

\* The Actuator is called only in live mode, for an allowlisted container,
\* after an Approve for that very incident was recorded in the Store.
THEOREM OperatorGateHolds == Spec => []ApprovedBeforeDispatch
<1>1. IInv => ApprovedBeforeDispatch
  BY DEF IInv, DispatchInv, ApprovedBeforeDispatch, Asked
<1> QED
  BY <1>1, InductiveInvariant, PTL

\* No incident reaches the Actuator twice, crashes included.
THEOREM DispatchOnce == Spec => []DispatchAtMostOnce
<1>1. IInv => DispatchAtMostOnce
  BY DEF IInv, DispatchInv, DispatchAtMostOnce
<1> QED
  BY <1>1, InductiveInvariant, PTL

\* A row says recovered only if the spine delivered an UP of its subject
\* after the approval was recorded.
THEOREM RecoveryHolds == Spec => []RecoveredSawUp
<1>1. IInv => RecoveredSawUp
  BY DEF IInv, RecoveryInv, RecoveredSawUp
<1> QED
  BY <1>1, InductiveInvariant, PTL

\* At most one Approve or Deny per incident succeeds.
THEOREM DecisionOnce == Spec => OneDecision
<1>1. IInv /\ [Next]_vars =>
        [\A c \in CycleIds : acked[c] # "none" => acked'[c] = acked[c]]_acked
  BY OneDecisionStep
<1> QED
  BY <1>1, InductiveInvariant, PTL DEF Spec, OneDecision

\* A row with a resolved outcome never changes again.
THEOREM FinalRows == Spec => TerminalIsFinal
<1>1. IInv /\ [Next]_vars =>
        [\A c \in CycleIds :
            stored[c].outcome \in Resolved => stored'[c] = stored[c]]_stored
  BY FinalRowStep
<1> QED
  BY <1>1, InductiveInvariant, PTL DEF Spec, TerminalIsFinal

\* While the Store works, an incident that nobody works on any more is
\* settled, whether its goroutine returned or its process died.
THEOREM NoOrphans == Spec => []NoOrphanPending
<1>1. IInv => NoOrphanPending
  BY DEF IInv, SettledInv, Settled, NoOrphanPending
<1> QED
  BY <1>1, InductiveInvariant, PTL

\* A row shows an answer only if that answer succeeded, and while the Store
\* works an answer that succeeded stays on the row of an incident that is over,
\* unless the timer or a crash made it Expired.
THEOREM DecisionsAreOnRecord == Spec => []DecisionOnRecord
<1>1. IInv => DecisionOnRecord
  BY DEF IInv, RecordInv, SettledInv, Settled, DecisionOnRecord
<1> QED
  BY <1>1, InductiveInvariant, PTL

\* The engine implements OperatorGate under the mapping of HarnessProperties.
THEOREM GateRefinement == Spec => ImplementsGate
<1>1. Init => Gate!Init
  BY GateInit
<1>2. IInv /\ IInv' /\ [Next]_vars => [Gate!Next]_(Gate!gateVars)
  BY GateStep
<1> QED
  BY <1>1, <1>2, InductiveInvariant, PTL DEF Spec, ImplementsGate, Gate!Spec
=============================================================================
