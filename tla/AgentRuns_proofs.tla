--------------------------- MODULE AgentRuns_proofs ---------------------------
(***************************************************************************)
(* Proofs about AgentRuns for any set of runs, conversations and workers.  *)
(* IInv is inductive: each action is shown to preserve its parts, and the  *)
(* safety properties of the module follow from it.                         *)
(***************************************************************************)
EXTENDS AgentRuns, TLAPS

(* The initial states satisfy the inductive invariant.                     *)
LEMMA InitIInv == Init => IInv
  BY AttemptsAssumption
  DEF Init, IInv, TypeOK, RowInv, OneActivePerConversation, CancelInv, WorkerInv,
      ClaimedOnce, LeaseInv, Executing, Active, Terminal, LaunchStep

(* The four outcomes of a statement of the cancel request: the first or    *)
(* the second UPDATE, with or without an affected row.                     *)
CancelOutcome(r) ==
  \/ /\ canceller[r] = 0 /\ status[r] = "queued"
     /\ status' = [status EXCEPT ![r] = "cancelled"]
     /\ canceller' = [canceller EXCEPT ![r] = 2] /\ UNCHANGED cancelFlag
  \/ /\ canceller[r] = 0 /\ status[r] \notin {"absent", "queued"}
     /\ canceller' = [canceller EXCEPT ![r] = 1] /\ UNCHANGED <<status, cancelFlag>>
  \/ /\ canceller[r] = 1 /\ status[r] = "running"
     /\ cancelFlag' = [cancelFlag EXCEPT ![r] = TRUE]
     /\ canceller' = [canceller EXCEPT ![r] = 2] /\ UNCHANGED status
  \/ /\ canceller[r] = 1 /\ status[r] \notin {"absent", "running"}
     /\ canceller' = [canceller EXCEPT ![r] = 2] /\ UNCHANGED <<status, cancelFlag>>

LEMMA CancelCases ==
  ASSUME TypeOK, NEW r \in Runs, CancelUpdate(r)
  PROVE  /\ UNCHANGED <<attached, stale, launchVars, taskVars, workerVars>>
         /\ CancelOutcome(r)
  <1>1. canceller[r] \in {0, 1} /\ status[r] # "absent"
    BY DEF TypeOK, CancelUpdate
  <1>2. CASE canceller[r] = 0
    <2>1. CancelOrder[canceller[r] + 1] = "queued"
      BY <1>2 DEF CancelOrder
    <2> QED
      BY <1>1, <1>2, <2>1 DEF CancelUpdate, CancelOutcome
  <1>3. CASE canceller[r] = 1
    <2>1. CancelOrder[canceller[r] + 1] = "running"
      BY <1>3 DEF CancelOrder
    <2> QED
      BY <1>1, <1>3, <2>1 DEF CancelUpdate, CancelOutcome
  <1> QED
    BY <1>1, <1>2, <1>3

(* Every step keeps the variables in their types.                          *)
LEMMA StepTypeOK == IInv /\ [Next]_vars => TypeOK'
  <1> SUFFICES ASSUME TypeOK, RowInv, WorkerInv, [Next]_vars PROVE TypeOK'
    BY DEF IInv
  <1>0. ASSUME NEW r \in Runs, CancelUpdate(r)
        PROVE  /\ CancelOutcome(r)
               /\ UNCHANGED <<attached, stale, launchVars, taskVars, workerVars>>
    BY <1>0, CancelCases
  <1> USE DEF TypeOK, rowVars, launchVars, taskVars, workerVars
  <1>1. ASSUME NEW r \in Runs, Launch(r) PROVE TypeOK'
    <2> USE DEF To, LaunchStep
    <2>1. ASSUME NEW c \in Conversations, CreateSweep(r, c) PROVE TypeOK'
      BY <2>1 DEF CreateSweep, Swept, Terminal
    <2>2. CASE CreateInsert(r)
      BY <2>2 DEF CreateInsert, Active
    <2>3. CASE CreateRefused(r)
      BY <2>3 DEF CreateRefused
    <2>4. CASE PersistUserMessage(r)
      BY <2>4 DEF PersistUserMessage
    <2>5. CASE AttachUserMessage(r)
      BY <2>5 DEF AttachUserMessage
    <2>6. CASE Dispatch(r)
      BY <2>6 DEF Dispatch
    <2>7. CASE FailQueued(r)
      BY <2>7 DEF FailQueued, Terminal
    <2>8. CASE FailQueuedThrows(r)
      BY <2>8 DEF FailQueuedThrows
    <2>9. CASE DeleteMessage(r)
      BY <2>9 DEF DeleteMessage
    <2>10. CASE LauncherDies(r)
      BY <2>10 DEF LauncherDies
    <2> QED
      BY <1>1, <2>1, <2>2, <2>3, <2>4, <2>5, <2>6, <2>7, <2>8, <2>9, <2>10 DEF Launch
  <1>2. ASSUME NEW r \in Runs, Expire(r) PROVE TypeOK'
    BY <1>2 DEF Expire
  <1>3. ASSUME NEW r \in Runs, CancelUpdate(r) PROVE TypeOK'
    <2>1. CancelOutcome(r) /\ UNCHANGED <<attached, stale, launchVars, taskVars, workerVars>>
      BY <1>3, <1>0
    <2>2. canceller' \in [Runs -> 0..2]
      BY <2>1 DEF CancelOutcome
    <2>3. cancelFlag' \in [Runs -> BOOLEAN]
      BY <2>1 DEF CancelOutcome
    <2>4. status' \in [Runs -> {"absent"} \cup Active \cup Terminal]
      BY <2>1 DEF CancelOutcome, Terminal
    <2> QED
      BY <2>1, <2>2, <2>3, <2>4
  <1>4. ASSUME NEW w \in Workers, Work(w) PROVE TypeOK'
    <2> USE DEF Release, Acknowledge
    <2>1. ASSUME NEW r \in Runs, Deliver(w, r) PROVE TypeOK'
      BY <2>1, AttemptsAssumption DEF Deliver
    <2>2. CASE Claim(w)
      BY <2>2 DEF Claim, ClaimWhere, LeaseRenewed, Active
    <2>3. CASE ClaimSkips(w)
      BY <2>3 DEF ClaimSkips
    <2>4. CASE Heartbeat(w)
      BY <2>4 DEF Heartbeat, Abort, LeaseRenewed
    <2>5. CASE TimeLimit(w)
      BY <2>5 DEF TimeLimit, Abort
    <2>6. CASE TurnEnds(w)
      BY <2>6 DEF TurnEnds, StatusForAbort, Terminal
    <2>7. CASE LeaseLost(w)
      BY <2>7 DEF LeaseLost
    <2>8. CASE Finish(w)
      BY <2>8 DEF Finish, FinishWhere, WorkerInv
    <2>9. CASE WorkerDies(w)
      BY <2>9 DEF WorkerDies
    <2> QED
      BY <1>4, <2>1, <2>2, <2>3, <2>4, <2>5, <2>6, <2>7, <2>8, <2>9 DEF Work
  <1>5. ASSUME NEW c \in Conversations, SweepStale(c) PROVE TypeOK'
    BY <1>5 DEF SweepStale, Swept, Terminal
  <1>6. CASE UNCHANGED vars
    BY <1>6 DEF vars
  <1> QED
    BY <1>1, <1>2, <1>3, <1>4, <1>5, <1>6 DEF Next

(* A step keeps the relations between a row, its launcher, its cancel      *)
(* request and the workers.                                                *)
LEMMA StepIInv == IInv /\ [Next]_vars => IInv'
  <1> SUFFICES ASSUME IInv, [Next]_vars, TypeOK' PROVE IInv'
    BY StepTypeOK
  <1>0. ASSUME NEW r \in Runs, CancelUpdate(r)
        PROVE  /\ CancelOutcome(r)
               /\ UNCHANGED <<attached, stale, launchVars, taskVars, workerVars>>
    BY <1>0, CancelCases DEF IInv
  <1> DEFINE Rest == RowInv /\ OneActivePerConversation /\ CancelInv /\ WorkerInv
                       /\ ClaimedOnce /\ LeaseInv
  <1> SUFFICES Rest'
    BY DEF IInv
  <1> USE DEF IInv, TypeOK, RowInv, OneActivePerConversation, CancelInv, WorkerInv,
              ClaimedOnce, LeaseInv, Executing, Active, Terminal,
              rowVars, launchVars, taskVars, workerVars
  <1>1. ASSUME NEW r \in Runs, Launch(r) PROVE Rest'
    <2> USE DEF To
    <2>1. ASSUME NEW c \in Conversations, CreateSweep(r, c) PROVE Rest'
      BY <2>1 DEF CreateSweep, Swept, SweepWhere
    <2>2. CASE CreateInsert(r)
      BY <2>2 DEF CreateInsert, ActiveIn
    <2>3. CASE CreateRefused(r)
      BY <2>3 DEF CreateRefused
    <2>4. CASE PersistUserMessage(r)
      BY <2>4 DEF PersistUserMessage
    <2>5. CASE AttachUserMessage(r)
      BY <2>5 DEF AttachUserMessage
    <2>6. CASE Dispatch(r)
      BY <2>6 DEF Dispatch
    <2>7. CASE FailQueued(r)
      BY <2>7 DEF FailQueued
    <2>8. CASE FailQueuedThrows(r)
      BY <2>8 DEF FailQueuedThrows
    <2>9. CASE DeleteMessage(r)
      BY <2>9 DEF DeleteMessage
    <2>10. CASE LauncherDies(r)
      BY <2>10 DEF LauncherDies
    <2> QED
      BY <1>1, <2>1, <2>2, <2>3, <2>4, <2>5, <2>6, <2>7, <2>8, <2>9, <2>10 DEF Launch
  <1>2. ASSUME NEW r \in Runs, Expire(r) PROVE Rest'
    BY <1>2 DEF Expire
  <1>3. ASSUME NEW r \in Runs, CancelUpdate(r) PROVE Rest'
    BY <1>3, <1>0 DEF CancelOutcome
  <1>4. ASSUME NEW w \in Workers, Work(w) PROVE Rest'
    <2> USE DEF Release, Acknowledge
    <2>1. ASSUME NEW r \in Runs, Deliver(w, r) PROVE Rest'
      BY <2>1 DEF Deliver
    <2>2. CASE Claim(w)
      BY <2>2 DEF Claim, ClaimWhere, LeaseRenewed
    <2>3. CASE ClaimSkips(w)
      BY <2>3 DEF ClaimSkips
    <2>4. CASE Heartbeat(w)
      BY <2>4 DEF Heartbeat, HeartbeatWhere, Abort, LeaseRenewed
    <2>5. CASE TimeLimit(w)
      BY <2>5 DEF TimeLimit, Abort
    <2>6. CASE TurnEnds(w)
      BY <2>6 DEF TurnEnds, StatusForAbort
    <2>7. CASE LeaseLost(w)
      BY <2>7 DEF LeaseLost
    <2>8. CASE Finish(w)
      BY <2>8 DEF Finish, FinishWhere
    <2>9. CASE WorkerDies(w)
      BY <2>9 DEF WorkerDies
    <2> QED
      BY <1>4, <2>1, <2>2, <2>3, <2>4, <2>5, <2>6, <2>7, <2>8, <2>9 DEF Work
  <1>5. ASSUME NEW c \in Conversations, SweepStale(c) PROVE Rest'
    BY <1>5 DEF SweepStale, Swept, SweepWhere
  <1>6. CASE UNCHANGED vars
    BY <1>6 DEF vars
  <1> QED
    BY <1>1, <1>2, <1>3, <1>4, <1>5, <1>6 DEF Next

(* The inductive invariant holds in every reachable state.                 *)
THEOREM Invariance == Spec => []IInv
  BY InitIInv, StepIInv, PTL DEF Spec

(* Every variable keeps its type.                                          *)
THEOREM TypeCorrect == Spec => []TypeOK
  <1>1. IInv => TypeOK
    BY DEF IInv
  <1> QED
    BY <1>1, Invariance, PTL

(* claim(): a run is executed by one worker at most, however often its     *)
(* task is delivered, and only a sweep can close it under that worker.      *)
THEOREM ClaimIsExclusive == Spec => []ClaimedOnce
  <1>1. IInv => ClaimedOnce
    BY DEF IInv
  <1> QED
    BY <1>1, Invariance, PTL

(* requestCancel(): the order of its two UPDATEs loses no cancel.           *)
THEOREM CancelIsKept == Spec => []CancelNotLost
  <1>1. IInv => CancelNotLost
    BY DEF IInv, CancelInv, CancelNotLost
  <1> QED
    BY <1>1, Invariance, PTL

(* sweepStale(): with leases renewed in time no executing run is swept.     *)
THEOREM SweepSparesTheLiving == Spec => []LivingRunNotSwept
  <1>1. IInv => LivingRunNotSwept
    BY DEF IInv, LeaseInv, LivingRunNotSwept
  <1> QED
    BY <1>1, Invariance, PTL

(* With leases renewed in time a conversation never has two agent loops:    *)
(* the active-run index, the single claim and the lease together.           *)
THEOREM OneLoopPerConversation == LeaseHolds /\ Spec => []NoSecondLoop
  <1> SUFFICES ASSUME LeaseHolds PROVE Spec => []NoSecondLoop
    OBVIOUS
  <1>1. IInv => NoSecondLoop
    <2> SUFFICES ASSUME IInv, NEW v \in Workers, NEW w \in Workers,
                        pc[v] = "turn", pc[w] = "turn", conv[job[v]] = conv[job[w]]
                 PROVE  v = w
      BY DEF NoSecondLoop
    <2>1. Executing(v) /\ Executing(w) /\ job[v] \in Runs /\ job[w] \in Runs
      BY DEF Executing, IInv, WorkerInv
    <2>2. status[job[v]] = "running" /\ status[job[w]] = "running"
      BY <2>1 DEF IInv, LeaseInv
    <2>3. job[v] = job[w]
      BY <2>1, <2>2 DEF IInv, OneActivePerConversation, Active
    <2> QED
      BY <2>1, <2>3 DEF IInv, ClaimedOnce
  <1> QED
    BY <1>1, Invariance, PTL

(* The conversation a run's row shows to the abstract lifecycle.            *)
RowConv == [r \in Runs |-> IF status[r] = "absent" THEN None ELSE conv[r]]

(* A step that gives one active run a status it may end in is an End step.  *)
LEMMA EndsOneRun ==
  ASSUME IInv, NEW q \in Runs, status[q] \in Active,
         NEW s \in Lifecycle!EndsOf(status[q]), s \in Terminal,
         status' = [status EXCEPT ![q] = s], RowConv' = RowConv
  PROVE  Lifecycle!LNext
  BY DEF Lifecycle!LNext, Lifecycle!End, Lifecycle!ActiveStatus, Lifecycle!TerminalStatus,
         RowConv, Active, Terminal

(* A sweep ends at most one run of the conversation, the active one.        *)
LEMMA SweepEndsOneRun ==
  ASSUME IInv, NEW c \in Conversations, status' = Swept(c), RowConv' = RowConv
  PROVE  Lifecycle!LNext \/ UNCHANGED <<status, RowConv>>
  <1>1. CASE \E q \in Runs : SweepWhere(q, c)
    <2>1. PICK q \in Runs : SweepWhere(q, c)
      BY <1>1
    <2>2. \A r \in Runs : SweepWhere(r, c) => r = q
      BY <2>1 DEF SweepWhere, IInv, OneActivePerConversation
    <2>3. status' = [status EXCEPT ![q] = "interrupted"]
      BY <2>1, <2>2 DEF Swept, IInv, TypeOK
    <2>4. "interrupted" \in Lifecycle!EndsOf(status[q]) /\ status[q] \in Active
      BY <2>1 DEF SweepWhere, Lifecycle!EndsOf, Lifecycle!TerminalStatus
    <2> QED
      BY <2>3, <2>4, EndsOneRun DEF Terminal
  <1>2. CASE ~ \E q \in Runs : SweepWhere(q, c)
    <2>1. status' = status
      BY <1>2 DEF Swept, IInv, TypeOK
    <2> QED
      BY <2>1
  <1> QED
    BY <1>1, <1>2

(* Every step of the control plane is a step of the lifecycle or a stutter. *)
LEMMA StepImplements == IInv /\ [Next]_vars => [Lifecycle!LNext]_<<status, RowConv>>
  <1> SUFFICES ASSUME IInv, [Next]_vars
               PROVE  Lifecycle!LNext \/ UNCHANGED <<status, RowConv>>
    BY DEF RowConv
  <1> USE DEF rowVars, launchVars, taskVars, workerVars
  <1>1. ASSUME NEW r \in Runs, NEW c \in Conversations, CreateSweep(r, c)
        PROVE  Lifecycle!LNext \/ UNCHANGED <<status, RowConv>>
    <2>1. status' = Swept(c) /\ status[r] = "absent" /\ conv' = [conv EXCEPT ![r] = c]
      BY <1>1 DEF CreateSweep, IInv, RowInv
    <2>2. RowConv' = RowConv
      BY <2>1 DEF RowConv, Swept, SweepWhere, IInv, TypeOK, Active
    <2> QED
      BY <2>1, <2>2, SweepEndsOneRun
  <1>2. ASSUME NEW r \in Runs, CreateInsert(r)
        PROVE  Lifecycle!LNext
    <2>1. /\ status[r] = "absent" /\ conv[r] \in Conversations
          /\ status' = [status EXCEPT ![r] = "queued"] /\ conv' = conv
          /\ \A q \in Runs : conv[q] = conv[r] => status[q] \notin Active
      BY <1>2 DEF CreateInsert, ActiveIn, IInv, RowInv
    <2>2. RowConv' = [RowConv EXCEPT ![r] = conv[r]]
      BY <2>1 DEF RowConv, IInv, TypeOK
    <2>3. \A q \in Runs : RowConv[q] = conv[r] => status[q] \notin Lifecycle!ActiveStatus
      BY <2>1, NoneAssumption DEF RowConv, Active, Lifecycle!ActiveStatus
    <2>4. PICK c \in Conversations : c = conv[r]
      BY <2>1
    <2>5. Lifecycle!Open(r, c)
      BY <2>1, <2>2, <2>3, <2>4 DEF Lifecycle!Open, RowConv
    <2> QED
      BY <2>5 DEF Lifecycle!LNext
  <1>3. ASSUME NEW r \in Runs, FailQueued(r)
        PROVE  Lifecycle!LNext \/ UNCHANGED <<status, RowConv>>
    <2>1. conv' = conv
      BY <1>3 DEF FailQueued
    <2>2. CASE status[r] = "queued"
      <3>1. status' = [status EXCEPT ![r] = "failed"]
        BY <1>3, <2>2 DEF FailQueued
      <3>2. RowConv' = RowConv
        BY <2>1, <2>2, <3>1 DEF RowConv, IInv, TypeOK
      <3> QED
        BY <2>2, <3>1, <3>2, EndsOneRun DEF Lifecycle!EndsOf, Active, Terminal
    <2>3. CASE status[r] # "queued"
      BY <1>3, <2>1, <2>3 DEF FailQueued, RowConv
    <2> QED
      BY <2>2, <2>3
  <1>4. ASSUME NEW r \in Runs, CancelUpdate(r)
        PROVE  Lifecycle!LNext \/ UNCHANGED <<status, RowConv>>
    <2>1. CancelOutcome(r) /\ conv' = conv
      BY <1>4, CancelCases DEF IInv
    <2>2. CASE status[r] = "queued" /\ status' = [status EXCEPT ![r] = "cancelled"]
      <3>1. RowConv' = RowConv
        BY <2>1, <2>2 DEF RowConv, IInv, TypeOK
      <3> QED
        BY <2>2, <3>1, EndsOneRun DEF Lifecycle!EndsOf, Active, Terminal
    <2>3. CASE UNCHANGED status
      BY <2>1, <2>3 DEF RowConv
    <2> QED
      BY <2>1, <2>2, <2>3 DEF CancelOutcome
  <1>5. ASSUME NEW w \in Workers, Claim(w)
        PROVE  Lifecycle!LNext
    <2>1. /\ job[w] \in Runs /\ status[job[w]] = "queued" /\ conv' = conv
          /\ status' = [status EXCEPT ![job[w]] = "running"]
      BY <1>5 DEF Claim, ClaimWhere, IInv, WorkerInv
    <2>2. RowConv' = RowConv
      BY <2>1 DEF RowConv, IInv, TypeOK
    <2>3. Lifecycle!Start(job[w])
      BY <2>1, <2>2 DEF Lifecycle!Start, RowConv
    <2> QED
      BY <2>1, <2>3 DEF Lifecycle!LNext
  <1>6. ASSUME NEW w \in Workers, Finish(w)
        PROVE  Lifecycle!LNext \/ UNCHANGED <<status, RowConv>>
    <2>1. job[w] \in Runs /\ outcome[w] \in Terminal /\ conv' = conv
      BY <1>6 DEF Finish, IInv, WorkerInv
    <2>2. CASE status[job[w]] = "running"
      <3>1. status' = [status EXCEPT ![job[w]] = outcome[w]]
        BY <1>6, <2>2 DEF Finish, FinishWhere
      <3>2. RowConv' = RowConv
        BY <2>1, <2>2, <3>1 DEF RowConv, IInv, TypeOK, Terminal
      <3> QED
        BY <2>1, <2>2, <3>1, <3>2, EndsOneRun
        DEF Lifecycle!EndsOf, Lifecycle!TerminalStatus, Active, Terminal
    <2>3. CASE status[job[w]] # "running"
      BY <1>6, <2>1, <2>3 DEF Finish, FinishWhere, RowConv
    <2> QED
      BY <2>2, <2>3
  <1>7. ASSUME NEW c \in Conversations, SweepStale(c)
        PROVE  Lifecycle!LNext \/ UNCHANGED <<status, RowConv>>
    <2>1. status' = Swept(c) /\ conv' = conv
      BY <1>7 DEF SweepStale
    <2>2. RowConv' = RowConv
      BY <2>1 DEF RowConv, Swept, SweepWhere, IInv, TypeOK, Active
    <2> QED
      BY <2>1, <2>2, SweepEndsOneRun
  <1>8. ASSUME NEW r \in Runs,
               CreateRefused(r) \/ PersistUserMessage(r) \/ AttachUserMessage(r) \/ Dispatch(r)
                 \/ FailQueuedThrows(r) \/ DeleteMessage(r) \/ LauncherDies(r) \/ Expire(r)
        PROVE  UNCHANGED <<status, RowConv>>
    BY <1>8 DEF CreateRefused, PersistUserMessage, AttachUserMessage, Dispatch,
                FailQueuedThrows, DeleteMessage, LauncherDies, Expire, RowConv
  <1>9. ASSUME NEW w \in Workers,
               (\E r \in Runs : Deliver(w, r)) \/ ClaimSkips(w) \/ Heartbeat(w) \/ TimeLimit(w)
                 \/ TurnEnds(w) \/ LeaseLost(w) \/ WorkerDies(w)
        PROVE  UNCHANGED <<status, RowConv>>
    BY <1>9 DEF Deliver, ClaimSkips, Heartbeat, TimeLimit, TurnEnds, LeaseLost, WorkerDies, RowConv
  <1>10. CASE UNCHANGED vars
    BY <1>10 DEF vars, RowConv
  <1> QED
    BY <1>1, <1>2, <1>3, <1>4, <1>5, <1>6, <1>7, <1>8, <1>9, <1>10 DEF Next, Launch, Work

(* docs/agent-runs.md, "Lifecycle": the table, its writers and their races  *)
(* implement the lifecycle.                                                *)
THEOREM Refinement == Spec => ImplementsLifecycle
  <1>1. Init => Lifecycle!LInit
    BY DEF Init, Lifecycle!LInit
  <1>2. IInv /\ [Next]_vars => [Lifecycle!LNext]_(Lifecycle!lifecycleVars)
    BY StepImplements DEF Lifecycle!lifecycleVars, RowConv
  <1> QED
    BY <1>1, <1>2, Invariance, PTL DEF Spec, ImplementsLifecycle, Lifecycle!LSpec
=============================================================================
