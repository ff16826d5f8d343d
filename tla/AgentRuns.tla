------------------------------ MODULE AgentRuns ------------------------------
(***************************************************************************)
(* The control plane of agent runs: the agent_runs table and everyone who  *)
(* writes it. A launcher (one POST /conversations/:id/runs per run) inserts *)
(* and dispatches a run, Cloud Tasks delivers it to workers (at least once, *)
(* up to MaxAttempts times), a worker claims and executes it while renewing *)
(* its lease, a user cancels it, and sweeps close the runs whose lease or   *)
(* queue time ran out. Every database statement is a step of its own.       *)
(*                                                                         *)
(* Time is abstracted to one bit per run: stale[r] says that heartbeat_at   *)
(* is more than 60 s old (or created_at more than 300 s, while queued).     *)
(* The events of a run are modelled in RunEvents, its messages in           *)
(* TurnHistory. A definition named X_Y is X with the fault Y; no            *)
(* specification uses it (README.md, "Mutants").                            *)
(***************************************************************************)
EXTENDS Naturals, Sequences

CONSTANTS Runs, Conversations,
          Workers,       \* request slots that may execute a delivered task
          MaxAttempts,   \* deliveries of one task (the queue's max-attempts)
          LeaseHolds,    \* TRUE: a live executor always renews its lease in 60 s
          None

ASSUME NoneAssumption     == /\ None \notin Workers \cup Runs
                             /\ None \notin Conversations
ASSUME AttemptsAssumption == MaxAttempts \in Nat \ {0}
ASSUME LeaseAssumption    == LeaseHolds \in BOOLEAN

VARIABLES
  status,     \* agent_runs.status, "absent" before the row exists
  conv,       \* the conversation the launcher of the run was called for
  attached,   \* user_message_id IS NOT NULL
  cancelFlag, \* cancel_requested_at IS NOT NULL
  stale,      \* the lease (or the queue time) has run out
  saved,      \* the user message's row is in the messages table
  launch,     \* where the launcher of the run stands
  canceller,  \* where the cancel request of the run stands
  task,       \* the run's Cloud Task
  attempts,   \* deliveries of the task so far
  pc, job,    \* where a worker stands, and for which run
  reason,     \* why the worker's AbortController fired
  outcome     \* the status the worker is about to write

rowVars    == <<status, attached, cancelFlag, stale>>
launchVars == <<conv, saved, launch>>
taskVars   == <<task, attempts>>
workerVars == <<pc, job, reason, outcome>>
vars       == <<rowVars, launchVars, canceller, taskVars, workerVars>>

Active   == {"queued", "running"}
Terminal == {"succeeded", "failed", "cancelled", "timed_out", "interrupted"}

LaunchStep == {"idle", "insert", "persist", "attach", "dispatch",
               "failQueued", "deleteMessage", "refused", "started", "failed", "died"}

TypeOK ==
  /\ status     \in [Runs -> {"absent"} \cup Active \cup Terminal]
  /\ conv       \in [Runs -> Conversations \cup {None}]
  /\ attached   \in [Runs -> BOOLEAN]
  /\ cancelFlag \in [Runs -> BOOLEAN]
  /\ stale      \in [Runs -> BOOLEAN]
  /\ saved      \in [Runs -> BOOLEAN]
  /\ launch     \in [Runs -> LaunchStep]
  /\ canceller  \in [Runs -> 0..2]
  /\ task       \in [Runs -> {"none", "pending", "acked"}]
  /\ attempts   \in [Runs -> 0..MaxAttempts]
  /\ pc         \in [Workers -> {"idle", "claim", "turn", "closing"}]
  /\ job        \in [Workers -> Runs \cup {None}]
  /\ reason     \in [Workers -> {None, "cancelled", "time_limit", "lease_lost"}]
  /\ outcome    \in [Workers -> Terminal \cup {None}]

Init ==
  /\ status     = [r \in Runs |-> "absent"]
  /\ conv       = [r \in Runs |-> None]
  /\ attached   = [r \in Runs |-> FALSE]
  /\ cancelFlag = [r \in Runs |-> FALSE]
  /\ stale      = [r \in Runs |-> FALSE]
  /\ saved      = [r \in Runs |-> FALSE]
  /\ launch     = [r \in Runs |-> "idle"]
  /\ canceller  = [r \in Runs |-> 0]
  /\ task       = [r \in Runs |-> "none"]
  /\ attempts   = [r \in Runs |-> 0]
  /\ pc         = [w \in Workers |-> "idle"]
  /\ job        = [w \in Workers |-> None]
  /\ reason     = [w \in Workers |-> None]
  /\ outcome    = [w \in Workers |-> None]

Executing(w) == pc[w] \in {"turn", "closing"}

-----------------------------------------------------------------------------
(* Sweeps. sweepStale marks the stale active runs of a conversation.       *)

SweepWhere_OnlyRunning(r, c) == status[r] = "running" /\ stale[r] /\ conv[r] = c
SweepWhere(r, c) == status[r] \in Active /\ stale[r] /\ conv[r] = c
Swept(c) == [r \in Runs |-> IF SweepWhere(r, c) THEN "interrupted" ELSE status[r]]

SweepStale(c) ==
  /\ \E r \in Runs : SweepWhere(r, c)
  /\ status' = Swept(c)
  /\ UNCHANGED <<attached, cancelFlag, stale, launchVars, canceller, taskVars, workerVars>>

(* More than 60 s since the last heartbeat of a running run, or 300 s since *)
(* a queued one was inserted.                                               *)
Expire(r) ==
  /\ status[r] \in Active /\ ~stale[r]
  /\ LeaseHolds => \A w \in Workers : job[w] = r => ~Executing(w)
  /\ stale' = [stale EXCEPT ![r] = TRUE]
  /\ UNCHANGED <<status, attached, cancelFlag, launchVars, canceller, taskVars, workerVars>>

-----------------------------------------------------------------------------
(* The launcher of run r. Each database call may throw.                    *)

To(r, step) == launch[r] # step /\ launch' = [launch EXCEPT ![r] = step]

(* createQueued sweeps the conversation before it inserts.                 *)
CreateSweep(r, c) ==
  /\ launch[r] = "idle"
  /\ To(r, "insert")
  /\ conv'   = [conv EXCEPT ![r] = c]
  /\ status' = Swept(c)
  /\ UNCHANGED <<attached, cancelFlag, stale, saved, canceller, taskVars, workerVars>>

(* uq_agent_runs_active_per_conversation                                   *)
ActiveIn_OnlyRunning(c) == \E q \in Runs : status[q] = "running" /\ conv[q] = c
ActiveIn(c) == \E q \in Runs : status[q] \in Active /\ conv[q] = c

CreateInsert(r) ==
  /\ launch[r] = "insert" /\ ~ActiveIn(conv[r])
  /\ To(r, "persist")
  /\ status' = [status EXCEPT ![r] = "queued"]
  /\ UNCHANGED <<attached, cancelFlag, stale, conv, saved, canceller, taskVars, workerVars>>

(* 409: the partial unique index refused the row.                          *)
CreateRefused(r) ==
  /\ launch[r] = "insert" /\ ActiveIn(conv[r])
  /\ To(r, "refused")
  /\ UNCHANGED <<rowVars, conv, saved, canceller, taskVars, workerVars>>

PersistUserMessage(r) ==
  /\ launch[r] = "persist"
  /\ \/ To(r, "attach") /\ saved' = [saved EXCEPT ![r] = TRUE]
     \/ To(r, "failQueued") /\ UNCHANGED saved
  /\ UNCHANGED <<rowVars, conv, canceller, taskVars, workerVars>>

(* The UPDATE has no status condition. An error leaves it open whether the *)
(* update reached the database.                                            *)
AttachUserMessage(r) ==
  /\ launch[r] = "attach"
  /\ \/ To(r, "dispatch") /\ attached' = [attached EXCEPT ![r] = TRUE]
     \/ To(r, "failQueued") /\ \E b \in BOOLEAN : attached' = [attached EXCEPT ![r] = b]
  /\ UNCHANGED <<status, cancelFlag, stale, conv, saved, canceller, taskVars, workerVars>>

(* createTask may fail after Cloud Tasks accepted the task.                *)
Dispatch(r) ==
  /\ launch[r] = "dispatch"
  /\ \/ To(r, "started") /\ task' = [task EXCEPT ![r] = "pending"]
     \/ To(r, "failQueued") /\ \E t \in {"none", "pending"} : task' = [task EXCEPT ![r] = t]
  /\ UNCHANGED <<rowVars, conv, saved, canceller, attempts, workerVars>>

FailQueued(r) ==
  /\ launch[r] = "failQueued"
  /\ To(r, IF saved[r] THEN "deleteMessage" ELSE "failed")
  /\ status' = IF status[r] = "queued" THEN [status EXCEPT ![r] = "failed"] ELSE status
  /\ UNCHANGED <<attached, cancelFlag, stale, conv, saved, canceller, taskVars, workerVars>>

(* failQueued throws: the rest of the compensation is skipped.             *)
FailQueuedThrows(r) ==
  /\ launch[r] = "failQueued"
  /\ To(r, "failed")
  /\ UNCHANGED <<rowVars, conv, saved, canceller, taskVars, workerVars>>

(* An error of the delete is swallowed.                                    *)
DeleteMessage(r) ==
  /\ launch[r] = "deleteMessage"
  /\ To(r, "failed")
  /\ \E b \in BOOLEAN : saved' = [saved EXCEPT ![r] = b]
  /\ UNCHANGED <<rowVars, conv, canceller, taskVars, workerVars>>

LauncherDies(r) ==
  /\ launch[r] \in {"insert", "persist", "attach", "dispatch", "failQueued", "deleteMessage"}
  /\ To(r, "died")
  /\ UNCHANGED <<rowVars, conv, saved, canceller, taskVars, workerVars>>

-----------------------------------------------------------------------------
(* The cancel request of run r: an UPDATE of a queued row, then, if no row  *)
(* was affected, an UPDATE of a running one. canceller[r] counts the        *)
(* statements done; 2 says that the request has returned. A second request  *)
(* repeats them and is not modelled.                                        *)

CancelOrder_Swapped == <<"running", "queued">>
CancelOrder == <<"queued", "running">>

CancelUpdate(r) ==
  /\ canceller[r] < 2 /\ status[r] # "absent"
  /\ LET expected == CancelOrder[canceller[r] + 1] IN
     IF status[r] # expected
     THEN /\ canceller' = [canceller EXCEPT ![r] = @ + 1]
          /\ UNCHANGED <<status, cancelFlag>>
     ELSE /\ canceller' = [canceller EXCEPT ![r] = 2]
          /\ \/ /\ expected = "queued"
                /\ status' = [status EXCEPT ![r] = "cancelled"]
                /\ UNCHANGED cancelFlag
             \/ /\ expected = "running"
                /\ cancelFlag' = [cancelFlag EXCEPT ![r] = TRUE]
                /\ UNCHANGED status
  /\ UNCHANGED <<attached, stale, launchVars, taskVars, workerVars>>

-----------------------------------------------------------------------------
(* Cloud Tasks and the workers.                                            *)

(* A task is delivered again until a delivery is acknowledged, and may be  *)
(* delivered twice at once.                                                *)
Deliver(w, r) ==
  /\ pc[w] = "idle" /\ task[r] = "pending" /\ attempts[r] < MaxAttempts
  /\ attempts' = [attempts EXCEPT ![r] = @ + 1]
  /\ pc'  = [pc EXCEPT ![w] = "claim"]
  /\ job' = [job EXCEPT ![w] = r]
  /\ UNCHANGED <<rowVars, launchVars, canceller, task, reason, outcome>>

(* The worker's request ends: with a 2xx, or with an error or not at all.  *)
Release(w) ==
  /\ pc'      = [pc EXCEPT ![w] = "idle"]
  /\ job'     = [job EXCEPT ![w] = None]
  /\ reason'  = [reason EXCEPT ![w] = None]
  /\ outcome' = [outcome EXCEPT ![w] = None]
Acknowledge(w) == task' = [task EXCEPT ![job[w]] = "acked"] /\ UNCHANGED attempts

(* now() as heartbeat_at: the lease starts (claim) or is renewed (heartbeat). *)
LeaseRenewed_Kept(r) == stale
LeaseRenewed(r) == [stale EXCEPT ![r] = FALSE]

ClaimWhere_AnyStatus(r) == status[r] # "absent" /\ attached[r]
ClaimWhere(r) == status[r] = "queued" /\ attached[r]

Claim(w) ==
  /\ pc[w] = "claim" /\ ClaimWhere(job[w])
  /\ status' = [status EXCEPT ![job[w]] = "running"]
  /\ stale'  = LeaseRenewed(job[w])
  /\ pc'     = [pc EXCEPT ![w] = "turn"]
  /\ UNCHANGED <<attached, cancelFlag, launchVars, canceller, taskVars, job, reason, outcome>>

ClaimSkips(w) ==
  /\ pc[w] = "claim" /\ ~ClaimWhere(job[w])
  /\ Release(w) /\ Acknowledge(w)
  /\ UNCHANGED <<rowVars, launchVars, canceller>>

(* The first abort wins.                                                   *)
Abort(w, why) == reason' = IF reason[w] = None THEN [reason EXCEPT ![w] = why] ELSE reason

HeartbeatWhere(r) == status[r] = "running"

(* The UPDATE and its reply are one step: a reply still in flight when the *)
(* turn ends changes nothing.                                              *)
Heartbeat(w) ==
  /\ pc[w] = "turn"
  /\ IF HeartbeatWhere(job[w])
     THEN /\ stale' = LeaseRenewed(job[w])
          /\ IF cancelFlag[job[w]] THEN Abort(w, "cancelled") ELSE UNCHANGED reason
     ELSE Abort(w, "lease_lost") /\ UNCHANGED stale
  /\ UNCHANGED <<status, attached, cancelFlag, launchVars, canceller, taskVars, pc, job, outcome>>

TimeLimit(w) ==
  /\ pc[w] = "turn" /\ reason[w] = None
  /\ Abort(w, "time_limit")
  /\ UNCHANGED <<rowVars, launchVars, canceller, taskVars, pc, job, outcome>>

StatusForAbort_NoTimeout(why, otherwise) ==
  IF why = "cancelled" THEN "cancelled" ELSE IF why = None THEN otherwise ELSE why
StatusForAbort(why, otherwise) ==
  CASE why = "cancelled"  -> "cancelled"
    [] why = "time_limit" -> "timed_out"
    [] why = "lease_lost" -> "interrupted"
    [] OTHER              -> otherwise

(* runTurn returns or throws. From here on the lease is not renewed.       *)
TurnEnds(w) ==
  /\ pc[w] = "turn" /\ reason[w] # "lease_lost"
  /\ \E s \in {"succeeded", "failed"} :
       outcome' = [outcome EXCEPT ![w] = StatusForAbort(reason[w], s)]
  /\ pc' = [pc EXCEPT ![w] = "closing"]
  /\ UNCHANGED <<rowVars, launchVars, canceller, taskVars, job, reason>>

(* A worker that knows its lease is lost writes nothing more.              *)
LeaseLost(w) ==
  /\ pc[w] = "turn" /\ reason[w] = "lease_lost"
  /\ Release(w) /\ Acknowledge(w)
  /\ UNCHANGED <<rowVars, launchVars, canceller>>

FinishWhere(r) == status[r] = "running"

Finish(w) ==
  /\ pc[w] = "closing"
  /\ status' = IF FinishWhere(job[w]) THEN [status EXCEPT ![job[w]] = outcome[w]] ELSE status
  /\ Release(w) /\ Acknowledge(w)
  /\ UNCHANGED <<attached, cancelFlag, stale, launchVars, canceller>>

(* The instance is killed, or claim() or finish() throws: the delivery is  *)
(* not acknowledged.                                                       *)
WorkerDies(w) ==
  /\ pc[w] # "idle"
  /\ Release(w)
  /\ UNCHANGED <<rowVars, launchVars, canceller, taskVars>>

-----------------------------------------------------------------------------
Launch(r) == \/ \E c \in Conversations : CreateSweep(r, c)
             \/ CreateInsert(r) \/ CreateRefused(r)
             \/ PersistUserMessage(r) \/ AttachUserMessage(r) \/ Dispatch(r)
             \/ FailQueued(r) \/ FailQueuedThrows(r) \/ DeleteMessage(r)
             \/ LauncherDies(r)

Work(w) == \/ \E r \in Runs : Deliver(w, r)
           \/ Claim(w) \/ ClaimSkips(w)
           \/ Heartbeat(w) \/ TimeLimit(w)
           \/ TurnEnds(w) \/ LeaseLost(w) \/ Finish(w)
           \/ WorkerDies(w)

Next == \/ \E r \in Runs : Launch(r) \/ Expire(r) \/ CancelUpdate(r)
        \/ \E w \in Workers : Work(w)
        \/ \E c \in Conversations : SweepStale(c)

Spec == Init /\ [][Next]_vars

(* A run nobody executes does go stale: time passes.                       *)
Abandoned(r) == Expire(r) /\ \A w \in Workers : job[w] = r => ~Executing(w)

(* The lease of an abandoned run runs out; someone keeps the conversation  *)
(* open (a subscriber sweeps every 10 s); a turn ends, by its 25-minute    *)
(* limit at the latest; and its outcome is written unless the worker dies. *)
Fairness ==
  /\ \A r \in Runs : WF_vars(Abandoned(r))
  /\ \A c \in Conversations : WF_vars(SweepStale(c))
  /\ \A w \in Workers : WF_vars(TurnEnds(w)) /\ WF_vars(LeaseLost(w)) /\ WF_vars(Finish(w))

FairSpec == Spec /\ Fairness
-----------------------------------------------------------------------------
(* Properties.                                                             *)

(* A run is claimed once, whatever is delivered again: no two workers      *)
(* execute it, and while one does nobody but a sweep has closed it (claim, *)
(* failQueued, requestCancel and finish are all conditional on the status). *)
ClaimedOnce ==
  \A w \in Workers : Executing(w) =>
    /\ status[job[w]] \in {"running", "interrupted"}
    /\ \A v \in Workers : Executing(v) /\ job[v] = job[w] => v = w

(* While executors renew their leases in time, a sweep closes no run that  *)
(* is being executed: neither a slow claim of an old queued run nor the    *)
(* last seconds after the heartbeat timer is cleared expose it.            *)
LivingRunNotSwept ==
  LeaseHolds => \A w \in Workers : Executing(w) => status[job[w]] = "running"

(* docs/agent-runs.md "Why": a retry starts no second agent loop on the    *)
(* same conversation.                                                      *)
NoSecondLoop ==
  \A v, w \in Workers :
    pc[v] = "turn" /\ pc[w] = "turn" /\ conv[job[v]] = conv[job[w]] => v = w

(* A cancel request that has returned is not lost in the race with the     *)
(* claim: the run has ended, or carries the flag its executor will read.   *)
CancelNotLost ==
  \A r \in Runs : canceller[r] = 2 => status[r] \in Terminal \/ cancelFlag[r]

(* Why the invariants above hold: the parts of the inductive invariant.    *)
RowInv ==
  \A r \in Runs :
    /\ launch[r] # "idle" => conv[r] \in Conversations
    /\ launch[r] \in {"idle", "insert", "refused"} => status[r] = "absent"
OneActivePerConversation ==
  \A q, r \in Runs :
    status[q] \in Active /\ status[r] \in Active /\ conv[q] = conv[r] => q = r
CancelInv ==
  \A r \in Runs :
    /\ canceller[r] > 0 => status[r] \notin {"absent", "queued"}
    /\ canceller[r] = 2 => status[r] \in Terminal \/ cancelFlag[r]
WorkerInv ==
  \A w \in Workers :
    /\ pc[w] # "idle" => job[w] \in Runs
    /\ pc[w] = "closing" => outcome[w] \in Terminal
LeaseInv ==
  LeaseHolds => \A w \in Workers :
    Executing(w) => status[job[w]] = "running" /\ ~stale[job[w]]
IInv == TypeOK /\ RowInv /\ OneActivePerConversation /\ CancelInv /\ WorkerInv
          /\ ClaimedOnce /\ LeaseInv

(* The lifecycle promised by docs/agent-runs.md. The row's conversation is *)
(* seen from the moment the row exists.                                    *)
Lifecycle == INSTANCE RunLifecycle WITH
  NoConv    <- None,
  runStatus <- status,
  runConv   <- [r \in Runs |-> IF status[r] = "absent" THEN None ELSE conv[r]]
ImplementsLifecycle == Lifecycle!LSpec

(* No run stays active for ever, whatever dies: launcher, task or worker.  *)
EveryRunEnds == \A r \in Runs : status[r] \in Active ~> status[r] \in Terminal
=============================================================================
