----------------------------- MODULE TurnHistory -----------------------------
(***************************************************************************)
(* The messages of one conversation and everyone who writes them: the      *)
(* launcher of each run (the prompt, and its removal when the start fails), *)
(* the agent loop of runTurn (a row per save), and the sweep that repairs  *)
(* the tail a dead run left. Rows are never locked, and no two saves are   *)
(* one transaction. What a run sends to the model is HistoryPipeline's      *)
(* History of the rows it loaded, followed by its own rounds.              *)
(*                                                                         *)
(* The status of a run is reduced to what decides who writes: AgentRuns    *)
(* models the launcher, claims, leases and cancels in full.                *)
(***************************************************************************)
EXTENDS HistoryPipeline

CONSTANTS Runs, NoRun,
          Environments   \* what one behaviour may meet:
                         \*   rounds    bound: tool rounds of one turn
                         \*   kinds     what a round may do: "plain", "reads" a file, "compacts"
                         \*   inTime    no live launcher or executor is swept
                         \*   failures  saving a row may throw, a sweep may die
                         \*   purges    the retention purge runs
                         \*   dispatch  what createTask does: "ok", "error" (no task),
                         \*             "unknown" (an error, yet a task)

ASSUME RunsAssumption == NoRun \notin Runs
ASSUME EnvironmentsAssumption ==
  Environments \subseteq [rounds : Nat, kinds : SUBSET {"plain", "reads", "compacts"},
                          inTime : BOOLEAN, failures : BOOLEAN, purges : BOOLEAN,
                          dispatch : SUBSET {"ok", "error", "unknown"}]

VARIABLES
  env,     \* the environment of this behaviour
  rows,    \* the table: [role, blocks, run]; run is NoRun for a sweep's row
  status,  \* "none", "queued", "running", "cancelled" before it ran, or "ended"
           \* (any other terminal status)
  launch,  \* where the launcher of a run stands
  task,    \* Cloud Tasks holds a task for the run
  pc,      \* where the executor of a run stands
  mem,     \* runTurn's in-memory messages
  round,   \* the number of the current tool round, and its kind
  toolTail,\* lastPersistedWasToolResult
  sweeper, \* where the sweep that closed the run stands
  lost     \* history: a turn goes on without its prompt, or a repair without its turn

execVars == <<pc, mem, round, toolTail>>
vars     == <<env, rows, status, launch, task, execVars, sweeper, lost>>

File == CHOOSE f \in DOMAIN FileSize : TRUE
Live == {"load", "model", "saveUse", "saveResult", "saveMarker", "saveRef", "finally"}
Saving == {"saveUse", "saveResult", "saveMarker", "saveRef"}
NoRound == [n |-> 0, kind |-> "none"]

TypeOK ==
  /\ env \in Environments
  /\ \A i \in DOMAIN rows : rows[i].role \in {"user", "assistant"} /\ rows[i].run \in Runs \cup {NoRun}
  /\ Len(rows) <= Cardinality(Runs) * (3 + 4 * env.rounds)
  /\ status   \in [Runs -> {"none", "queued", "running", "cancelled", "ended"}]
  /\ launch   \in [Runs -> {"none", "persist", "dispatch", "failQueued", "delete", "over"}]
  /\ task     \in [Runs -> BOOLEAN]
  /\ pc       \in [Runs -> {"none", "finish", "over"} \cup Live]
  /\ round    \in [Runs -> [n : 0..env.rounds, kind : env.kinds \cup {"none"}]]
  /\ toolTail \in [Runs -> BOOLEAN]
  /\ sweeper  \in [Runs -> {"none", "read", "save", "over"}]
  /\ lost     \in BOOLEAN

Init ==
  /\ env \in Environments
  /\ rows     = <<>>
  /\ status   = [r \in Runs |-> "none"]
  /\ launch   = [r \in Runs |-> "none"]
  /\ task     = [r \in Runs |-> FALSE]
  /\ pc       = [r \in Runs |-> "none"]
  /\ mem      = [r \in Runs |-> <<>>]
  /\ round    = [r \in Runs |-> NoRound]
  /\ toolTail = [r \in Runs |-> FALSE]
  /\ sweeper  = [r \in Runs |-> "none"]
  /\ lost     = FALSE

Save(run, role, blocks) == rows' = Append(rows, [role |-> role, blocks |-> blocks, run |-> run])

-----------------------------------------------------------------------------
(* The launcher.                                                           *)

Launch(r, from, to) == launch[r] = from /\ launch' = [launch EXCEPT ![r] = to]

ActiveRun_Running == \E q \in Runs : status[q] = "running"
ActiveRun == \E q \in Runs : status[q] \in {"queued", "running"}

CreateQueued(r) ==
  /\ Launch(r, "none", "persist") /\ ~ActiveRun
  /\ status' = [status EXCEPT ![r] = "queued"]
  /\ UNCHANGED <<env, lost, rows, task, execVars, sweeper>>

PersistUserMessage(r) ==
  /\ Launch(r, "persist", "dispatch")
  /\ Save(r, "user", <<Block("text", <<r>>)>>)
  /\ UNCHANGED <<env, lost, status, task, execVars, sweeper>>

Dispatch(r) ==
  /\ \E o \in env.dispatch :
       /\ Launch(r, "dispatch", IF o = "ok" THEN "over" ELSE "failQueued")
       /\ task' = [task EXCEPT ![r] = o # "error"]
  /\ UNCHANGED <<env, lost, rows, status, execVars, sweeper>>

FailQueued(r) ==
  /\ Launch(r, "failQueued", "delete")
  /\ status' = [status EXCEPT ![r] = IF @ = "queued" THEN "ended" ELSE @]
  /\ UNCHANGED <<env, lost, rows, task, execVars, sweeper>>

IsPromptOf(r, row) == row.run = r /\ row.role = "user" /\ Has(row, "text")

\* By id: the one row that PersistUserMessage saved, unless it is purged.
DeleteMessage(r) ==
  /\ Launch(r, "delete", "over")
  /\ LET i == SelectInSeq(rows, LAMBDA row : IsPromptOf(r, row))
     IN rows' = IF i = 0 THEN rows ELSE RemoveAt(rows, i)
  /\ lost' = (lost \/ pc[r] # "none")   \* createTask left a task after all
  /\ UNCHANGED <<env, status, task, execVars, sweeper>>

\* requestCancel of a queued run: the launcher, wherever it stands, does not
\* learn of it. That of a running run is a flag: Stop.
CancelQueued(r) ==
  /\ status[r] = "queued" /\ status' = [status EXCEPT ![r] = "cancelled"]
  /\ UNCHANGED <<env, lost, rows, launch, task, execVars, sweeper>>

LauncherDies(r) ==
  /\ launch[r] \notin {"none", "over"} /\ launch' = [launch EXCEPT ![r] = "over"]
  /\ UNCHANGED <<env, lost, rows, status, task, execVars, sweeper>>

-----------------------------------------------------------------------------
(* The executor.                                                           *)

\* The executor is gone: it has returned, or its process is killed.
Leave(r) ==
  /\ pc'       = [pc EXCEPT ![r] = "over"]
  /\ mem'      = [mem EXCEPT ![r] = <<>>]
  /\ round'    = [round EXCEPT ![r] = NoRound]
  /\ toolTail' = [toolTail EXCEPT ![r] = FALSE]

Go(r, from, to) == pc[r] = from /\ pc' = [pc EXCEPT ![r] = to]

Claim(r) ==
  /\ Go(r, "none", "load") /\ task[r] /\ status[r] = "queued"
  /\ status' = [status EXCEPT ![r] = "running"]
  /\ UNCHANGED <<env, lost, rows, launch, task, mem, round, toolTail, sweeper>>

\* Rows after the run's own prompt are left out; without it the turn throws.
LoadHistory(r) ==
  LET i == SelectInSeq(rows, LAMBDA row : IsPromptOf(r, row)) IN
  /\ IF i = 0
     THEN Go(r, "load", "finally") /\ UNCHANGED mem
     ELSE /\ Go(r, "load", "model")
          /\ mem' = [mem EXCEPT ![r] = History(SubSeq(rows, 1, i), DOMAIN FileSize, FALSE)]
  /\ UNCHANGED <<env, lost, rows, status, launch, task, round, toolTail, sweeper>>

\* Between two calls or in the middle of one, the run was cancelled or hit
\* its time limit: persistStopNote.
Stop(r) ==
  /\ Go(r, "model", "finally")
  /\ Save(r, "assistant", <<Block("note", <<>>)>>)
  /\ toolTail' = [toolTail EXCEPT ![r] = FALSE]
  /\ UNCHANGED <<env, lost, status, launch, task, mem, round, sweeper>>

\* A heartbeat has found the run closed: no note and no terminator.
LeaseLost(r) ==
  /\ pc[r] \in {"model", "finally"} /\ status[r] # "running"
  /\ Leave(r)
  /\ UNCHANGED <<env, lost, rows, status, launch, task, sweeper>>

\* The call throws or yields no response, an event cannot be written, or the
\* write-up asks for tools: nothing is saved.
ModelFails(r) ==
  /\ Go(r, "model", "finally")
  /\ UNCHANGED <<env, lost, rows, status, launch, task, mem, round, toolTail, sweeper>>

Answer(r) ==
  /\ Go(r, "model", "finally")
  /\ Save(r, "assistant", <<Block("text", <<r>>)>>)
  /\ toolTail' = [toolTail EXCEPT ![r] = FALSE]
  /\ UNCHANGED <<env, lost, status, launch, task, mem, round, sweeper>>

RoundLeft_OneMore(r) == round[r].n <= env.rounds
RoundLeft(r) == round[r].n < env.rounds

\* The model asks for a tool, perhaps one that reads a file, perhaps after a
\* compaction. The last call of a turn is a write-up without tools.
CallTools(r) ==
  /\ Go(r, "model", "saveUse") /\ RoundLeft(r)
  /\ \E kind \in env.kinds : round' = [round EXCEPT ![r] = [n |-> @.n + 1, kind |-> kind]]
  /\ UNCHANGED <<env, lost, rows, status, launch, task, mem, toolTail, sweeper>>

Response(r) == (IF round[r].kind = "compacts" THEN <<Block("compaction", <<>>)>> ELSE <<>>)
                 \o <<Block("use", <<r, round[r].n>>)>>
Results(r)  == <<Block("result", <<r, round[r].n>>)>>

(* The tool batch runs to completion, whatever the signal says; then its   *)
(* rows are saved one by one.                                              *)
SaveUse(r) ==
  /\ Go(r, "saveUse", "saveResult")
  /\ Save(r, "assistant", Response(r))
  /\ toolTail' = [toolTail EXCEPT ![r] = FALSE]
  /\ UNCHANGED <<env, lost, status, launch, task, mem, round, sweeper>>

\* The next call of the loop sees the round, trimmed if it compacted.
Extended(r) ==
  LET file == <<Msg("assistant", <<Filler>>), Msg("user", <<Block("file", <<File>>)>>)>>
  IN TrimToLastCompaction(
       mem[r] \o <<Msg("assistant", Response(r)), Msg("user", Results(r))>>
              \o (IF round[r].kind = "reads" THEN file ELSE <<>>))

NextCall(r) == mem' = [mem EXCEPT ![r] = Extended(r)]

SaveResult(r) ==
  /\ IF round[r].kind = "reads" THEN Go(r, "saveResult", "saveMarker") /\ UNCHANGED mem
     ELSE Go(r, "saveResult", "model") /\ NextCall(r)
  /\ Save(r, "user", Results(r))
  /\ toolTail' = [toolTail EXCEPT ![r] = TRUE]
  /\ UNCHANGED <<env, lost, status, launch, task, round, sweeper>>

SaveMarker(r) ==
  /\ Go(r, "saveMarker", "saveRef")
  /\ Save(r, "assistant", <<Filler>>)
  /\ UNCHANGED <<env, lost, status, launch, task, mem, round, toolTail, sweeper>>

SaveRef(r) ==
  /\ Go(r, "saveRef", "model") /\ NextCall(r)
  /\ Save(r, "user", <<ReadRef(File)>>)
  /\ toolTail' = [toolTail EXCEPT ![r] = FALSE]
  /\ UNCHANGED <<env, lost, status, launch, task, round, sweeper>>

\* A tool or an event write throws before the first save; a save throws.
RoundFails(r) ==
  /\ pc[r] \in (IF env.failures THEN Saving ELSE {"saveUse"})
  /\ pc' = [pc EXCEPT ![r] = "finally"]
  /\ UNCHANGED <<env, lost, rows, status, launch, task, mem, round, toolTail, sweeper>>

Terminator == <<Block("terminator", <<>>)>>

\* The finally block, whose own failure is swallowed.
Terminate(r) ==
  /\ Go(r, "finally", "finish")
  /\ \/ toolTail[r] /\ Save(r, "assistant", Terminator)
     \/ (toolTail[r] => env.failures) /\ UNCHANGED rows
  /\ UNCHANGED <<env, lost, status, launch, task, mem, round, toolTail, sweeper>>

Finish(r) ==
  /\ pc[r] = "finish" /\ Leave(r)
  /\ status' = [status EXCEPT ![r] = "ended"]
  /\ UNCHANGED <<env, lost, rows, launch, task, sweeper>>

ExecutorDies(r) ==
  /\ pc[r] \in Live \cup {"finish"} /\ Leave(r)
  /\ UNCHANGED <<env, lost, rows, status, launch, task, sweeper>>

-----------------------------------------------------------------------------
(* sweepStale: close the run, then appendTerminatorIfToolResultTail, which *)
(* reads the last row and then saves.                                      *)

Sweep(r) ==
  /\ \/ status[r] = "queued" /\ (env.inTime => launch[r] = "over")
     \/ status[r] = "running" /\ (env.inTime => pc[r] = "over")
  /\ status'  = [status EXCEPT ![r] = "ended"]
  /\ sweeper' = [sweeper EXCEPT ![r] = "read"]
  /\ UNCHANGED <<env, lost, rows, launch, task, execVars>>

ResultTail == rows # <<>> /\ Last(rows).role = "user" /\ Only(Last(rows), "result")

NeedsTerminator_AfterUse == rows # <<>> /\ Has(Last(rows), "use")
NeedsTerminator == ResultTail

SweepReadsTail(r) ==
  /\ sweeper[r] = "read"
  /\ sweeper' = [sweeper EXCEPT ![r] = IF NeedsTerminator THEN "save" ELSE "over"]
  /\ UNCHANGED <<env, lost, rows, status, launch, task, execVars>>

SweepSaves(r) ==
  /\ sweeper[r] = "save"
  /\ sweeper' = [sweeper EXCEPT ![r] = "over"]
  /\ Save(NoRun, "assistant", Terminator)
  /\ lost' = (lost \/ rows = <<>>)      \* purged since the tail was read
  /\ UNCHANGED <<env, status, launch, task, execVars>>

SweepDies(r) ==
  /\ env.failures /\ sweeper[r] \in {"read", "save"}
  /\ sweeper' = [sweeper EXCEPT ![r] = "over"]
  /\ UNCHANGED <<env, lost, rows, status, launch, task, execVars>>

-----------------------------------------------------------------------------
(* PURGE_MESSAGES: once a row is past the window, everything before the     *)
(* first prompt inside it goes. No process lives as long as the window.     *)

Old(row) == row.run # NoRun => launch[row.run] = "over" /\ pc[row.run] \in {"none", "over"}

KeepsFrom(row) == row.role = "user" /\ ~Has(row, "result") /\ ~Has(row, "readRef")

\* Deletes the rows past the window and no other.
Purge_ByAge ==
  /\ env.purges
  /\ \E n \in DOMAIN rows :
       (\A i \in 1..n : Old(rows[i])) /\ rows' = SubSeq(rows, n + 1, Len(rows))
  /\ UNCHANGED <<env, lost, status, launch, task, execVars, sweeper>>

Purge ==
  /\ env.purges
  /\ \E n \in DOMAIN rows :
       /\ \A i \in 1..n : Old(rows[i])
       /\ LET kept == SubSeq(rows, n + 1, Len(rows))
              first == SelectInSeq(kept, KeepsFrom)
          IN rows' = IF first = 0 THEN <<>> ELSE SubSeq(kept, first, Len(kept))
  /\ UNCHANGED <<env, lost, status, launch, task, execVars, sweeper>>

-----------------------------------------------------------------------------
Start(r)   == CreateQueued(r) \/ PersistUserMessage(r) \/ Dispatch(r) \/ FailQueued(r)
              \/ DeleteMessage(r) \/ CancelQueued(r) \/ LauncherDies(r)
Execute(r) == \/ Claim(r) \/ LoadHistory(r) \/ Stop(r) \/ LeaseLost(r) \/ ModelFails(r)
              \/ Answer(r) \/ CallTools(r)
              \/ SaveUse(r) \/ SaveResult(r) \/ SaveMarker(r) \/ SaveRef(r) \/ RoundFails(r)
              \/ Terminate(r) \/ Finish(r) \/ ExecutorDies(r)
Repair(r)  == Sweep(r) \/ SweepReadsTail(r) \/ SweepSaves(r) \/ SweepDies(r)

Next == Purge \/ \E r \in Runs : Start(r) \/ Execute(r) \/ Repair(r)

Spec == Init /\ [][Next]_vars
-----------------------------------------------------------------------------
(* Properties.                                                             *)

(* Every call of every turn sends a request the API accepts, and so would   *)
(* the first call of a run started now: crashes between two saves, failed   *)
(* saves, swept zombies that write on, late or missing repairs and a purge  *)
(* leave no history that blocks the conversation; a lost prompt does.       *)
EveryRequestAccepted ==
  LET asked == Append(rows, [role |-> "user", blocks |-> <<Block("text", <<NoRun>>)>>, run |-> NoRun])
      now   == History(asked, DOMAIN FileSize, FALSE)
  IN lost \/
       \A ms \in {now} \cup {mem[r] : r \in {q \in Runs : pc[q] = "model"}} :
         \A writeUp \in BOOLEAN : WellFormed(Request(ms, writeUp))

\* No process is swept alive and no start fails.
Orderly == env.inTime /\ env.dispatch = {"ok"}

(* What a run sends does not drift from what it saves: its in-memory        *)
(* messages are what the pipeline makes of the rows up to its prompt and    *)
(* its own rows since, but for files that a later run will see as stubs.    *)
MemoryMatchesRows ==
  LET faded(ms) == [i \in DOMAIN ms |-> Msg(ms[i].role,
                     [j \in DOMAIN ms[i].blocks |->
                        IF ms[i].blocks[j].type = "file" THEN Block("stub", ms[i].blocks[j].id)
                        ELSE ms[i].blocks[j]])]
  IN \A r \in Runs : pc[r] = "model" /\ Orderly /\ ~env.purges =>
       LET i   == SelectInSeq(rows, LAMBDA row : IsPromptOf(r, row))
           own == SelectAt(rows, {j \in DOMAIN rows : j > i /\ rows[j].run = r})
       IN faded(History(SubSeq(rows, 1, i) \o own, {}, FALSE)) = faded(mem[r])

(* docs/agent-runs.md "Lazy sweep", ai.service.ts:782: once no run is       *)
(* active and no sweep under way, the last row is not a tool result,        *)
(* whatever died, was swept or was purged; unless a terminator could not be *)
(* saved, by the finally block or by the sweep, which both let it pass.     *)
TailRepaired ==
  Orderly /\ ~env.failures
          /\ (\A r \in Runs : status[r] \notin {"queued", "running"} /\ sweeper[r] \notin {"read", "save"}
                     /\ pc[r] \notin Live)
    => ~ResultTail

\* The prompt of a run that was cancelled before it ran.
Stray(row) == row.run # NoRun /\ status[row.run] = "cancelled"

(* docs/agent-runs.md "Why" and docs/chat-retention.md: the rows of a turn  *)
(* stay together and begin with its prompt. Nothing comes between them but  *)
(* a repair and the prompt of a run that was cancelled while its launcher   *)
(* was at work (it saves the prompt all the same, by then perhaps during    *)
(* the next turn). A purge takes no part of a turn, unless it cuts at such  *)
(* a prompt: then the rest of that turn is what comes first after it.       *)
TurnsWhole ==
  Orderly =>
    \A i, j \in DOMAIN rows : i <= j /\ rows[i].run = rows[j].run /\ rows[i].run # NoRun =>
      LET Within(k) == rows[k].run \in {rows[i].run, NoRun} \/ Stray(rows[k]) IN
      /\ \A k \in i..j : Within(k)
      /\ \/ \E k \in 1..i : IsPromptOf(rows[i].run, rows[k])
         \/ Stray(rows[1]) /\ \A k \in 1..i : Within(k)
=============================================================================
