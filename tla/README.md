# Daubert: models, checks and proofs

Daubert is a web application for AI-assisted blockchain investigations: a Next.js
frontend, a NestJS backend on Postgres (TypeORM), OpenAPI contracts between them, and
an agent that answers in chat, calls tools, and stores what it did. This directory
holds TLA+ modules of the parts of it whose correctness depends on the order in which
independent processes run SQL statements, TLC configurations that check them on small
instances, and TLAPS proofs of the results that matter most for every instance.

Paths below are relative to the repository; `runs/` is
`src/backend/src/modules/ai/runs/`, `ai/` is `src/backend/src/modules/ai/`.
`PROJECT.json` maps every definition to the lines it models.

## 1. The system

### How a question is answered

    browser --POST /conversations/:id/runs--> launcher --createTask--> Cloud Tasks
       |                                         |                        |
       | GET .../events (SSE, resumed by seq)    | agent_runs, messages   | POST /internal/.../execute
       v                                         v                        v
    streamer <--polls-- agent_run_events <--RunEventWriter-- executor --> runTurn --> model, tools
                             ^                                             |
                     sweep, cancel                                    messages (history)

No component holds a lock while it works. What keeps them apart is a status column
changed by conditional UPDATEs, a partial unique index (one active run per
conversation), a primary key `(run_id, seq)` on events, and a 60 s lease that a
heartbeat renews. There is no timer that sweeps: opening a conversation, sending again
and waiting on a stream do it.

### Inventory

| component | state | operations | what makes it correct | status |
|---|---|---|---|---|
| Run lifecycle (`runs/agent-runs.service`, launcher, executor, internal controller, dispatcher) | `agent_runs` row: status, heartbeat, cancel flag, user message; one task per run | createQueued, attachUserMessage, failQueued, claim, heartbeat, requestCancel, finish, sweepStale; launch with compensations; delivery and redelivery | one execution of a run, one agent loop per conversation, no lost cancel, a living run is not swept, every run ends | modelled |
| Event log (`run-event-writer`, `agent-run-events.streamer`, `frontend lib/run-events`) | `agent_run_events`, the writer's buffer and chain, the client's last seq | push, timed flush, closing events of executor / cancel / sweep, deletion by the next run, poll, resume | a client sees the answer once, in order, whole, and is told the true end | modelled |
| Turn and history (`ai/ai.service` runTurn, `conversations.service`) | `messages` rows, in-memory message list | prompt, answer, tool round (use, result, markers), terminators, deletion of a prompt | no history that the model API refuses; turns stay whole; memory agrees with rows | partly |
| Request pipeline (`ai.service`, `data-room-rehydrate`, provider) | none (pure) | trim, repair pairs, merge, seed, rehydrate files | accepted by the API, nothing lost, budget kept | modelled |
| Organizations, cases, members, invites (`organizations`, `org-invites`, `cases`, `invites`, `superadmin/orgs`, `users`, guards) | member and invite rows, `deletedAt` | add, role, remove, leave, invite, accept, revoke, rename, soft delete, restore, purge, account deletion | a group keeps a lead; an invite admits only while live | partly |
| OAuth server (`oauth`) and the check MCP makes on every call (`mcp/mcp-auth.helper`) | `oauth_consumed_state`, `oauth_code`, `oauth_session` rows; the pair each client holds | authorize, complete, deny, exchange, refresh and rotation, revoke by user, by token, of all sessions; per-call eligibility | one outcome per consent, one session per code, a revoked session stays revoked, only members are served | partly |
| Chat retention (`ai/retention`) | deletes `messages` and more, by age | purge in four statements | a conversation in use stays answerable, no half turn stays | partly |
| Data room (`data-room`, storage providers) | file rows, folder rows, objects, access log | upload, chat upload, import, read, export, move and delete of files and folders | a row has its object, removals are logged first, the tree stays a tree | partly |
| Traces, investigations (`traces`, `investigations`, `hooks/useInvestigation*`) | a JSON graph per row; the browser's copy, undo and redo stacks, save timer | import, groups, creations, edits, deletions; load, edit, draw, add, extract and delete traces, undo, redo, auto-save | the service adds no address or transfer twice; the server ends with what the screen shows | partly |
| Script execution, script tokens | two isolate slots and a FIFO queue, signed token | run with a 30 s limit | the token outlives the script, slots are given back | not modelled |
| Conversation summary, transcript | one saved row | one model call | text layout only | not modelled |
| Login and guards | none | token and role checks | enter `Memberships` and `OAuthSessions` as the guards of requests | not modelled on their own |
| Declarants, declaration library, productions, exports, labeled entities, classifications | rows | CRUD, document rendering | conversions and single-row writes | not modelled |
| Blockchain access | rate-limiter slots, response cache | external HTTP calls | limits | not modelled |
| Frontend | view state | rendering, CRUD calls | its event subscription is in `RunEvents` (`Poll`), its edits, undo and auto-save in `Traces` | partly |

### Where the difficulty is

* **Interleaving**: every handler is a sequence of awaited statements; cancel meets
  claim, sweep meets heartbeat, a sweep's closing rows meet the executor's last batch,
  a second POST meets a first launcher that is still persisting, a purge meets a
  repair, a refresh meets a revocation, a folder move meets another.
* **Crashes**: launchers, workers, sweepers and requests stop between any two
  statements; nothing runs their compensations.
* **Delivery**: tasks are delivered at least once, or never, or once although
  `createTask` reported an error; the answer of a token endpoint may be lost.
* **Time**: leases run out while the process lives (a "zombie": swept, yet writing);
  codes, bags and tokens expire between two statements.
* **Read, change, save**: TypeORM's `save()` writes what was read earlier, and inserts
  the row again when it is gone by then.
* **Long-term state**: every row a fault leaves behind is part of all later requests.

`PROJECT.json` "hazards" lists these at their lines, with the properties that would
catch each going wrong.

## 2. Modules

| module | what it states | composes |
|---|---|---|
| `RunLifecycle` | what a run promises: opens queued, starts once, ends once, one open run per conversation | abstract specification |
| `AgentRuns` | every statement of launcher, workers, cancel and sweep | implements `RunLifecycle` (`ImplementsLifecycle`) |
| `AgentRuns_proofs` | inductive invariant, six theorems, refinement | `AgentRuns` |
| `RunEvents` | writer, closers, streamer, client of one run | |
| `RunEvents_proofs` | inductive invariant, five property theorems | `RunEvents` |
| `HistoryPipeline` | stored rows to request, as operators | |
| `Histories` | histories of any stored rows, and what the pipeline owes them | extends `HistoryPipeline` |
| `Histories_proofs` | what each stage keeps, five theorems for histories of any length | `Histories` |
| `TurnHistory` | the rows of one conversation and their writers | extends `HistoryPipeline` |
| `TurnHistory_proofs` | inductive invariants, four property theorems | `TurnHistory`, `Histories_proofs` |
| `Memberships` | concurrent requests over members and invites | |
| `Memberships_proofs` | inductive invariants, last-lead and revocation theorems | `Memberships` |
| `OAuthSessions` | consents, codes, sessions, refreshes and calls of several clients | |
| `OAuthSessions_proofs` | inductive invariant, seven property theorems | `OAuthSessions` |
| `DataRoom` | rows, folders, objects and log of one case | |
| `DataRoom_proofs` | row, object, log and tree invariants, five property theorems | `DataRoom` |
| `Traces` | server and browser copies of an investigation's graph | |
| `Traces_proofs` | what all copies agree on, three property theorems | `Traces` |
| `MC*` | symmetry sets, input generators, environments | one per component |

### RunLifecycle and AgentRuns

One run per POST. `status`, `attached`, `cancelFlag` are the columns; `stale` stands
for the age of `heartbeat_at` (running: 60 s; queued: 300 s after `created_at`), one
bit that `Expire` sets and claim and heartbeat clear. `launch`, `canceller` and `pc`
are program counters: each awaited statement is an action of its own.

* Launcher (`agent-run-launcher.service.ts`): `CreateSweep` then `CreateInsert` or
  `CreateRefused` (the unique index, `ActiveIn`), `PersistUserMessage`,
  `AttachUserMessage`, `Dispatch`; the compensations `FailQueued`, `FailQueuedThrows`,
  `DeleteMessage`. `Dispatch` may report an error and leave a task. `LauncherDies`
  at any step.
* Worker (`agent-run-executor.service.ts`): `Deliver` (up to `MaxAttempts`, to a
  worker that may not be the first), `Claim`/`ClaimSkips`, `Heartbeat` (which reads the
  cancel flag and finds out about a lost lease), `TimeLimit`, `TurnEnds`, `LeaseLost`,
  `Finish`, `WorkerDies`.
* `requestCancel` is two conditional UPDATEs, two `CancelUpdate` steps; `SweepStale`
  marks every stale active run of a conversation.

`LeaseHolds` is the environment assumption "a live executor renews its lease within
60 s". The code cannot enforce it (a failing heartbeat is only logged), so properties
are stated with and without it.

### RunEvents

One run and its subscribers. The writer (`run-event-writer.ts`) numbers pieces in
memory, merges text for 200 ms, and inserts through a promise chain: `PushText`,
`PushEvent`, `FlushTimer`, `AppendBatch`; an insert may fail before or after the
database stored it (`AppendMayFail`). `Close`, `CloserReads`, `CloserInserts` are the
sweep (or cancel, or failed start): mark the status, read the highest seq, insert
`error` and `done`. `swept` is a history variable: what the sweep of a running run found,
the executor's done row in the log (`"told"`), else the executor alive or dead. `Forget` is the next run's deletion of the log. `Poll`,
`EmptyPoll`, `StatusCheck`, `TailCheck` are the streamer's three reads. A `Poll` hands
over one row, the next after the cursor: a query that finds several is several of these
steps, since the connection may end after any row and the client reconnects from the
last it saw, the cursor, which is all it keeps.

### HistoryPipeline, Histories and TurnHistory

A message is a role and blocks; a block is a type and an id. `History` is the
composition runTurn applies in the order it applies it: trimming to the last
compaction, dropping orphaned server results, `sanitizeToolPairs`,
`mergeConsecutiveRoles`, seeding, rehydration of files within window and budget.
`WellFormed` states what the API demands (external; taken from the comments and
repairs in `ai.service.ts`: first message is the user's, roles alternate, results
stand first in the message after their uses, each use has its result).

`Histories` is the environment of the pipeline: a history grows row by row, each row any
the program, or an earlier version of it, can have stored (`AssistantBlocks`,
`UserBlocks`), in any order. `Loaded` is what `runTurn` makes of it when it ends with the
run's prompt.

`TurnHistory` adds the writers of the table: launcher (prompt and its removal), the
loop of model call and tool round with one action per saved row, both terminators
(the turn's own and the sweep's), deaths anywhere, saves that throw, and the retention
purge (`Purge`, which cuts in front of a prompt). The status of a run is reduced to
none / queued / running / cancelled (before it ran) / ended, since `AgentRuns` has the
rest. `CancelQueued` is the first UPDATE of `requestCancel`: a queued run closes at any
moment of its launch, and the launcher, which does not learn of it, goes on to save its
prompt and dispatch. (The second UPDATE is a flag the turn looks at: `Stop`.) `env` is drawn in
`Init` from the constant `Environments` and never changes: it says how many rounds a
turn may have, what its answers contain, whether leases are renewed in time, whether
saves fail, whether the purge runs and how `createTask` may answer. One run thus
covers five combinations that would be too large together.

### Memberships

An organization and a case of it. A request slot goes from the guard's answer
(`Ask`) over what it reads (`LockAndCheck`, `Read`) to its write (`ChangeMember`,
`Join`, `Add`, `Revoke`, `SaveEdit`, `DropCase`, `Purge`); between these steps other
requests run. Operations that lock their row (`updateMemberRole`, `removeMember`,
`leave`, `accept`) hold `lock`; writes of others wait for it as Postgres makes them
(an insert takes a share lock on the row its foreign key names). The authority read by
the guard may be gone when the request writes: that is kept. `SaveEdit` models
TypeORM's `save`: it writes every column that differs from the row, so a rename read
before a soft delete restores the organization, and it inserts a row it does not find,
so an edit that overtakes a deletion brings the case, or the organization, back without
members. `intact` is a history variable: it turns FALSE when an account deletion takes a
lead or a late save brings a group back, neither of which checks anything.

The creator of an invite is not recorded (the model then deletes accounts the foreign
key would protect), and editors, viewers, members and guests differ only where a rule
tells them apart.

### OAuthSessions

A *flow* is one connection of one client installation: its signed state bag, its
consumed-state row, its code, its session, and at the client the pair of tokens of the
last answer that arrived. A pair is named by its number, so that looking a token's hash
up is comparing numbers. A request is a record with a program counter; each awaited
statement is one action:

* consent (`authorize.controller`, `consent.controller`): `Authorize`, `Decode`,
  `Consume`/`ConsumeConflicts` (the primary key of `oauth_consumed_state`),
  `CheckConsent`, `IssueCode`;
* exchange: `ReadCode`, then `Exchange` or `ExchangeLoses` (the conditional update and
  the insert of the session are one transaction);
* refresh: `Refresh` (the lookup), `CheckOwner`, `Rotate` (an update by id alone), and
  `RevokeAll` for a session that was found revoked or whose owner is no member now;
* disconnect: `FindToRevoke`, `RevokeSession`;
* MCP (`mcp-auth.helper`): `Call`, `Admit`.

Around them: answers that arrive or are lost (`Receive`, `LoseAnswer`), bags, codes and
tokens that expire, memberships that come and go, requests that die. `outcomes`,
`asked`, `lapsed` and `smooth` are history variables that only the properties read.

### DataRoom

One case. A member has one request at a time; its record holds what it has read so far
(the ids, the cursor of the ancestry walk, the queue and the finds of a folder
deletion). Each step is one await and may be the last (`Stop`): nothing the service
does undoes a half-done operation. `BeginX` is the first read with its 404; after it
come `CheckFolder`, `PutObject`, `InsertRow`, `LogUpload` (upload, chat upload, Drive
import), `OpenObject`, `LogRead` (every read that logs), `RemoveRow`, `DeleteObject`,
`LogDelete`, `CheckTarget`, `SaveFile`, `Walk`, `CheckParent`, `SaveFolder`,
`InsertFolder`, and for folder deletions `Gather`, `FindFiles`, `LogAll`, `DeleteRows`,
`DeleteFolders`, `DeleteObjects`. `SaveFile` and `SaveFolder` are TypeORM's `save()`:
the row is written if it is there and inserted again if it went before `save()` looked.

`Init` is any forest with any files in it. `revived` remembers files a late move wrote
back, `clash` whether a folder deletion has ever overlapped another request.
`MovesAtOnce` bounds how many folder moves may overlap: 1 in the run that checks the
tree, 2 in the one that shows what two do.

### Traces

The traces of one investigation, each one JSON value: nodes with an address, edges with
a transfer and two ends. Both carry who wrote them (`by`): the service, which compares
what it adds with what the trace has, or a hand, which may write anything. A server
request (`Editors`: agents, scripts, other browsers) reads its trace (`BeginEdit`), an
import also its siblings (`ReadSiblings`), and saves the whole value (`SaveTrace`) or
gives up (`AbandonEdit`). What it saves is one of `Results`:

* `Imports`, the body of importTransactions: it resolves both ends of a transfer against
  the trace and its siblings, makes the nodes that are missing (one only where both ends
  are the same address), and skips a transfer it knows by its identity key;
* `Grouped`, createGroup, which makes a node unless its address is there;
* `Changes`, for `update` and the methods on one node or edge: another name, a node or
  edge less, or any node or edge put in, new or in the place of one with its id;
* nothing, when it removes the trace. `Create` is `POST /traces` of somebody else.

The browser is the other writer. It loads (`LoadInvestigation`, `LoadArrives`,
`LoadFails`); it edits (`UserEdit`: the same `Changes`, so wallets and transactions added
without a check, edges repointed, also across traces; `UserMove`: moves, which leave no
record); it adds a trace or extracts nodes into one (`CreateTrace`, the row is made first;
`CreateAnswered`, `Extracted`; `CreateFails`), and deletes one without waiting
(`DeleteTrace`; `DeleteArrives`, `DeleteFails`). `Undo` and `Redo` change what is shown and
ask the server for nothing. The debounce is `TimerFires`; the auto-save is a loop of
PATCHes, each a read and a save on the server (`PatchFinds`, `PatchSaves`), that stops for
good at the first error (`LoopFails`; in `PatchFinds` at a row that is gone). `fresh` is
the identity test `investigation === serverSnapshotRef.current` that decides whether an
edit arms the timer. `excuse` records why browser and server may differ for good.

## 3. Runs

All state counts are of distinct states; every run stays below five minutes.

| run | question | bounds, and why they are enough |
|---|---|---|
| `lease` | with leases renewed: exclusive claim, no sweep of a living run, one loop per conversation, no lost cancel, refinement | 2 runs, 1 conversation, 2 workers, 2 deliveries: the conflicts are pairs (run/run over the index, worker/worker over a claim); conversations do not interact. The theorems cover the rest |
| `live` | does every run end, whatever dies | 2 runs, 1 worker, 1 delivery, no lease assumption |
| `events` | what subscribers see and are told, and that they are told | 2 pieces (so that pieces coalesce or come apart, and a gap can exist), 1 subscriber (subscribers do not interact); the safety part was also run with 3 pieces |
| `pipeline` | the pure pipeline over every short history | 4 rows before the prompt: a round needs 2, a fault next to another round 4; two files of different size, a budget that takes one of the larger or two of the smaller |
| `history` | can any mixture of writers, failures, deaths and purges leave a history the API refuses; are tails repaired, turns whole, memory equal to rows | 2 runs (each property is about one run's rows next to another's), five environments: `Kind` (2 rounds, reads, compactions), `Harsh` (swept alive, saves, sweeps and dispatches fail), `Ambiguous` (`createTask` fails and leaves its task), `Purging`, `Failing` (`Purging` with saves that fail and sweeps that die), in each of which a queued run may be cancelled; 383,817 states |
| `memberships` | do requests in flight keep the last lead; does a revoked invite admit | 2 users, 2 requests, 1 invite: the races are between two requests over two members; 2,068,038 states |
| `lastlead` | violation: the rule as ROLES.md words it, against account deletion | as `memberships` |
| `oauth` | one outcome per consent, one session per code, revocations that hold and have a cause, members only, pairs in step | 1 user, 1 organization, 2 connections, 2 sessions, 2 requests, 2 pairs per connection (one rotation), 1 change of membership or expiry. The proofs cover any number of each |
| `dataroom` | do rows keep their objects, the log its order, the tree its shape, wherever requests overlap or stop | 2 files, 3 folders (a chain of three is the shortest with a middle), 2 members, 2 requests, every initial forest; 184,520 states |
| `foldercycle` | violation: two folder moves that overlap | as `dataroom`, `MovesAtOnce = 2` |
| `traces` | do reads and saves that cross make duplicates; does the auto-save end with what the screen shows | 2 traces (edges and extractions cross between two), 2 requests beside the browser, 2 addresses and 3 transfers (two between the addresses, known by their ends or by a ledger position; one from an address to itself, which a trace may hold at the start and which may be drawn by hand), 2 edits, additions and deletions in all (a fault takes an import and a change after what is there, or an edit and an undo; undos, redos, loads and saves are not counted), 1 load and 1 auto-save at a time; 1,005,720 states. The theorems cover any number of each |
| `undo` | violation: an undo back to the loaded snapshot is not saved | as `traces` |

`CHECK_DEADLOCK FALSE` stands where a run of the model ends (all runs over, all
requests or edits used up); `memberships` never ends and checks deadlock.

### Properties that deserve a word

* `SeesPrefix` lets a gap through once a later run has deleted the log and a swept
  executor still writes into it; even then nothing comes twice.
* `DoneNotContradicted` has two exceptions, both of which the code has, and in both what
  the subscriber was told is the executor's own outcome. A process that dies between
  flushing `done: succeeded` and `finish` leaves a run the sweep marks `interrupted`, with
  a second `done` row (`swept = "told"`). And where leases do not hold, a zombie's done
  row may come in before the sweep's (`swept = "alive"`). A run swept with its executor
  dead and nothing told, cancelled, or ended by `finish` is never contradicted.
* `EveryRequestAccepted` excludes what `lost` records: a turn that goes on though the
  launcher has deleted its prompt, because `createTask` reported an error and left the
  task, and a sweep's note written after the purge has emptied the conversation. Both
  leave an assistant row in front, and the next request is refused.
* `TailRepaired` and `TurnsWhole` are stated where nobody alive is swept and no start
  fails (`Orderly`). In the `Harsh` environment the tail may stay and rows interleave;
  `EveryRequestAccepted` holds there, so the damage ends with the next request.
* `TurnsWhole` lets two kinds of row stand within a turn: repairs, and the prompt of a run
  that was cancelled before it ran, whose launcher saves it during the next turn. The
  purge cuts in front of a prompt and knows no better: if it cuts at such a prompt, the
  rest of the turn around it comes first after it.
* `KeepsLead` says nothing of a group whose lead an account deletion took: the check
  in flight may then be wrong too, as a demotion that counted the deleted admin shows.
  Nor of a group that a late save brought back without members.
* `RevocationHasCause` is about what a user can lose by retries alone: nothing. It does
  not say the cause is in the same session: one disconnected agent that refreshes once
  more takes all sessions of its owner with it.
* `HeldPairIsCurrent` holds while refreshes of one connection do not overlap and no
  answer is lost (`smooth`). Otherwise a client may be left with a dead pair and has to
  connect again; it is not taken for a thief.
* `RowHasObject` has one exception, `revived`: a move that read the row before its
  deletion inserts it again.
* `TreeWhole` holds until a folder deletion has overlapped another request (`clash`);
  a row put into a folder between its search and its delete is left behind.
* `NoDuplicateFact` is about what the service adds. A wallet, a transaction or a trace
  value written by hand is compared with nothing, in the browser as in `update`, and may
  double an address or transfer that is there; so may a node whose address was changed.
  Of edges it speaks where the service can tell: a transfer with a ledger position, or one
  whose two ends are nodes of the trace that nobody has changed. With an end in a sibling
  trace, or at a node that is gone, the key is built from an id, and a second import of
  the transfer adds a second edge.
* `SavedWhenQuiet` has three excuses. `"overlap"`: somebody else saved, two of the browser's
  requests overlapped, or one failed; last-write-wins is the design there. `"undo"`: the
  undo the run `undo` shows. `"traces"`: an undo or redo took a trace from the browser or
  brought one back, of which the server hears nothing (the same when the nodes of an
  extraction have left before its trace was made, so that an empty row stays).

### Mutants

A definition `X_Y` is `X` with the fault `Y`: a dropped guard, a swapped order, one
row too many. No specification uses it. Each property of each passing run has one: put
in place of `X`, it makes TLC find that property violated, which shows that the
property depends on that code.

### Divergences

Shown by a run:

1. `lastlead`: deleting the account of the only admin leaves an organization without
   one; `docs/ROLES.md` says the system refuses any such operation.
2. `foldercycle`: `docs/data-room.md` says a move that makes a cycle is rejected; of two
   moves that overlap both pass the walk.
3. `undo`: a comment in `useInvestigationLoader.ts` calls saving a loaded snapshot
   redundant; after an auto-save and an undo it is not, and the edit comes back.

Met while modelling, without a run of their own:

* Runs: without renewed leases a retry can start a second loop until the next heartbeat
  that succeeds (`docs/agent-runs.md:7`, `agent-run-executor.service.ts:81`). A failed
  start may leave its prompt or its queued run, as the compensation itself may fail
  (`agent-run-launcher.service.ts:20`). A run can be claimed after its prompt was
  deleted. A run cancelled while its launcher is at work is closed at once, so a second
  POST may start and the first one's prompt is saved in the middle of its turn, although
  `docs/agent-runs.md:7` rules out history writes that interleave; and the purge, which
  takes that prompt for the beginning of a turn, may cut the turn there, between a tool
  use and its result too (`docs/chat-retention.md:9` says that cutting at prompts leaves
  no orphaned tool results; the pipeline drops them).
* History: the launcher deletes the prompt although the task was accepted
  (`agent-run-launcher.service.ts:69`; the comment at `ai.service.ts:273` rules out a
  conversation that starts with an assistant row). The sweep reads the tail and saves
  its note without a lock (`conversations.service.ts:209`), so the note may follow the
  next prompt, or the purge that emptied the conversation. A start that fails between
  a sweep's closing update and its look at the tail hides the tail from it.
* Members: a rename undoes a soft delete; an edit of a case or organization inserts it again
  after its deletion or purge, without members; a purge overtakes a restore; an account deletion between the count and the write of a
  demotion takes the last two admins.
* Traces: undoing the addition, extraction or deletion of a trace changes the screen only
  (`useInvestigation.ts:407`): the added or extracted trace stays on the server, with the
  nodes that the auto-save has meanwhile put back where they came from as well; the deleted
  one does not come back, and the auto-save then stops at its 404, so that no trace after
  it is saved until the next load. An import is not the only way in: `update`, `create` and
  the browser put nodes and edges without the duplicate check.
* OAuth: the next refresh of a disconnected client finds a revoked session and revokes
  all sessions of its owner as `refresh_reuse` (`oauth.service.ts:507`), although
  `docs/ROLES.md:320` promises to disconnect one device. The comment at
  `oauth-session.entity.ts:96` says an old refresh token revokes the session; the code
  finds no row for it and refuses (`oauth.service.ts:466` says so).
* Data room: a move of a deleted file inserts its row again, without object
  (`docs/data-room.md:41`, "always in lockstep"). What enters a folder between the
  search and the delete of a folder deletion stays behind; what left it in between is
  deleted all the same. An upload whose row fails leaves its object. `deleteFile`
  writes its log entry last.
* Scripts (read, not modelled): the token is signed before the script waits for a slot
  (`script-execution.service.ts:105`), so a long queue can outlast its 60 s; a slot is
  not given back when creating the isolate throws (`:252`).

## 4. Fairness

* `AgentRuns!Fairness`: the turn of a live worker ends (the time limit aborts it), its
  last steps happen, the lease of a run nobody executes runs out, and a stale run is
  swept. The last is what the code needs and does not schedule: somebody has to open
  the conversation or wait on the stream. Claims, deliveries, launchers and cancels
  get no fairness.
* `RunEvents!Fairness`: the writer and the executor go on while the process lives, a
  run nobody executes is swept (a waiting subscriber does it), a subscriber polls.
  Dying is never required or excluded.
* `TurnHistory`, `Memberships`, `OAuthSessions`, `DataRoom` and `Traces` state safety
  only: nothing in their code retries, so a request may stop for good at any await.

## 5. Proofs

`AgentRuns_proofs` (any runs, conversations, workers, `MaxAttempts`, both values of
`LeaseHolds`; assumptions `NoneAssumption`, `AttemptsAssumption`, `LeaseAssumption`).
None of the safety properties is inductive: that a claim is exclusive needs to know
that a worker in its turn works on a run that is running or interrupted, and never
queued again; that no living run is swept needs the lease bit. `IInv` is types,
`RowInv` (a row exists only after its insert, with its conversation),
`OneActivePerConversation` (the index), `CancelInv` (a cancel that passed its first
update found no queued run, and nothing goes back to queued), `WorkerInv`,
`ClaimedOnce` and `LeaseInv`. `StepTypeOK` and one lemma per part show that each
action keeps it, and `Invariance` combines them. From it: `TypeCorrect`,
`ClaimIsExclusive`, `CancelIsKept`, `SweepSparesTheLiving`,
`OneLoopPerConversation` (under `LeaseHolds`), and `Refinement`: every step of
`AgentRuns` is an `Open`, `Start`, `End` or stutter of `RunLifecycle`. TLC checks the
refinement with the lease; the theorem needs no lease.

`Memberships_proofs` (any users, requests, invites and role sets with their leads;
assumption `RolesAssumption`). `KeepsLead` is not inductive: a write preserves it only
because the check made earlier is still true. `LockInv` says a checked request holds
its row, `LockProtects` that nobody else then changes the roles of that group except
by deleting an account, and `CheckedInv` that the group keeps a lead besides the
target. `TypeCorrect` and `LastLeadStays` follow. The latter rests on the row lock
alone: guards may be stale. `RevocationHolds` adds `InviteInv` (a checked acceptance
has an unused, unrevoked invite), which the lock on the invite row keeps until the
write.

`OAuthSessions_proofs` (any users, organizations, connections, sessions, requests and
bounds; assumptions `OwnerAssumption`, `NoneAssumption`, `BoundsAssumption`). What a
request has read must be tied to what the rows still say: `RequestInv`, `RowInv` and
`CodeOrgInv` say which rows a request names; `BagInv` that after the consumed row there
is one request per bag and no outcome yet; `IssuedInv` and `CodeInv` that a code is
issued once and used before its session exists; `EntitledInv` and `CauseInv` tie an
answer read earlier to the history of memberships; `PairInv` ties the pair a client
holds, or the one answer under way, to the row. `Invariance` shows them kept by every
step; `TypeCorrect`, `BagOnce`, `CodeOnce`, `MembersOnly`, `CausedRevocations`,
`HeldIsCurrent` and `NeverRevived` follow.

`DataRoom_proofs` (any files, folders, members, requests, and any number of moves at
once; assumption `IdsAssumption`; `MembersAssumption` for the cycles). `RowHasObject` needs `FreshInv` (until its row is
inserted, nobody else knows the file of an upload), `InsertInv` (the row comes after
the object) and `DoomedInv` (an object goes when the row is gone, unless revived).
`RemovalsLogged` needs `LogInv`. `TreeWhole` needs that while `clash` is FALSE a
deletion is alone (`AloneInv`), so that a checked place stays (`TargetInv`), the search
misses nothing (`GatherInv`, `FoundInv`) and no file is outside the batch (`BatchInv`).
`NoFolderCycle` is proved for `MovesAtOnce <= 1`, which the run `foldercycle` shows to be
needed: `PathInv` says that a walk has left a path behind, from its target to its
cursor, that does not meet the folder it moves; folders that are inserted have an id
nobody is under (`RefInv`), and deletions only cut paths. A cycle after the save would
have to go along that path and stay on it, and be a cycle before. `Acyclic` says it
without recursion: among any folders there is one whose parent is not among them.
Theorems: `Invariance`, `TypeCorrect`, `StorageHolds`, `TreeStaysWhole`, `LoggedFirst`,
`TreeStaysATree`.

`RunEvents_proofs` (any subscribers, any number of pieces, lease or not, inserts that
fail or not; assumptions `PiecesAssumption`, `FlagsAssumption`, `NoneAssumption`). None
of the four properties is inductive, for what a subscriber holds depends on rows that
two writers number on their own. The invariant is built in layers:

* `TableInv`: types; `StatusInv`, which writer may still write given the status of the
  run; `ChainInv` and `CountInv`, what the queue of the writer's inserts holds and how
  far it has numbered; `LogInv`, where a done row may stand. `TailInv`: a subscriber that
  is at its last look at the log saw a run that had ended. With `DoneInv`, which places
  the status a subscriber may have been told in the log, and says by `swept` when it may be
  another than the run's, `DoneTellsStatus` follows.
* `StreamInv` says there is a map *p* from row numbers to how many pieces have been
  written up to that row, and two bounds *w* and *m*, that tie everything together: a
  row *n* of the log holds exactly the pieces between *p*[*n* - 1] and *p*[*n*], the
  rows still queued go on from *w*, a closer's rows stand after *m*, and a subscriber at
  cursor *c* has exactly the first *p*[*c*] pieces. The map is the history that
  the code does not keep; each step either leaves it or extends it at the end.
  `LogWithoutGaps` and, with `PrefixInv` for logs that were deleted,
  `AnswerSeenInOrder` follow.
* `EndInv`, `SuccInv` and `FullInv` say that `succeeded` is written, by a done row or by
  `finish()`, only when everything produced is in the log and nothing is queued:
  `WholeAnswerSeen`.

`Traces_proofs` (any traces, transfers, editors, undo depths and bounds; assumptions
`BoundsAssumption`, `TransfersAssumption`, `GoneAssumption`). `NoDuplicateFact` speaks of
one value of one trace, but a value is read, changed elsewhere and saved over another, so
`GraphInv` is about all copies at once: rows, the browser's copy, its undo and redo stacks,
its pending save, loads, auto-saves and requests in flight. Each of them is in `Views` or
`Stored`: well-typed, with ids that have been minted, and without a duplicate of what the
service added (`OneFactEach`). Nothing needs to be known about how two copies are related,
since every step makes its value from one copy. `Kept` is the lemma for whatever a hand
does: a value with no new node of the service and no newly recognised edge is as free of
duplicates as the one it came from (`ChangesStored`, `ExtractedStored`); `ImportStored` and
`GroupStored` are about what the service adds: `KeyOf`, that a recognised edge has the key
the import computes, so a second one is seen. `TypeCorrect` and `NoDuplicates` follow.

`SaveInv` says what holds while there is no excuse, which is more than `SavedWhenQuiet`: a
load under way has read what is there (`Answers`), the timer holds what is shown (`Copies`),
the traces of browser and server differ by those it is adding and deleting (`SameTraces`),
an auto-save has left to do what the server lacks of its copy (`LoopOK`), and without one
nothing is lacking (`Saved`). `EditsAreSaved` is what is left of it when nothing is pending.

`Histories_proofs` (histories of any length, block ids of any set, any files, budget and
window; assumptions `ModelAssumption` and `FileAssumption`). A row may be of any kind: `StoredRows` asks only what
every insert guarantees, that a row has blocks, not of server results alone, that results
share a user row with nothing else and uses are the assistant's.

* `EveryHistoryAccepted`: for *any* sequence of such rows that starts with a prompt and ends
  with one (`Framed`), the trim leaves references and blocks it may leave, the swap leaves
  no reference, `SanitizeStep` shows that each message kept agrees with the one kept before
  it, and `MergeStep` that merging keeps the pairs and restores the alternation. `Good`,
  what the pipeline returns, is kept when a round is added (`GoodExtend`), when the loop
  trims at a compaction (`GoodTrim`) and by the write-up (`GoodWriteUp`), and what the
  provider makes of it is accepted (`GoodRequest`).
* `AllRoundsKept`: the sanitizer judges a use by the next row as stored and a result by the
  previous row as kept, so a pair of neighbours is judged the same from both sides
  (`SanitizeKeepsUse`); the other stages take no use away.
* `NothingIsLost`: the ids of a message are the join of the ids of its blocks, those of a
  history the join of those of its messages (`Joined`, `JoinedConcat`). A stage that takes
  messages one by one and adds to the join what the message has keeps all ids
  (`StagesKeep`); the sanitizers leave out blocks without such an id (`ThroughSelect`), the
  merge puts two messages into one, and a swapped reference keeps its id (`SwappedIds`).
* `OnlyFilesThatFit` (and with it `FilesInBudget`): the walk over the references is a recursive function over a list of
  them, newest first; such a list exists (`Enumerated`) and leaves none out (`ListsAll`).
  `LoadFits` shows for every step of the walk that no set of different files among those
  taken weighs more than the total the walk has counted: if the set holds the file of
  this step, it is taken out (`SizeLeftBy`), and what remains was covered a step earlier.
  Only the last reference of a file is a candidate, so no file is loaded twice.
  The other stages move a loaded file but neither double it nor bring another
  (`FilesSwapped`, `AllElements`), so the budget holds for the request that is sent.
* `FilesOnlyFade`: the history made of the rows, every loaded file seen as its stub, is
  `Shown` of the rows, in which the files that can be read do not occur (`HistoryShown`).
  `ShownGrows`: two more rows that are a round add two messages to it, or, at a compaction,
  leave what the loop's trim leaves. `MemoryFollowsRows` below rests on both.
* `Grown` is the invariant of `Growth` that makes them apply: rows of the stored kinds, the
  first of them a prompt. From it `AllGrowthAccepted`, `AllRoundsKept` and `AllKept`; with
  `GrownFiled` (each reference is of a member of `Files`, whether or
  not it can be read) also `AllFilesFit`.

`TurnHistory_proofs` (any runs, rounds and environments; assumptions `RunsAssumption`,
`EnvironmentsAssumption`). `RowsInv` says which shapes a row can have, so that what the
purge keeps from is a prompt and what looks like a tool result is one.

* `TurnsStayWhole` and `TailIsRepaired` are about `Orderly` behaviours. `PhaseInv` ties
  the launcher, the status, the executor and the sweep of a run together; `OneActive` is
  the index. `TurnInv` is `TurnsWhole` with what makes it inductive: after a row of the
  active run only it, sweeps and launchers of cancelled runs have written, and a run that
  writes has its prompt. Runs that were cancelled before they ran stay so, write nothing
  but that prompt, and are left out of the count (`GoneGrows`, `MoreGone`). The purge
  keeps it because it cuts in front of a prompt and never removes the prompt of a run at
  work. `TailInv` says who will follow a tool result at the tail: its run, which
  knows that it owes a terminator, or a sweep of that run that has not read the tail yet
  or is about to save.
* `RequestsAccepted` needs no order at all: rows may be interleaved, doubled, orphaned or
  written by the dead. That the pipeline repairs them is `HistoryGood` of
  `Histories_proofs`, applied to the rows `TurnHistory` writes (`Stored`,
  `StoredHistoryGood`). So `Sound` has only to say that the table starts with a prompt
  (`FirstInv`, `PromptInv`), that without a purge a row other than a prompt is preceded by
  one (`RootInv`), and that each run's memory is good (`MemInv`), until a run has lost its
  prompt (`lost`, as `EveryRequestAccepted` has it). The theorem says
  `env.purges => env.dispatch = {"ok"}`: when a start is taken back, its prompt is deleted
  by id, and if a purge cut the table at just that prompt between its insert and its
  deletion, an answer could be left at the front. TLC finds that behaviour. It is one the
  model allows, where a purge may fall between any two statements; in the program a start
  lasts seconds, and the purge cuts what is weeks old.
* `MemoryFollowsRows` (`MemoryMatchesRows`), for `Orderly` behaviours without a purge. The rows of a run are
  saved one by one, its memory grows a round at a time, and others write in between, so
  the property is not inductive: it looks at the run only when it calls the model. In
  `Matching`, nothing has been lost, and for each run that writes (`MatchedAt`) there is a
  prompt and a list `done` of its rows of complete rounds: its own rows in the table are
  `done` and as much of the current round as `pc` says is saved (`Saved`), and the memory,
  faded, is what the pipeline shows of the rows up to the prompt followed by `done`. A run
  that has yet to load its history has one row, its prompt (`Single`). When a round
  completes, `ShownGrows` extends both sides alike; a row of another run or of a sweep is
  not among the run's own (`MatchStays`).
* `TypesHold`: with finitely many runs, `CountInv` says that the table never has more
  rows than `Account`, the set of (run, number) pairs the runs have spent so far: every
  insert is paid for by a pair that was not there. The pairs of a run are bounded by its
  rounds, hence `TypeOK`'s bound.

Only model-checked: liveness (`EveryRunEnds`, `EverySubscriberCloses`), which needs
fairness and ENABLED. Every safety invariant and action property that the passing runs
check is also a theorem.

Induction: the library's induction theorems take an operator as a parameter, which no
prover here can instantiate. Where a proof needs induction over numbers it uses
`LeastNumber` instead (a non-empty set of numbers has a least
element, from the well-foundedness theorem of finite sets), applied to the set of
counterexamples. `Iteration` does the same for the loops over messages: a function defined by
recursion exists and takes its steps.

## 6. Abstractions

* A model answer is its kind (text, tool calls); tool calls are one per round in
  `TurnHistory`, up to two in `pipeline`. File sizes use one budget where the code
  has bytes and pages. Cache marks, titles, usage rows and logging are left out.
* The streamer reads at most 500 rows per poll; with 2 or 3 pieces a poll reads all.
* A run is cancelled at most once; a second cancel repeats the same two conditional
  updates.
* Each SQL statement is atomic (READ COMMITTED, one row); a failed insert stores
  nothing or everything. The purge of `TurnHistory` is the statement on `messages`;
  the other three remove rows it does not have.
* In `Memberships` a deadlock that Postgres resolves by aborting one transaction is a
  wait for all locks of a cascade. The creator of an invite is not recorded.
* In `OAuthSessions` clients are honest (they present what they hold), hashes do not
  collide, and PKCE, client registration, surface labels, `lastUsedAt`, the throttle,
  consent previews and the cleanup of consumed states are left out. As in the code, an
  exchange does not look at the membership again, and a lost membership revokes the
  sessions of all organizations.
* In `DataRoom` the store fails by throwing; names, sizes, notes, listings, breadcrumbs,
  the cached upload id and the Drive side are left out. Deleting the whole case is not
  modelled.
* In `Traces` a node is its address and an edge its transfer and ends; ledger transfers
  stand for those whose identity has a position in it (Bitcoin and Solana). Names, groups,
  bundles, labels, colours and positions are one name. An edit of several traces
  (deleting a wallet's inbound or outbound edges) is as many edits with a record each; the
  edges an extraction draws again stay apart where the code sums up those with one other
  end; a trace that a load brings while its addition is under way is listed once. The undo
  stacks have no limit (50 in the code). One browser has a copy; the others are single
  requests. Junction rows and duplication are left out. Concurrent imports may mint a node
  for one address in two sibling traces, which no property forbids.

## 7. Not modelled, and the plan

Most of the repository's lines cannot be modelled to any use: generated API types,
React components, document rendering, query builders, clients of external services,
and CRUD handlers of one statement each. Their correctness is a matter of types,
layout and single calls, without a state that several steps share. The map is
therefore a small part of the code: the parts where order matters.

Order of what could follow:

1. A module for script execution: two slots, the FIFO queue, the signed token.
2. `TurnHistory`: `makeRoomForReads`, deletion and continuation of conversations.
3. Productions: several saves of one export that cross.
