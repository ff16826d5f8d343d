------------------------------ MODULE RunEvents ------------------------------
(***************************************************************************)
(* The event log of one run, from the agent loop to the browser. The       *)
(* executor's RunEventWriter numbers, coalesces and inserts the pieces of   *)
(* the answer; the process that closes the run in the executor's place (a   *)
(* sweep, a cancel of a queued run, a failed launch) appends `error` and    *)
(* `done` after the highest number it reads; the conversation's next run    *)
(* deletes the log; and subscribers poll it, reconnecting from the last     *)
(* number they saw. Nobody holds a lock: the primary key (run_id, seq) is   *)
(* all that orders two writers.                                            *)
(***************************************************************************)
EXTENDS Naturals, Sequences, FiniteSetsExt

CONSTANTS Subscribers,
          MaxPieces,     \* text deltas and other events the turn produces at most
          LeaseHolds,    \* TRUE: a live executor is never swept
          AppendMayFail, \* TRUE: an INSERT may fail for reasons of its own
          None

ASSUME PiecesAssumption == MaxPieces \in Nat
ASSUME FlagsAssumption  == LeaseHolds \in BOOLEAN /\ AppendMayFail \in BOOLEAN

VARIABLES
  status,    \* agent_runs.status
  log,       \* the rows of agent_run_events, by seq
  forgotten, \* how often later runs of the conversation deleted rows: 0, 1 or 2 (more)
  produced,  \* pieces the turn has produced
  pending, chain, wseq, failed, \* RunEventWriter: pendingText, chain, seq, failure
  pc, next, outcome,            \* the executor; next is where an await resumes
  closer, maxRead,              \* who closes the run instead of the executor
  swept,     \* history: what the sweep of a running run found
  sub, cursor, got, final       \* subscribers: got are the pieces received

tableVars  == <<status, log, forgotten>>
writerVars == <<pending, chain, wseq, failed>>
execVars   == <<pc, next, outcome>>
closerVars == <<closer, maxRead, swept>>
subVars    == <<sub, cursor, got, final>>
vars == <<tableVars, produced, writerVars, execVars, closerVars, subVars>>

Active   == {"queued", "running"}
Outcomes == {"succeeded", "failed", "cancelled", "timed_out"}
Terminal == Outcomes \cup {"interrupted"}
Pieces   == 1..MaxPieces

ASSUME NoneAssumption == None \notin Terminal

\* A row carries the pieces of the answer it holds; a done row, the status.
Row == [type : {"text", "event", "error", "done"}, pieces : Seq(Pieces), status : Terminal \cup {None}]
PieceRow(type, ps) == [type |-> type, pieces |-> ps, status |-> None]
ErrorRow == PieceRow("error", <<>>)
DoneRow(s) == [type |-> "done", pieces |-> <<>>, status |-> s]

TypeOK ==
  /\ status \in Active \cup Terminal
  /\ DOMAIN log \subseteq 1..(MaxPieces + 4) /\ \A n \in DOMAIN log : log[n] \in Row
  /\ forgotten \in 0..2 /\ failed \in BOOLEAN
  /\ produced \in 0..MaxPieces /\ pending \in Seq(Pieces)
  /\ wseq \in 0..(MaxPieces + 2)
  /\ chain \in Seq([first : 1..wseq, rows : Seq(Row)])
  /\ pc \in {"unclaimed", "turn", "await", "error", "done", "finish", "ended", "dead"}
  /\ next \in {"turn", "done", "finish"} /\ outcome \in Outcomes \cup {None}
  /\ closer \in {"none", "read", "insert", "ended"} /\ maxRead \in 0..(MaxPieces + 2)
  /\ swept \in {"no", "told", "alive", "silent"}
  /\ sub \in [Subscribers -> {"poll", "check", "tail", "closed"}]
  /\ cursor \in [Subscribers -> 0..(MaxPieces + 4)]
  /\ got \in [Subscribers -> Seq(Pieces)]
  /\ final \in [Subscribers -> Terminal \cup {None}]

Init ==
  /\ status = "queued" /\ log = <<>> /\ forgotten = 0
  /\ produced = 0 /\ pending = <<>> /\ chain = <<>> /\ wseq = 0 /\ failed = FALSE
  /\ pc = "unclaimed" /\ next = "turn" /\ outcome = None
  /\ closer = "none" /\ maxRead = 0 /\ swept = "no"
  /\ sub    = [u \in Subscribers |-> "poll"]
  /\ cursor = [u \in Subscribers |-> 0]
  /\ got    = [u \in Subscribers |-> <<>>]
  /\ final  = [u \in Subscribers |-> None]

-----------------------------------------------------------------------------
(* The table agent_run_events.                                             *)

MaxSeq == Max(DOMAIN log \cup {0})

Batch(first, rows) == [n \in first..(first + Len(rows) - 1) |-> rows[n - first + 1]]

\* The primary key refuses the whole statement.
Conflicts(batch) == DOMAIN batch \cap DOMAIN log # {}
WithBatch(batch) == [n \in DOMAIN log \cup DOMAIN batch |->
                       IF n \in DOMAIN log THEN log[n] ELSE batch[n]]

SeqsAfter_Inclusive(c) == {n \in DOMAIN log : n >= c}
SeqsAfter(c) == {n \in DOMAIN log : n > c}

-----------------------------------------------------------------------------
(* RunEventWriter. write() cuts a batch: the pending text, then the event. *)

PendingAfterWrite_Kept == pending
PendingAfterWrite == <<>>

Write(events) ==
  LET text == IF pending = <<>> THEN <<>> ELSE <<PieceRow("text", pending)>>
      rows == text \o events
  IN /\ pending' = PendingAfterWrite
     /\ wseq'    = wseq + Len(rows)
     /\ chain'   = IF failed \/ rows = <<>> THEN chain
                   ELSE Append(chain, [first |-> wseq + 1, rows |-> rows])
     /\ UNCHANGED failed

(* The 250 ms timer is set exactly while text is pending. It outlives the  *)
(* executor, but not its process.                                          *)
FlushTimer ==
  /\ pc # "dead" /\ pending # <<>>
  /\ Write(<<>>)
  /\ UNCHANGED <<tableVars, produced, execVars, closerVars, subVars>>

(* The next INSERT of the chain. A failed one rejects all that follow; an  *)
(* error of the connection leaves it open whether the rows are there.      *)
AppendBatch ==
  /\ pc # "dead" /\ chain # <<>>
  /\ LET batch == Batch(Head(chain).first, Head(chain).rows) IN
     \/ /\ ~Conflicts(batch)
        /\ log' = WithBatch(batch) /\ chain' = Tail(chain) /\ UNCHANGED failed
     \/ /\ Conflicts(batch) \/ AppendMayFail
        /\ log' \in {log} \cup (IF Conflicts(batch) THEN {} ELSE {WithBatch(batch)})
        /\ chain' = <<>> /\ failed' = TRUE
  /\ UNCHANGED <<status, forgotten, produced, pending, wseq, execVars, closerVars, subVars>>

-----------------------------------------------------------------------------
(* The executor.                                                           *)

Claim ==
  /\ pc = "unclaimed" /\ status = "queued"
  /\ status' = "running" /\ pc' = "turn"
  /\ UNCHANGED <<log, forgotten, produced, writerVars, next, outcome, closerVars, subVars>>

\* push() of a text_delta returns at once.
PushText ==
  /\ pc = "turn" /\ ~failed /\ produced < MaxPieces
  /\ produced' = produced + 1
  /\ pending'  = Append(pending, produced + 1)
  /\ UNCHANGED <<tableVars, chain, wseq, failed, execVars, closerVars, subVars>>

\* push() of any other event: write it and await the chain.
PushAndAwait(row, resume) ==
  /\ ~failed
  /\ Write(<<row>>)
  /\ pc' = "await" /\ next' = resume
  /\ UNCHANGED <<tableVars, closerVars, subVars, outcome>>

PushEvent ==
  /\ pc = "turn" /\ produced < MaxPieces
  /\ produced' = produced + 1
  /\ PushAndAwait(PieceRow("event", <<produced + 1>>), "turn")

Resume ==
  /\ pc = "await" /\ chain = <<>> /\ ~failed
  /\ pc' = next
  /\ UNCHANGED <<tableVars, produced, writerVars, next, outcome, closerVars, subVars>>

(* The turn returns, throws or is aborted, or a failed push ends it. An    *)
(* error of the turn (not an abort) is written before `done`.              *)
TurnEnds ==
  /\ \/ pc = "turn" /\ outcome' \in Outcomes
     \/ pc = "await" /\ next = "turn" /\ failed /\ outcome' \in Outcomes \ {"succeeded"}
  /\ pc' = IF outcome' = "failed" THEN "error" ELSE "done"
  /\ UNCHANGED <<tableVars, produced, writerVars, next, closerVars, subVars>>

\* A heartbeat found the run no longer running: nothing more is pushed.
LeaseLost ==
  /\ pc = "turn" \/ (pc = "await" /\ next = "turn" /\ failed)
  /\ status # "running"
  /\ pc' = "ended"
  /\ UNCHANGED <<tableVars, produced, writerVars, next, outcome, closerVars, subVars>>

PushError == pc = "error" /\ PushAndAwait(ErrorRow, "done") /\ UNCHANGED produced
PushDone  == pc = "done" /\ PushAndAwait(DoneRow(outcome), "finish") /\ UNCHANGED produced

\* A failed write of error or done is logged, and the run finished all the same.
ClosingFails ==
  /\ failed /\ (pc \in {"error", "done"} \/ (pc = "await" /\ next # "turn"))
  /\ pc' = "finish"
  /\ UNCHANGED <<tableVars, produced, writerVars, next, outcome, closerVars, subVars>>

FinishWhere_AnyStatus(s) == s \in Active \cup Terminal
FinishWhere(s) == s = "running"

Finish ==
  /\ pc = "finish"
  /\ status' = IF FinishWhere(status) THEN outcome ELSE status
  /\ pc' = "ended"
  /\ UNCHANGED <<log, forgotten, produced, writerVars, next, outcome, closerVars, subVars>>

ExecutorDies ==
  /\ pc \in {"turn", "await", "error", "done", "finish"}
  /\ pc' = "dead"
  /\ UNCHANGED <<tableVars, produced, writerVars, next, outcome, closerVars, subVars>>

-----------------------------------------------------------------------------
(* Closing a run in the executor's place: mark the row, read the highest   *)
(* seq, insert after it. The statements are not one transaction.           *)

\* requestCancel and failQueued close a queued run, sweepStale a stale one.
MayClose(s) ==
  \/ s \in {"cancelled", "failed", "interrupted"} /\ status = "queued"
  \/ s = "interrupted" /\ status = "running" /\ (LeaseHolds => pc = "dead")

\* A sweep finds that the executor has told its end, or is alive, or neither.
DoneLogged == \E n \in DOMAIN log : log[n].type = "done"
SweepFinds == IF DoneLogged THEN "told" ELSE IF pc = "dead" THEN "silent" ELSE "alive"

Close(s) ==
  /\ MayClose(s)
  /\ status' = s /\ closer' = "read"
  /\ swept' = IF status = "running" THEN SweepFinds ELSE swept
  /\ UNCHANGED <<log, forgotten, produced, writerVars, execVars, maxRead, subVars>>

CloserReads ==
  /\ closer = "read"
  /\ closer' = "insert" /\ maxRead' = MaxSeq
  /\ UNCHANGED <<tableVars, produced, writerVars, execVars, swept, subVars>>

FirstSeq_Skips == maxRead + 2
FirstSeq == maxRead + 1

\* A conflict is swallowed: streamers make up for the missing done.
CloserInserts ==
  /\ closer = "insert" /\ closer' = "ended"
  /\ LET rows  == (IF status = "cancelled" THEN <<>> ELSE <<ErrorRow>>) \o <<DoneRow(status)>>
         batch == Batch(FirstSeq, rows)
     IN log' = IF Conflicts(batch) THEN log ELSE WithBatch(batch)
  /\ UNCHANGED <<status, forgotten, produced, writerVars, execVars, maxRead, swept, subVars>>

CloserDies ==
  /\ closer \in {"read", "insert"} /\ closer' = "ended"
  /\ UNCHANGED <<tableVars, produced, writerVars, execVars, maxRead, swept, subVars>>

\* createQueued of one of the conversation's next runs, which the index admits
\* only when this one has ended.
Forget ==
  /\ status \in Terminal /\ log # <<>>
  /\ log' = <<>> /\ forgotten' = Min({2, forgotten + 1})
  /\ UNCHANGED <<status, produced, writerVars, execVars, closerVars, subVars>>

-----------------------------------------------------------------------------
(* A subscriber: the streamer's loop and the browser's. A poll reads the   *)
(* rows after the cursor and hands them over one by one. The connection    *)
(* may end after any of them, and the browser reconnects from that one: so *)
(* a poll that finds several rows is as many of these steps.               *)

Poll(u) ==
  /\ sub[u] = "poll"
  /\ \E n \in SeqsAfter(cursor[u]) :
       /\ \A m \in SeqsAfter(cursor[u]) : n <= m
       /\ cursor' = [cursor EXCEPT ![u] = n]
       /\ got'    = [got EXCEPT ![u] = @ \o log[n].pieces]
       /\ IF log[n].type = "done"
          THEN /\ sub'   = [sub EXCEPT ![u] = "closed"]
               /\ final' = [final EXCEPT ![u] = log[n].status]
          ELSE UNCHANGED <<sub, final>>
  /\ UNCHANGED <<tableVars, produced, writerVars, execVars, closerVars>>

Step(u, from, to) == sub[u] = from /\ sub' = [sub EXCEPT ![u] = to]

\* A poll finds nothing and the 10 s for a status check are over.
EmptyPoll(u) ==
  /\ SeqsAfter(cursor[u]) = {}
  /\ Step(u, "poll", "check")
  /\ UNCHANGED <<tableVars, produced, writerVars, execVars, closerVars, cursor, got, final>>

Ended_UnlessSwept(s) == s \in Outcomes
Ended(s) == s \notin Active

StatusCheck(u) ==
  /\ Step(u, "check", IF Ended(status) THEN "tail" ELSE "poll")
  /\ UNCHANGED <<tableVars, produced, writerVars, execVars, closerVars, cursor, got, final>>

TailLeft_Assumed(u) == FALSE
TailLeft(u) == SeqsAfter(cursor[u]) # {}

\* Rows written meanwhile are polled first; otherwise done is made up.
TailCheck(u) ==
  /\ \/ TailLeft(u) /\ Step(u, "tail", "poll") /\ UNCHANGED final
     \/ /\ ~TailLeft(u) /\ Step(u, "tail", "closed")
        /\ final' = [final EXCEPT ![u] = status]
  /\ UNCHANGED <<tableVars, produced, writerVars, execVars, closerVars, cursor, got>>

-----------------------------------------------------------------------------
Writer    == FlushTimer \/ AppendBatch
Executor  == \/ Claim \/ PushText \/ PushEvent \/ Resume \/ TurnEnds \/ LeaseLost
             \/ PushError \/ PushDone \/ ClosingFails \/ Finish
Closer    == (\E s \in Terminal : Close(s)) \/ CloserReads \/ CloserInserts \/ CloserDies
Follow(u) == Poll(u) \/ EmptyPoll(u) \/ StatusCheck(u) \/ TailCheck(u)

Next == Writer \/ Executor \/ ExecutorDies \/ Closer \/ Forget
          \/ \E u \in Subscribers : Follow(u)

Spec == Init /\ [][Next]_vars

(* A process that lives goes on (a turn ends, by its time limit at the     *)
(* latest), whoever follows a run nobody executes sweeps it, and goes on   *)
(* polling.                                                                *)
Abandoned == Close("interrupted") /\ pc \in {"unclaimed", "dead"}
Fairness ==
  /\ WF_vars(Writer) /\ WF_vars(Executor)
  /\ WF_vars(Abandoned)
  /\ \A u \in Subscribers : WF_vars(Follow(u))

FairSpec == Spec /\ Fairness
-----------------------------------------------------------------------------
(* Properties.                                                             *)

(* What a subscriber has received is the answer's beginning: each piece    *)
(* once and in order, through reconnects, coalescing and competing writers, *)
(* even after the log is deleted. Only a zombie's piece written into the   *)
(* deleted log can follow a gap, and even then nothing comes twice.        *)
ZombiePieces == forgotten = 2 \/ (forgotten = 1 /\ \E n \in DOMAIN log : log[n].pieces # <<>>)
SeesPrefix ==
  \A u \in Subscribers :
    /\ \A i, j \in DOMAIN got[u] : i < j => got[u][i] < got[u][j]
    /\ ~ZombiePieces => got[u] = [i \in 1..Len(got[u]) |-> i]

(* A subscriber told `succeeded` has the whole answer, unless an INSERT of  *)
(* the executor failed or the log was deleted: no status, read or made up,  *)
(* overtakes the events.                                                   *)
FullAnswer ==
  ~failed /\ forgotten = 0 =>
    \A u \in Subscribers : final[u] = "succeeded" => Len(got[u]) = produced

(* The status a subscriber was told is the run's. It can only be another    *)
(* one, and then the executor's own outcome, if the run was swept with its *)
(* executor's done row in the log (between the done event and finish()) or  *)
(* with its executor alive, which takes a lease that did not hold: its row *)
(* may then come in before the sweep's.                                    *)
DoneNotContradicted ==
  \A u \in Subscribers :
    sub[u] = "closed" /\ status \in Terminal =>
      \/ final[u] = status
      \/ /\ final[u] = outcome
         /\ swept = "told" \/ (swept = "alive" /\ ~LeaseHolds)

(* Two writers that number rows on their own leave no gap: a row that       *)
(* appears has no lower number than one a subscriber has already passed.   *)
LogGapless == forgotten = 0 => DOMAIN log = 1..MaxSeq

(* Whatever dies, everyone who follows the run is told that it has ended.  *)
EverySubscriberCloses == \A u \in Subscribers : <>(sub[u] = "closed")
=============================================================================
