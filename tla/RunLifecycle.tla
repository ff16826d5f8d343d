---------------------------- MODULE RunLifecycle ----------------------------
(***************************************************************************)
(* What docs/agent-runs.md promises of agent runs, seen from outside: a    *)
(* conversation has at most one active run, a run moves along              *)
(*    queued -> running -> succeeded|failed|cancelled|timed_out|interrupted *)
(* (or ends before it starts), and an ended run never changes again.       *)
(* Nothing is said of launchers, workers, leases or sweeps: AgentRuns has   *)
(* those, and implements this module.                                      *)
(***************************************************************************)
CONSTANTS Runs,           \* run ids
          Conversations,  \* conversation ids
          NoConv          \* the conversation of a run that has no row yet

VARIABLES runStatus,      \* Runs -> Status, "absent" before the row exists
          runConv         \* Runs -> Conversations, NoConv before the row exists

lifecycleVars == <<runStatus, runConv>>

ActiveStatus   == {"queued", "running"}
TerminalStatus == {"succeeded", "failed", "cancelled", "timed_out", "interrupted"}
Status         == {"absent"} \cup ActiveStatus \cup TerminalStatus

(* The ends an active status may come to: only a running run succeeds or   *)
(* times out.                                                              *)
EndsOf(s) == IF s = "running" THEN TerminalStatus
                              ELSE {"failed", "cancelled", "interrupted"}

LInit == /\ runStatus = [r \in Runs |-> "absent"]
         /\ runConv   = [r \in Runs |-> NoConv]

Open(r, c) ==
  /\ runStatus[r] = "absent"
  /\ \A q \in Runs : runConv[q] = c => runStatus[q] \notin ActiveStatus
  /\ runStatus' = [runStatus EXCEPT ![r] = "queued"]
  /\ runConv'   = [runConv EXCEPT ![r] = c]

Start(r) ==
  /\ runStatus[r] = "queued"
  /\ runStatus' = [runStatus EXCEPT ![r] = "running"]
  /\ UNCHANGED runConv

End(r, s) ==
  /\ runStatus[r] \in ActiveStatus
  /\ s \in EndsOf(runStatus[r])
  /\ runStatus' = [runStatus EXCEPT ![r] = s]
  /\ UNCHANGED runConv

LNext == \E r \in Runs :
           \/ \E c \in Conversations : Open(r, c)
           \/ Start(r)
           \/ \E s \in TerminalStatus : End(r, s)

LSpec == LInit /\ [][LNext]_lifecycleVars
=============================================================================
