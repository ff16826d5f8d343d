-------------------------- MODULE TurnHistory_proofs --------------------------
(***************************************************************************)
(* What holds of the rows of every conversation, whatever its runs, rounds  *)
(* and environments. Assumes RunsAssumption and EnvironmentsAssumption.     *)
(***************************************************************************)
EXTENDS TurnHistory, Histories_proofs

-----------------------------------------------------------------------------
(* The rows the processes write.                                            *)

Row(role, blocks, run) == [role |-> role, blocks |-> blocks, run |-> run]

PromptRow(r) == Row("user", <<Block("text", <<r>>)>>, r)
ResultRow(r, n) == Row("user", <<Block("result", <<r, n>>)>>, r)

\* Every other row a run writes: an answer, a note, a terminator, a round's other rows.
OtherBlocks(r) ==
  {<<Block("text", <<r>>)>>, <<Block("note", <<>>)>>, Terminator, <<Filler>>}
    \cup {<<Block("use", <<r, n>>)>> : n \in Nat}
    \cup {<<Block("compaction", <<>>)>> \o <<Block("use", <<r, n>>)>> : n \in Nat}

Prompts    == {PromptRow(r) : r \in Runs}
ResultRows == {ResultRow(p[1], p[2]) : p \in Runs \X Nat}
References == {Row("user", <<ReadRef(File)>>, r) : r \in Runs}
Others(r)  == {Row("assistant", b, r) : b \in OtherBlocks(r)}
Repairs    == {Row("assistant", Terminator, NoRun)}

Written == Prompts \cup ResultRows \cup References \cup (UNION {Others(r) : r \in Runs}) \cup Repairs

\* The table is a sequence of them, and a round has a number and a kind.
RowsInv == env \in Environments /\ rows \in Seq(Written)
             /\ round \in [Runs -> [n : Nat, kind : {"none", "plain", "reads", "compacts"}]]

-----------------------------------------------------------------------------
(* Who writes. Nobody alive is swept and every dispatch is answered.        *)

IsActive(r) == status[r] \in {"queued", "running"}
Writing(r)  == pc[r] \in {"model"} \cup Saving

PhaseInv ==
  /\ env.inTime /\ env.dispatch = {"ok"}
  /\ status \in [Runs -> {"none", "queued", "running", "cancelled", "ended"}]
  /\ launch \in [Runs -> {"none", "persist", "dispatch", "over"}]
  /\ task \in [Runs -> BOOLEAN] /\ toolTail \in [Runs -> BOOLEAN]
  /\ pc \in [Runs -> {"none", "finish", "over"} \cup Live]
  /\ sweeper \in [Runs -> {"none", "read", "save", "over"}]
  /\ \A r \in Runs :
       /\ launch[r] = "none" <=> status[r] = "none"
       /\ launch[r] \in {"persist", "dispatch"} => status[r] \in {"queued", "cancelled"} /\ ~task[r]
       /\ launch[r] = "none" => ~task[r]
       /\ pc[r] \in Live \cup {"finish"} => status[r] = "running"
       /\ status[r] \in {"none", "queued", "cancelled"} => pc[r] = "none"
       /\ sweeper[r] # "none" => status[r] = "ended"
       /\ toolTail[r] => pc[r] \in Live \cup {"finish"}

OneActive == \A q, r \in Runs : IsActive(q) /\ IsActive(r) => q = r

-----------------------------------------------------------------------------
(* What they have written.                                                  *)

\* X are the runs cancelled before they ran, whose prompts may stray.
Whole(s, X) ==
  \A i, j \in DOMAIN s : i <= j /\ s[i].run = s[j].run /\ s[i].run # NoRun =>
    /\ \A k \in i..j : s[k].run \in {s[i].run, NoRun} \cup X
    /\ \/ \E k \in 1..i : IsPromptOf(s[i].run, s[k])
       \/ s[1].run \in X /\ \A k \in 1..i : s[k].run \in {s[i].run, NoRun} \cup X

\* After a row of run r there are rows of r, of sweeps and of X only.
Current(s, r, X) == \A i, k \in DOMAIN s : i <= k /\ s[i].run = r => s[k].run \in {r, NoRun} \cup X

Gone == {q \in Runs : status[q] = "cancelled"}

HasPrompt(s, r) == \E k \in DOMAIN s : IsPromptOf(r, s[k])

TurnInv ==
  /\ Whole(rows, Gone)
  /\ \A r \in Runs :
       /\ launch[r] \in {"none", "persist"} => \A i \in DOMAIN rows : rows[i].run # r
       /\ IsActive(r) => Current(rows, r, Gone)
       /\ Writing(r) \/ toolTail[r] => HasPrompt(rows, r)

\* A tool result at the tail: its run will save more, or has to be swept or is being swept.
TailInv == ~env.failures /\ ResultTail =>
  LET r == Last(rows).run IN
    /\ r \in Runs /\ (status[r] = "running" \/ sweeper[r] \in {"read", "save"})
    /\ pc[r] \in Live => toolTail[r]
    /\ pc[r] # "finish"

-----------------------------------------------------------------------------
(* Facts about rows.                                                        *)

LEMMA WrittenForm ==
  ASSUME NEW row \in Written
  PROVE  \/ \E r \in Runs : row = PromptRow(r)
         \/ \E r \in Runs, n \in Nat : row = ResultRow(r, n)
         \/ \E r \in Runs : row = Row("user", <<ReadRef(File)>>, r)
         \/ \E r \in Runs : \E b \in OtherBlocks(r) : row = Row("assistant", b, r)
         \/ row = Row("assistant", Terminator, NoRun)
<1>1. CASE row \in ResultRows
  <2>1. PICK p \in Runs \X Nat : row = ResultRow(p[1], p[2])
    BY <1>1 DEF ResultRows
  <2>2. p[1] \in Runs /\ p[2] \in Nat
    OBVIOUS
  <2>3. QED BY <2>1, <2>2
<1>2. ASSUME NEW r \in Runs, row \in Others(r) PROVE \E b \in OtherBlocks(r) : row = Row("assistant", b, r)
  BY <1>2 DEF Others
<1>3. CASE row \in Prompts \cup References \cup Repairs
  BY <1>3 DEF Prompts, References, Repairs
<1>4. row \in UNION {Others(r) : r \in Runs} => \E r \in Runs : row \in Others(r)
  OBVIOUS
<1>5. \/ row \in ResultRows \/ row \in Prompts \cup References \cup Repairs
      \/ row \in UNION {Others(r) : r \in Runs}
  BY DEF Written
<1>6. QED BY <1>1, <1>2, <1>3, <1>4, <1>5

\* A row that a purge keeps from is a prompt.
LEMMA KeepsFromPrompt ==
  ASSUME NEW row \in Written, KeepsFrom(row) PROVE row.run \in Runs /\ IsPromptOf(row.run, row)
<1>1. row.role = "user" /\ ~Has(row, "result") /\ ~Has(row, "readRef")
  BY DEF KeepsFrom
<1>2. CASE \E r \in Runs : row = PromptRow(r)
  <2>1. PICK r \in Runs : row = PromptRow(r)
    BY <1>2
  <2>2. row.run = r /\ row.role = "user" /\ row.blocks = <<Block("text", <<r>>)>>
    BY <2>1 DEF PromptRow, Row
  <2>3. Has(row, "text")
    BY <2>2, SingleBlock DEF Has, Block
  <2>4. QED BY <2>2, <2>3 DEF IsPromptOf
<1>3. CASE \E r \in Runs, n \in Nat : row = ResultRow(r, n)
  <2>1. PICK r \in Runs, n \in Nat : row = ResultRow(r, n)
    BY <1>3
  <2>2. row.blocks = <<Block("result", <<r, n>>)>>
    BY <2>1 DEF ResultRow, Row
  <2>3. QED BY <1>1, <2>2, SingleBlock DEF Has, Block
<1>4. CASE \E r \in Runs : row = Row("user", <<ReadRef(File)>>, r)
  <2>1. row.blocks = <<ReadRef(File)>>
    BY <1>4 DEF Row
  <2>2. QED BY <1>1, <2>1, SingleBlock DEF Has, Block, ReadRef
<1>5. CASE row.role = "assistant"
  BY <1>1, <1>5
<1>6. QED BY <1>2, <1>3, <1>4, <1>5, WrittenForm DEF Row

LEMMA PromptKeeps ==
  ASSUME NEW r \in Runs, NEW row \in Written, IsPromptOf(r, row) PROVE KeepsFrom(row)
<1>1. row.run = r /\ row.role = "user" /\ Has(row, "text")
  BY DEF IsPromptOf
<1>2. CASE \E q \in Runs : row = PromptRow(q)
  <2>1. PICK q \in Runs : row = PromptRow(q)
    BY <1>2
  <2>2. row.blocks = <<Block("text", <<q>>)>>
    BY <2>1 DEF PromptRow, Row
  <2>3. QED BY <1>1, <2>2, SingleBlock DEF Has, Block, KeepsFrom
<1>3. CASE \E q \in Runs, n \in Nat : row = ResultRow(q, n)
  <2>1. PICK q \in Runs, n \in Nat : row = ResultRow(q, n)
    BY <1>3
  <2>2. row.blocks = <<Block("result", <<q, n>>)>>
    BY <2>1 DEF ResultRow, Row
  <2>3. QED BY <1>1, <2>2, SingleBlock DEF Has, Block
<1>4. CASE \E q \in Runs : row = Row("user", <<ReadRef(File)>>, q)
  <2>1. row.blocks = <<ReadRef(File)>>
    BY <1>4 DEF Row
  <2>2. QED BY <1>1, <2>1, SingleBlock DEF Has, Block, ReadRef
<1>5. CASE row.role = "assistant"
  BY <1>1, <1>5
<1>6. QED BY <1>2, <1>3, <1>4, <1>5, WrittenForm DEF Row

\* The only rows that hold nothing but results are results.
LEMMA ResultTailIsResult ==
  ASSUME NEW row \in Written, row.role = "user", Only(row, "result") PROVE row.run \in Runs
<1>1. row # Row("assistant", Terminator, NoRun)
  BY DEF Row
<1>2. \A r : PromptRow(r).run = r /\ \A n, b : ResultRow(r, n).run = r /\ Row("user", b, r).run = r
                                          /\ Row("assistant", b, r).run = r
  BY DEF PromptRow, ResultRow, Row
<1>3. QED BY <1>1, <1>2, WrittenForm

-----------------------------------------------------------------------------
(* What a step appends.                                                     *)

\* What the steps of r append: a row of r.
Appends(r) ==
  \/ rows' = rows
  \/ \E row \in Written : row.run = r /\ rows' = Append(rows, row)

LEMMA OtherRowWritten ==
  ASSUME NEW r \in Runs, NEW b \in OtherBlocks(r)
  PROVE  Row("assistant", b, r) \in Written /\ Row("assistant", b, r).run = r
<1>1. Row("assistant", b, r) \in Others(r)
  BY DEF Others
<1>2. Row("assistant", b, r).run = r
  BY DEF Row
<1>3. QED BY <1>1, <1>2 DEF Written

LEMMA ResultRowWritten ==
  ASSUME NEW r \in Runs, NEW n \in Nat PROVE ResultRow(r, n) \in Written /\ ResultRow(r, n).run = r
<1> DEFINE p == <<r, n>>
<1>1. p \in Runs \X Nat /\ ResultRow(r, n) = ResultRow(p[1], p[2])
  OBVIOUS
<1>2. ResultRow(r, n) \in ResultRows
  BY <1>1 DEF ResultRows
<1>3. QED BY <1>2 DEF Written, ResultRow, Row

\* Every step of an executor appends a row of its run, or nothing.
LEMMA ExecuteAppends ==
  ASSUME RowsInv, NEW r \in Runs, Execute(r) PROVE Appends(r)
<1>0. round[r].n \in Nat /\ round[r].kind \in {"none", "plain", "reads", "compacts"}
  BY DEF RowsInv
<1>1. CASE Claim(r) \/ LoadHistory(r) \/ LeaseLost(r) \/ ModelFails(r) \/ CallTools(r) \/ RoundFails(r)
           \/ Finish(r) \/ ExecutorDies(r)
  BY <1>1 DEF Claim, LoadHistory, LeaseLost, ModelFails, CallTools, RoundFails, Finish, ExecutorDies, Appends
<1>2. ASSUME NEW b \in OtherBlocks(r), Save(r, "assistant", b) PROVE Appends(r)
  BY <1>2, OtherRowWritten DEF Save, Appends, Row
<1>3. CASE Stop(r)
  <2>1. <<Block("note", <<>>)>> \in OtherBlocks(r)
    BY DEF OtherBlocks
  <2>2. QED BY <1>2, <1>3, <2>1 DEF Stop
<1>4. CASE Answer(r)
  <2>1. <<Block("text", <<r>>)>> \in OtherBlocks(r)
    BY DEF OtherBlocks
  <2>2. QED BY <1>2, <1>4, <2>1 DEF Answer
<1>5. CASE SaveUse(r)
  <2>1. Response(r) \in OtherBlocks(r)
    <3>1. CASE round[r].kind = "compacts"
      <4>1. Response(r) = <<Block("compaction", <<>>)>> \o <<Block("use", <<r, round[r].n>>)>>
        BY <3>1 DEF Response
      <4>2. QED BY <4>1, <1>0 DEF OtherBlocks
    <3>2. CASE round[r].kind # "compacts"
      <4>1. Response(r) = <<Block("use", <<r, round[r].n>>)>>
        BY <3>2 DEF Response
      <4>2. QED BY <4>1, <1>0 DEF OtherBlocks
    <3>3. QED BY <3>1, <3>2
  <2>2. QED BY <1>2, <1>5, <2>1 DEF SaveUse
<1>6. CASE SaveResult(r)
  <2>1. Save(r, "user", Results(r))
    BY <1>6 DEF SaveResult
  <2>2. rows' = Append(rows, ResultRow(r, round[r].n))
    BY <2>1 DEF Save, Results, ResultRow, Row
  <2>3. QED BY <1>0, <2>2, ResultRowWritten DEF Appends
<1>7. CASE SaveMarker(r)
  <2>1. <<Filler>> \in OtherBlocks(r)
    BY DEF OtherBlocks
  <2>2. QED BY <1>2, <1>7, <2>1 DEF SaveMarker
<1>8. CASE SaveRef(r)
  <2>1. rows' = Append(rows, Row("user", <<ReadRef(File)>>, r))
    BY <1>8 DEF SaveRef, Save, Row
  <2>2. Row("user", <<ReadRef(File)>>, r) \in Written /\ Row("user", <<ReadRef(File)>>, r).run = r
    BY DEF Written, References, Row
  <2>3. QED BY <2>1, <2>2 DEF Appends
<1>9. CASE Terminate(r)
  <2>1. Terminator \in OtherBlocks(r)
    BY DEF OtherBlocks
  <2>2. rows' = rows \/ Save(r, "assistant", Terminator)
    BY <1>9 DEF Terminate
  <2>3. QED BY <1>2, <2>1, <2>2 DEF Appends
<1>10. QED BY <1>1, <1>3, <1>4, <1>5, <1>6, <1>7, <1>8, <1>9 DEF Execute

LEMMA EnvStays == [Next]_vars => env' = env
  BY DEF Next, Start, Execute, Repair, CreateQueued, PersistUserMessage, Dispatch, FailQueued, DeleteMessage, CancelQueued, LauncherDies,
         Claim, LoadHistory, Stop, LeaseLost, ModelFails, Answer, CallTools, SaveUse, SaveResult, SaveMarker, SaveRef,
         RoundFails, Terminate, Finish, ExecutorDies, Sweep, SweepReadsTail, SweepSaves, SweepDies, Purge, vars

\* The launcher writes the prompt; no start is taken back.
LEMMA StartAppends ==
  ASSUME RowsInv, PhaseInv, NEW r \in Runs, Start(r)
  PROVE  rows' = rows \/ (launch[r] = "persist" /\ rows' = Append(rows, PromptRow(r)))
<1>1. ~DeleteMessage(r)
  BY DEF PhaseInv, DeleteMessage, Launch
<1>2. QED BY <1>1 DEF Start, CreateQueued, PersistUserMessage, Dispatch, FailQueued, CancelQueued, LauncherDies, Launch, Save, PromptRow, Row

LEMMA RepairAppends ==
  ASSUME RowsInv, NEW r \in Runs, Repair(r)
  PROVE  rows' = rows \/ rows' = Append(rows, Row("assistant", Terminator, NoRun))
  BY DEF Repair, Sweep, SweepReadsTail, SweepSaves, SweepDies, Save, Row

(* A purge removes a beginning of the table; what is left begins with a     *)
(* prompt, and what is removed is old, or follows the old and is no prompt. *)
Cut(c) ==
  /\ c \in 0..Len(rows) /\ rows' = SubSeq(rows, c + 1, Len(rows))
  /\ c < Len(rows) => KeepsFrom(rows[c + 1])
  /\ \A i \in 1..c : Old(rows[i]) \/ ~KeepsFrom(rows[i])

\* Sequences of rows that agree at every place are equal.
LEMMA SameRows ==
  ASSUME NEW S, NEW s \in Seq(S), NEW t \in Seq(S), Len(s) = Len(t), \A i \in 1..Len(s) : s[i] = t[i]
  PROVE  s = t
  BY SeqEqual

LEMMA PurgeCuts == ASSUME RowsInv, Purge PROVE \E c : Cut(c)
<1>1. PICK n \in DOMAIN rows :
        /\ \A i \in 1..n : Old(rows[i])
        /\ LET kept == SubSeq(rows, n + 1, Len(rows))
               first == SelectInSeq(kept, KeepsFrom)
           IN rows' = IF first = 0 THEN <<>> ELSE SubSeq(kept, first, Len(kept))
  BY DEF Purge
<1>2. rows \in Seq(Written) /\ n \in 1..Len(rows)
  BY DEF RowsInv
<1>3. PICK kept : kept = SubSeq(rows, n + 1, Len(rows))
  OBVIOUS
<1>4. /\ kept \in Seq(Written) /\ Len(kept) = Len(rows) - n
      /\ \A i \in 1..Len(kept) : kept[i] = rows[n + i]
  BY <1>2, <1>3
<1>5. PICK first : first = SelectInSeq(kept, KeepsFrom)
  OBVIOUS
<1>6. rows' = IF first = 0 THEN <<>> ELSE SubSeq(kept, first, Len(kept))
  BY <1>1, <1>3, <1>5
<1>7. \/ first = 0 /\ \A i \in 1..Len(kept) : ~KeepsFrom(kept[i])
      \/ first \in 1..Len(kept) /\ KeepsFrom(kept[first]) /\ \A i \in 1..(first - 1) : ~KeepsFrom(kept[i])
  <2> DEFINE I == {i \in 1..Len(kept) : KeepsFrom(kept[i])}
  <2>1. first = IF I # {} THEN Min(I) ELSE 0
    BY <1>5 DEF SelectInSeq
  <2>2. I \in SUBSET Nat /\ I \subseteq 1..Len(kept)
    BY <1>4
  <2>3. CASE I = {}
    BY <2>1, <2>3
  <2>4. CASE I # {}
    <3>1. first \in I /\ \A i \in I : first <= i
      <4> HIDE DEF I
      <4>1. QED BY <2>1, <2>2, <2>4, MinFacts
    <3>2. \A i \in 1..(first - 1) : i \in 1..Len(kept) /\ ~(first <= i)
      BY <3>1, <2>2
    <3>3. QED BY <3>1, <3>2
  <2>5. QED BY <2>3, <2>4
<1>8. CASE first = 0
  <2>1. Cut(Len(rows))
    <3>1. rows' = SubSeq(rows, Len(rows) + 1, Len(rows))
      BY <1>2, <1>6, <1>8
    <3>2. \A i \in 1..Len(rows) : i \in 1..n \/ (i - n \in 1..Len(kept) /\ kept[i - n] = rows[i])
      BY <1>2, <1>4
    <3>3. Len(rows) \in 0..Len(rows) /\ ~(Len(rows) < Len(rows))
      BY <1>2
    <3>4. \A i \in 1..Len(rows) : Old(rows[i]) \/ ~KeepsFrom(rows[i])
      BY <1>1, <1>4, <1>7, <1>8, <3>2
    <3>5. QED BY <3>1, <3>3, <3>4 DEF Cut
  <2>2. QED BY <2>1
<1>9. CASE first # 0
  <2>1. first \in 1..Len(kept) /\ KeepsFrom(kept[first]) /\ \A i \in 1..(first - 1) : ~KeepsFrom(kept[i])
    BY <1>7, <1>9
  <2>2. PICK c : c = n + first - 1
    OBVIOUS
  <2>3. c \in 0..Len(rows) /\ c + 1 = n + first /\ c + 1 \in 1..Len(rows)
    BY <1>2, <1>4, <2>1, <2>2
  <2>4. rows' = SubSeq(rows, c + 1, Len(rows))
    <3>1. rows' = SubSeq(kept, first, Len(kept))
      BY <1>6, <1>9
    <3>2. Len(rows') = Len(kept) - first + 1 /\ \A i \in 1..Len(rows') : rows'[i] = kept[first + i - 1]
      <4>1. PICK m : m = Len(kept) /\ m \in Nat /\ first \in 1..m /\ \A i \in 1..m : kept[i] \in Written
        BY <1>4, <2>1
      <4>2. rows' = SubSeq(kept, first, m)
        BY <3>1, <4>1
      <4> HIDE DEF Written
      <4>3. QED BY ONLY <4>1, <4>2
    <3>3. PICK s : s = SubSeq(rows, c + 1, Len(rows))
      OBVIOUS
    <3>4. s \in Seq(Written) /\ Len(s) = Len(rows) - c /\ \A i \in 1..Len(s) : s[i] = rows[c + i]
      BY <1>2, <2>3, <3>3
    <3>5. rows' \in Seq(Written)
      BY <1>4, <2>1, <3>1
    <3>6. Len(rows') = Len(s)
      BY <1>2, <1>4, <2>1, <2>2, <3>2, <3>4
    <3>7. \A i \in 1..Len(s) : rows'[i] = s[i]
      <4> SUFFICES ASSUME NEW i \in 1..Len(s) PROVE rows'[i] = s[i]
        OBVIOUS
      <4>1. rows'[i] = kept[first + i - 1] /\ first + i - 1 \in 1..Len(kept)
        BY <1>4, <2>1, <3>2, <3>4, <3>6
      <4>2. kept[first + i - 1] = rows[n + (first + i - 1)]
        BY <1>4, <4>1
      <4>3. n + (first + i - 1) = c + i
        BY <1>2, <2>1, <2>2, <3>4
      <4>4. QED BY <4>1, <4>2, <4>3, <3>4
    <3>8. rows' = s
      <4> HIDE DEF Written
      <4>1. \A i \in 1..Len(rows') : rows'[i] = s[i]
        BY <3>6, <3>7
      <4>2. QED BY <3>4, <3>5, <3>6, <4>1, SameRows
    <3>9. QED BY <3>3, <3>8
  <2>5. KeepsFrom(rows[c + 1])
    BY <1>4, <2>1, <2>3
  <2>6. ASSUME NEW i \in 1..c PROVE Old(rows[i]) \/ ~KeepsFrom(rows[i])
    <3>1. CASE i <= n
      BY <1>1, <1>2, <2>3, <3>1
    <3>2. CASE ~(i <= n)
      <4>0. PICK k : k = i - n /\ k \in 1..(first - 1) /\ k \in 1..Len(kept) /\ n + k = i
        <5>1. n \in Nat /\ first \in 1..Len(kept) /\ Len(kept) \in Nat /\ i \in 1..(n + first - 1)
          BY <1>2, <1>4, <2>1, <2>2
        <5>2. QED BY ONLY <3>2, <5>1
      <4>1. i - n \in 1..Len(kept) /\ i - n \in 1..(first - 1) /\ rows[i] = kept[i - n]
        BY <1>4, <4>0
      <4>2. QED BY <2>1, <4>1
    <3>3. QED BY <3>1, <3>2
  <2>7. Cut(c)
    BY <2>3, <2>4, <2>5, <2>6 DEF Cut
  <2>8. QED BY <2>7
<1>10. QED BY <1>8, <1>9

-----------------------------------------------------------------------------
(* What appending and cutting do to whole turns.                            *)

LEMMA AppendRows ==
  ASSUME NEW S, NEW s \in Seq(S), NEW row \in S, NEW t, t = Append(s, row)
  PROVE  /\ t \in Seq(S) /\ DOMAIN t = 1..(Len(s) + 1) /\ DOMAIN s = 1..Len(s) /\ Len(s) \in Nat
         /\ t[Len(s) + 1] = row /\ Len(t) = Len(s) + 1
         /\ \A i \in 1..Len(s) : t[i] = s[i]
  OBVIOUS

\* Row r of a run that is the last to write and has its prompt extends its turn.
LEMMA WholeAppend ==
  ASSUME NEW S, NEW s \in Seq(S), NEW row \in S, NEW t, t = Append(s, row), NEW X, Whole(s, X),
         row.run # NoRun => Current(s, row.run, X) /\ (HasPrompt(s, row.run) \/ IsPromptOf(row.run, row))
  PROVE  Whole(t, X)
<1> DEFINE n == Len(s)
<1>1. /\ DOMAIN t = 1..(n + 1) /\ DOMAIN s = 1..n /\ n \in Nat
      /\ t[n + 1] = row /\ \A i \in 1..n : t[i] = s[i]
  BY AppendRows
<1> HIDE DEF n
<1> SUFFICES ASSUME NEW i \in 1..(n + 1), NEW j \in 1..(n + 1), i <= j, t[i].run = t[j].run, t[i].run # NoRun
             PROVE  /\ \A k \in i..j : t[k].run \in {t[i].run, NoRun} \cup X
                    /\ \/ \E k \in 1..i : IsPromptOf(t[i].run, t[k])
                       \/ t[1].run \in X /\ \A k \in 1..i : t[k].run \in {t[i].run, NoRun} \cup X
  BY <1>1 DEF Whole
\* What a row of s has before it, it has in t.
<1>2. ASSUME i \in 1..n
      PROVE  \/ \E k \in 1..i : IsPromptOf(t[i].run, t[k])
             \/ t[1].run \in X /\ \A k \in 1..i : t[k].run \in {t[i].run, NoRun} \cup X
  <2>1. t[i] = s[i] /\ i <= i
    BY <1>1, <1>2
  <2>2. \/ \E k \in 1..i : IsPromptOf(s[i].run, s[k])
        \/ s[1].run \in X /\ \A k \in 1..i : s[k].run \in {s[i].run, NoRun} \cup X
    BY <1>1, <1>2, <2>1 DEF Whole
  <2>3. \A k \in 1..i : k \in 1..n /\ t[k] = s[k]
    BY <1>1, <1>2
  <2>4. 1 \in 1..i
    BY <1>1, <1>2
  <2>5. t[1] = s[1]
    BY <2>3, <2>4
  <2>6. QED BY <2>1, <2>2, <2>3, <2>5
<1>3. CASE j \in 1..n
  <2>1. i \in 1..n /\ t[i] = s[i] /\ t[j] = s[j]
    BY <1>1, <1>3
  <2>2. \A k \in i..j : s[k].run \in {s[i].run, NoRun} \cup X
    BY <1>1, <1>3, <2>1 DEF Whole
  <2>3. \A k \in i..j : k \in 1..n /\ t[k] = s[k]
    BY <1>1, <1>3, <2>1
  <2>4. QED BY <1>2, <2>1, <2>2, <2>3
<1>4. CASE j = n + 1
  <2>1. t[j] = row /\ t[i].run = row.run /\ row.run # NoRun
    BY <1>1, <1>4
  <2>2. Current(s, row.run, X) /\ (HasPrompt(s, row.run) \/ IsPromptOf(row.run, row))
    BY <2>1
  <2>3. CASE i = n + 1
    <3>1. \A k \in i..j : t[k].run = row.run
      BY <1>1, <1>4, <2>3
    <3>2. CASE IsPromptOf(row.run, row)
      BY <1>1, <2>1, <2>3, <3>1, <3>2
    <3>3. CASE HasPrompt(s, row.run)
      <4>1. PICK k \in 1..n : IsPromptOf(row.run, s[k])
        BY <1>1, <3>3 DEF HasPrompt
      <4>2. k \in 1..i /\ t[k] = s[k]
        BY <1>1, <2>3
      <4>3. QED BY <2>1, <3>1, <4>1, <4>2
    <3>4. QED BY <2>2, <3>2, <3>3
  <2>4. CASE i \in 1..n
    <3>1. t[i] = s[i] /\ s[i].run = row.run
      BY <1>1, <2>1, <2>4
    <3>2. \A k \in i..j : k = n + 1 \/ (k \in 1..n /\ i <= k)
      BY <1>1, <1>4, <2>4
    <3>3. \A k \in 1..n : i <= k => s[k].run \in {row.run, NoRun} \cup X
      BY <1>1, <2>2, <2>4, <3>1 DEF Current
    <3>4. \A k \in i..j : t[k].run \in {row.run, NoRun} \cup X
      BY <1>1, <3>2, <3>3
    <3>5. QED BY <1>2, <2>1, <2>4, <3>4
  <2>5. QED BY <1>1, <2>3, <2>4
<1>5. QED BY <1>1, <1>3, <1>4

LEMMA CurrentAppend ==
  ASSUME NEW S, NEW s \in Seq(S), NEW row \in S, NEW t, t = Append(s, row), NEW r, NEW X,
         Current(s, r, X), row.run \in {r, NoRun} \cup X
  PROVE  Current(t, r, X)
<1> DEFINE n == Len(s)
<1>1. /\ DOMAIN t = 1..(n + 1) /\ DOMAIN s = 1..n /\ n \in Nat
      /\ t[n + 1] = row /\ \A i \in 1..n : t[i] = s[i]
  BY AppendRows
<1> HIDE DEF n
<1> SUFFICES ASSUME NEW i \in 1..(n + 1), NEW k \in 1..(n + 1), i <= k, t[i].run = r
             PROVE  t[k].run \in {r, NoRun} \cup X
  BY <1>1 DEF Current
<1>2. CASE k = n + 1
  BY <1>1, <1>2
<1>3. CASE k \in 1..n
  <2>1. i \in 1..n
    BY <1>1, <1>3
  <2>2. QED BY <1>1, <1>3, <2>1 DEF Current
<1>4. QED BY <1>1, <1>2, <1>3

LEMMA PromptStays ==
  ASSUME NEW S, NEW s \in Seq(S), NEW row \in S, NEW t, t = Append(s, row), NEW r,
         HasPrompt(s, r) \/ IsPromptOf(r, row)
  PROVE  HasPrompt(t, r)
<1>1. /\ DOMAIN t = 1..(Len(s) + 1) /\ DOMAIN s = 1..Len(s) /\ Len(s) \in Nat
      /\ t[Len(s) + 1] = row /\ \A i \in 1..Len(s) : t[i] = s[i]
  BY AppendRows
<1>2. CASE IsPromptOf(r, row)
  <2>1. Len(s) + 1 \in DOMAIN t
    BY <1>1
  <2>2. QED BY <1>1, <1>2, <2>1 DEF HasPrompt
<1>3. CASE HasPrompt(s, r)
  <2>1. PICK k \in 1..Len(s) : IsPromptOf(r, s[k])
    BY <1>1, <1>3 DEF HasPrompt
  <2>2. k \in DOMAIN t /\ t[k] = s[k]
    BY <1>1
  <2>3. QED BY <2>1, <2>2 DEF HasPrompt
<1>4. QED BY <1>2, <1>3

\* Places before and after a cut at c of n rows.
LEMMA Shifted ==
  ASSUME NEW n \in Nat, NEW c \in Nat, c <= n
  PROVE  /\ ~(c + 1 <= n) => n - c = 0
         /\ \A i, j \in 1..(n - c) : \A k \in i..j : k \in 1..(n - c) /\ k + c \in (i + c)..(j + c)
         /\ \A i \in 1..(n - c) : \A k \in 1..(i + c) :
              /\ k <= c => k \in 1..n /\ c + 1 \in k..(i + c) /\ c + 1 \in 1..n /\ k <= i + c
              /\ ~(k <= c) => k - c \in 1..i /\ k - c \in 1..(n - c) /\ (k - c) + c = k
  OBVIOUS

\* The rows that a cut leaves.
LEMMA CutRows ==
  ASSUME NEW S, NEW s \in Seq(S), NEW c \in 0..Len(s), NEW t, t = SubSeq(s, c + 1, Len(s))
  PROVE  /\ t \in Seq(S) /\ Len(t) = Len(s) - c
         /\ DOMAIN t = 1..(Len(s) - c) /\ DOMAIN s = 1..Len(s) /\ Len(s) \in Nat
         /\ \A i \in 1..(Len(s) - c) : i + c \in 1..Len(s) /\ t[i] = s[i + c]
<1>1. Len(s) \in Nat /\ c \in Nat /\ c <= Len(s) /\ DOMAIN s = 1..Len(s)
  OBVIOUS
<1>2. \A i \in 1..(Len(s) - c) : i + c \in 1..Len(s) /\ i + c = c + 1 + i - 1
  BY <1>1
<1>3. \A i \in (c + 1)..Len(s) : s[i] \in S
  BY <1>1
<1>4. /\ t \in Seq(S)
      /\ Len(t) = (IF c + 1 <= Len(s) THEN Len(s) - (c + 1) + 1 ELSE 0)
      /\ \A i \in 1..(Len(s) - (c + 1) + 1) : t[i] = s[c + 1 + i - 1]
  BY <1>1, <1>3, SubSeqProperties
<1>5. Len(t) = Len(s) - c /\ Len(s) - (c + 1) + 1 = Len(s) - c
  <2>1. Len(s) - (c + 1) + 1 = Len(s) - c
    BY <1>1
  <2>2. CASE c + 1 <= Len(s)
    BY <1>4, <2>1, <2>2
  <2>3. CASE ~(c + 1 <= Len(s))
    <3>1. Len(s) - c = 0
      BY <1>1, <2>3, Shifted
    <3>2. QED BY <1>4, <2>1, <2>3, <3>1
  <2>4. QED BY <2>2, <2>3
<1>6. DOMAIN t = 1..(Len(s) - c)
  <2>1. \A u \in Seq(S) : DOMAIN u = 1..Len(u)
    OBVIOUS
  <2>2. DOMAIN t = 1..Len(t)
    BY <1>4, <2>1
  <2>3. QED BY <1>5, <2>2
<1>7. \A i \in 1..(Len(s) - c) : t[i] = s[i + c]
  BY <1>2, <1>4, <1>5
<1>8. QED BY <1>1, <1>2, <1>4, <1>5, <1>6, <1>7

\* A cut leaves whole turns, but for one that it cuts at a prompt of X.
LEMMA WholeCut ==
  ASSUME NEW s \in Seq(Written), NEW c \in 0..Len(s), NEW t, t = SubSeq(s, c + 1, Len(s)), NEW X,
         c < Len(s) => KeepsFrom(s[c + 1]), Whole(s, X)
  PROVE  Whole(t, X)
<1> DEFINE n == Len(s)
<1>1. /\ DOMAIN t = 1..(n - c) /\ DOMAIN s = 1..n /\ n \in Nat /\ c \in 0..n
      /\ \A i \in 1..(n - c) : i + c \in 1..n /\ t[i] = s[i + c]
  <2> HIDE DEF Written
  <2> QED BY CutRows
<1>2. \A i \in 1..n : s[i] \in Written
  <2> HIDE DEF Written
  <2> QED BY <1>1
<1> HIDE DEF n
<1> SUFFICES ASSUME NEW i \in 1..(n - c), NEW j \in 1..(n - c), i <= j, t[i].run = t[j].run, t[i].run # NoRun
             PROVE  /\ \A k \in i..j : t[k].run \in {t[i].run, NoRun} \cup X
                    /\ \/ \E k \in 1..i : IsPromptOf(t[i].run, t[k])
                       \/ t[1].run \in X /\ \A k \in 1..i : t[k].run \in {t[i].run, NoRun} \cup X
  BY <1>1 DEF Whole
<1>3. i + c \in 1..n /\ j + c \in 1..n /\ i + c <= j + c /\ t[i] = s[i + c] /\ t[j] = s[j + c]
  <2>1. i + c <= j + c
    BY <1>1
  <2>2. QED BY <1>1, <2>1
<1>4. PICK run : run = t[i].run
  OBVIOUS
<1>5. s[i + c].run = run /\ s[j + c].run = run /\ run # NoRun
  BY <1>3, <1>4
<1>6. \A k \in (i + c)..(j + c) : s[k].run \in {run, NoRun} \cup X
  BY <1>1, <1>3, <1>5 DEF Whole
<1>7. n \in Nat /\ c \in Nat /\ c <= n
  BY <1>1
<1>8. \A k \in i..j : k \in 1..(n - c) /\ k + c \in (i + c)..(j + c)
  BY <1>7, Shifted
<1>9. \A k \in i..j : t[k].run \in {run, NoRun} \cup X
  BY <1>1, <1>6, <1>8
<1>10. 1 \in 1..i /\ 1 \in 1..(n - c) /\ 1 + c = c + 1 /\ c + 1 \in 1..n /\ c < n
  BY <1>1
<1>11. t[1] = s[c + 1] /\ KeepsFrom(s[c + 1])
  BY <1>1, <1>10 DEF n
<1>12. s[c + 1].run \in Runs /\ IsPromptOf(s[c + 1].run, s[c + 1])
  BY <1>2, <1>10, <1>11, KeepsFromPrompt
\* The rows kept before i are of the turn as well.
<1>13. ASSUME \A k \in (c + 1)..(i + c) : s[k].run \in {run, NoRun} \cup X
       PROVE  \/ \E k \in 1..i : IsPromptOf(run, t[k])
              \/ t[1].run \in X /\ \A k \in 1..i : t[k].run \in {run, NoRun} \cup X
  <2>1. c + 1 \in (c + 1)..(i + c)
    <3>1. i \in Nat /\ 1 <= i /\ c \in Nat
      BY <1>7, <1>10
    <3>2. QED BY ONLY <3>1
  <2>2. s[c + 1].run \in {run} \cup X
    BY <1>12, <1>13, <2>1, RunsAssumption
  <2>3. CASE s[c + 1].run = run
    BY <1>10, <1>11, <1>12, <2>3
  <2>4. CASE s[c + 1].run \in X
    <3>1. \A k \in 1..i : k \in 1..(n - c) /\ k + c \in (c + 1)..(i + c)
      BY <1>1
    <3>2. \A k \in 1..i : t[k].run \in {run, NoRun} \cup X
      BY <1>1, <1>13, <3>1
    <3>3. QED BY <1>11, <2>4, <3>2
  <2>5. QED BY <2>2, <2>3, <2>4
<1>14. \/ \E k \in 1..(i + c) : IsPromptOf(run, s[k])
       \/ \A k \in 1..(i + c) : s[k].run \in {run, NoRun} \cup X
  <2>1. PICK m : m = i + c
    OBVIOUS
  <2>2. m \in DOMAIN s /\ m <= m /\ s[m].run = run
    BY <1>1, <1>3, <1>5, <2>1
  <2>3. \/ \E k \in 1..m : IsPromptOf(s[m].run, s[k])
        \/ \A k \in 1..m : s[k].run \in {s[m].run, NoRun} \cup X
    BY ONLY <1>5, <2>2, Whole(s, X) DEF Whole
  <2>4. QED BY ONLY <2>1, <2>2, <2>3
<1>15. CASE \A k \in 1..(i + c) : s[k].run \in {run, NoRun} \cup X
  <2>1. \A k \in (c + 1)..(i + c) : k \in 1..(i + c)
    BY <1>1
  <2>2. QED BY <1>4, <1>9, <1>13, <1>15, <2>1
<1>16. CASE \E k \in 1..(i + c) : IsPromptOf(run, s[k])
  <2>1. PICK k \in 1..(i + c) : IsPromptOf(run, s[k])
    BY <1>16
  <2>2. CASE ~(k <= c)
    <3>1. k - c \in 1..i /\ k - c \in 1..(n - c) /\ (k - c) + c = k
      BY <1>7, <2>2, Shifted
    <3>2. t[k - c] = s[k]
      BY <1>1, <3>1
    <3>3. QED BY <1>4, <1>9, <2>1, <3>1, <3>2
  <2>3. CASE k <= c
    <3>1. k \in 1..n /\ k <= i + c
      BY <1>7, <2>3, Shifted
    <3>2. s[k].run = run
      BY <2>1 DEF IsPromptOf
    <3>3. \A m \in k..(i + c) : s[m].run \in {run, NoRun} \cup X
      BY <1>1, <1>3, <1>5, <3>1, <3>2 DEF Whole
    <3>4. \A m \in (c + 1)..(i + c) : m \in k..(i + c)
      BY <1>1, <2>3
    <3>5. QED BY <1>4, <1>9, <1>13, <3>3, <3>4
  <2>4. QED BY <2>2, <2>3
<1>17. QED BY <1>14, <1>15, <1>16

LEMMA CurrentCut ==
  ASSUME NEW S, NEW s \in Seq(S), NEW c \in 0..Len(s), NEW t, t = SubSeq(s, c + 1, Len(s)), NEW r, NEW X,
         Current(s, r, X)
  PROVE  Current(t, r, X)
<1> DEFINE n == Len(s)
<1>1. /\ DOMAIN t = 1..(n - c) /\ DOMAIN s = 1..n /\ n \in Nat /\ c \in 0..n
      /\ \A i \in 1..(n - c) : i + c \in 1..n /\ t[i] = s[i + c]
  BY CutRows
<1> HIDE DEF n
<1>2. \A i, k \in 1..(n - c) : i <= k => i + c <= k + c
  BY <1>1
<1>3. \A i \in 1..(n - c) : i + c \in DOMAIN s /\ t[i] = s[i + c]
  BY <1>1
<1>4. QED BY ONLY <1>1, <1>2, <1>3, Current(s, r, X) DEF Current

\* More runs are cancelled.
LEMMA MoreGone ==
  ASSUME NEW s, NEW X, NEW Y, X \subseteq Y
  PROVE  /\ Whole(s, X) => Whole(s, Y)
         /\ \A r : Current(s, r, X) => Current(s, r, Y)
  BY Zenon DEF Whole, Current

\* A prompt that is not old is kept.
LEMMA PromptCut ==
  ASSUME NEW s \in Seq(Written), NEW c \in 0..Len(s), NEW t, t = SubSeq(s, c + 1, Len(s)), NEW r \in Runs,
         HasPrompt(s, r), \A i \in 1..c : Old(s[i]) \/ ~KeepsFrom(s[i]),
         ~(launch[r] = "over" /\ pc[r] \in {"none", "over"})
  PROVE  HasPrompt(t, r)
<1> DEFINE n == Len(s)
<1>1. /\ DOMAIN t = 1..(n - c) /\ DOMAIN s = 1..n /\ n \in Nat /\ c \in 0..n
      /\ \A i \in 1..(n - c) : i + c \in 1..n /\ t[i] = s[i + c]
  <2> HIDE DEF Written
  <2> QED BY CutRows
<1>2. \A i \in 1..n : s[i] \in Written
  <2> HIDE DEF Written
  <2> QED BY <1>1
<1> HIDE DEF n
<1>3. PICK k \in 1..n : IsPromptOf(r, s[k])
  BY <1>1 DEF HasPrompt
<1>4. KeepsFrom(s[k]) /\ s[k].run = r
  BY <1>2, <1>3, PromptKeeps DEF IsPromptOf
<1>5. ~Old(s[k])
  BY <1>4, RunsAssumption DEF Old
<1>6. c < k
  BY <1>1, <1>4, <1>5
<1>7. k - c \in 1..(n - c) /\ (k - c) + c = k
  BY <1>1, <1>6
<1>8. QED BY <1>1, <1>3, <1>7 DEF HasPrompt

LEMMA RemovedRows ==
  ASSUME NEW S, NEW s \in Seq(S), NEW i \in 1..Len(s), NEW t, t = RemoveAt(s, i)
  PROVE  t \in Seq(S) /\ Len(t) = Len(s) - 1 /\ Len(s) \in Nat /\ Closes(t, s, i)
<1>1. PICK n : n = Len(s) /\ n \in Nat /\ i \in 1..n /\ DOMAIN s = 1..n
  OBVIOUS
<1>2. PICK u : u = SubSeq(s, 1, i - 1)
  OBVIOUS
<1>3. u \in Seq(S) /\ Len(u) = i - 1 /\ \A k \in 1..(i - 1) : u[k] = s[k]
  BY <1>1, <1>2
<1>4. PICK v : v = SubSeq(s, i + 1, n)
  OBVIOUS
<1>5. v \in Seq(S) /\ Len(v) = n - i /\ \A k \in 1..(n - i) : v[k] = s[k + i]
  <2>1. i \in 0..Len(s)
    BY <1>1
  <2>2. v = SubSeq(s, i + 1, Len(s))
    BY <1>1, <1>4
  <2>3. v \in Seq(S) /\ Len(v) = Len(s) - i /\ \A k \in 1..(Len(s) - i) : v[k] = s[k + i]
    BY ONLY s \in Seq(S), <2>1, <2>2, CutRows
  <2>4. QED BY <1>1, <2>3
<1>6. t = u \o v
  BY <1>1, <1>2, <1>4 DEF RemoveAt
<1>7. /\ t \in Seq(S) /\ Len(t) = Len(u) + Len(v)
      /\ \A k \in 1..(Len(u) + Len(v)) : t[k] = IF k <= Len(u) THEN u[k] ELSE v[k - Len(u)]
  <2>1. u \in Seq(S)
    BY <1>3
  <2>2. v \in Seq(S)
    BY <1>5
  <2>3. QED BY ONLY <1>6, <2>1, <2>2, Concat
<1>8. (i - 1) + (n - i) = n - 1
  BY <1>1
<1>9. /\ t \in Seq(S) /\ Len(t) = n - 1
      /\ \A k \in 1..(n - 1) : t[k] = IF k <= i - 1 THEN u[k] ELSE v[k - (i - 1)]
  BY <1>3, <1>5, <1>7, <1>8
<1>10. ASSUME NEW k \in 1..(n - 1)
       PROVE  /\ k < i => t[k] = s[k] /\ k \in 1..n
              /\ ~(k < i) => t[k] = s[k + 1] /\ k + 1 \in 1..n
  <2>1. k < i => k <= i - 1 /\ k \in 1..(i - 1) /\ k \in 1..n
    BY <1>1
  <2>2. ~(k < i) => ~(k <= i - 1) /\ k - (i - 1) \in 1..(n - i) /\ (k - (i - 1)) + i = k + 1 /\ k + 1 \in 1..n
    BY <1>1
  <2>3. QED BY <1>3, <1>5, <1>9, <2>1, <2>2
<1>11. DOMAIN t = 1..(n - 1)
  BY <1>9
<1>12. /\ \A k \in 1..(n - 1) : k < i => t[k] = s[k] /\ k \in 1..n
       /\ \A k \in 1..(n - 1) : ~(k < i) => t[k] = s[k + 1] /\ k + 1 \in 1..n
  BY <1>10
<1>13. t \in Seq(S) /\ Len(t) = n - 1
  BY <1>9
<1>14. Closes(t, s, i)
  BY ONLY <1>1, <1>11, <1>12 DEF Closes
<1>15. QED BY <1>1, <1>13, <1>14

\* A start that is taken back removes its prompt, if it is there.
LEMMA DeleteRows ==
  ASSUME RowsInv, NEW r \in Runs, DeleteMessage(r)
  PROVE  rows' = rows \/ \E i \in 1..Len(rows) : IsPromptOf(r, rows[i]) /\ rows' = RemoveAt(rows, i)
<1> DEFINE I == {i \in 1..Len(rows) : IsPromptOf(r, rows[i])}
<1>1. PICK i : i = SelectInSeq(rows, LAMBDA row : IsPromptOf(r, row))
  OBVIOUS
<1>2. i = IF I # {} THEN Min(I) ELSE 0
  BY <1>1 DEF SelectInSeq
<1>3. rows' = IF i = 0 THEN rows ELSE RemoveAt(rows, i)
  BY <1>1 DEF DeleteMessage
<1>4. CASE I = {}
  BY <1>2, <1>3, <1>4
<1>5. CASE I # {}
  <2>1. I \in SUBSET Nat
    OBVIOUS
  <2>2. i \in I
    <3> HIDE DEF I
    <3>1. QED BY <1>2, <1>5, <2>1, MinFacts
  <2>3. i # 0 /\ i \in 1..Len(rows) /\ IsPromptOf(r, rows[i])
    BY <2>2
  <2>4. QED BY <1>3, <2>3
<1>6. QED BY <1>4, <1>5

\* What a launcher does to the table: a prompt comes, or the one of a failed start goes.
LEMMA StartRows ==
  ASSUME RowsInv, NEW r \in Runs, Start(r)
  PROVE  \/ rows' = rows
         \/ rows' = Append(rows, PromptRow(r))
         \/ /\ DeleteMessage(r)
            /\ \E i \in 1..Len(rows) : IsPromptOf(r, rows[i]) /\ rows' = RemoveAt(rows, i)
<1>1. CASE DeleteMessage(r)
  BY <1>1, DeleteRows
<1>2. CASE ~DeleteMessage(r)
  BY <1>2 DEF Start, CreateQueued, PersistUserMessage, Dispatch, FailQueued, CancelQueued, LauncherDies, Launch, Save, PromptRow, Row
<1>3. QED BY <1>1, <1>2

-----------------------------------------------------------------------------
(* Every step keeps the invariant. First the statuses and the program       *)
(* counters, which only runs alone decide.                                  *)

LEMMA StartPhase == ASSUME PhaseInv, NEW r \in Runs, Start(r) PROVE PhaseInv'
<1>0. env' = env
  BY DEF Start, CreateQueued, PersistUserMessage, Dispatch, FailQueued, DeleteMessage, CancelQueued, LauncherDies
<1>1. CASE CreateQueued(r)
  BY <1>0, <1>1 DEF CreateQueued, Launch, PhaseInv, execVars, Live
<1>2. CASE PersistUserMessage(r)
  BY <1>0, <1>2 DEF PersistUserMessage, Launch, PhaseInv, execVars, Live
<1>3. CASE Dispatch(r)
  <2>1. Launch(r, "dispatch", "over") /\ task' = [task EXCEPT ![r] = TRUE]
    BY <1>3 DEF Dispatch, PhaseInv
  <2>2. QED BY <1>0, <1>3, <2>1 DEF Dispatch, Launch, PhaseInv, execVars, Live
<1>4. CASE FailQueued(r) \/ DeleteMessage(r)
  BY <1>4 DEF FailQueued, DeleteMessage, Launch, PhaseInv
<1>5. CASE CancelQueued(r) \/ LauncherDies(r)
  BY <1>0, <1>5 DEF CancelQueued, LauncherDies, PhaseInv, execVars, Live
<1>6. QED BY <1>1, <1>2, <1>3, <1>4, <1>5 DEF Start

LEMMA ExecutePhase == ASSUME PhaseInv, NEW r \in Runs, Execute(r) PROVE PhaseInv'
<1>0. env' = env
  BY DEF Execute, Claim, LoadHistory, Stop, LeaseLost, ModelFails, Answer, CallTools, SaveUse, SaveResult, SaveMarker,
         SaveRef, RoundFails, Terminate, Finish, ExecutorDies
<1>1. CASE Claim(r)
  BY <1>0, <1>1 DEF Claim, Go, PhaseInv, Live
<1>2. CASE LoadHistory(r) \/ ModelFails(r) \/ CallTools(r)
  <2>1. pc[r] \in Live /\ \E p \in Live : pc' = [pc EXCEPT ![r] = p]
    BY <1>2 DEF LoadHistory, ModelFails, CallTools, Go, Live
  <2>2. UNCHANGED <<status, launch, task, toolTail, sweeper>>
    BY <1>2 DEF LoadHistory, ModelFails, CallTools
  <2>3. QED BY <1>0, <2>1, <2>2 DEF PhaseInv, Live
<1>3. CASE Stop(r) \/ Answer(r) \/ SaveUse(r) \/ SaveRef(r) \/ SaveMarker(r) \/ SaveResult(r) \/ RoundFails(r)
  <2>1. pc[r] \in Live /\ \E p \in Live : pc' = [pc EXCEPT ![r] = p]
    BY <1>3 DEF Stop, Answer, SaveUse, SaveRef, SaveMarker, SaveResult, RoundFails, Saving, Go, Live
  <2>2. toolTail' = toolTail \/ \E b \in BOOLEAN : toolTail' = [toolTail EXCEPT ![r] = b]
    BY <1>3 DEF Stop, Answer, SaveUse, SaveRef, SaveMarker, SaveResult, RoundFails
  <2>3. UNCHANGED <<status, launch, task, sweeper>>
    BY <1>3 DEF Stop, Answer, SaveUse, SaveRef, SaveMarker, SaveResult, RoundFails
  <2>4. QED BY <1>0, <2>1, <2>2, <2>3 DEF PhaseInv, Live
<1>4. CASE LeaseLost(r) \/ ExecutorDies(r)
  <2>1. pc' = [pc EXCEPT ![r] = "over"] /\ toolTail' = [toolTail EXCEPT ![r] = FALSE]
    BY <1>4 DEF LeaseLost, ExecutorDies, Leave
  <2>2. UNCHANGED <<status, launch, task, sweeper>> /\ status[r] \notin {"none", "queued", "cancelled"}
    BY <1>4 DEF LeaseLost, ExecutorDies, PhaseInv, Live, Saving
  <2>3. QED BY <1>0, <2>1, <2>2 DEF PhaseInv, Live
<1>5. CASE Terminate(r)
  BY <1>0, <1>5 DEF Terminate, Go, PhaseInv, Live
<1>6. CASE Finish(r)
  BY <1>0, <1>6 DEF Finish, Leave, PhaseInv, Live
<1>7. QED BY <1>1, <1>2, <1>3, <1>4, <1>5, <1>6 DEF Execute

LEMMA RepairPhase == ASSUME PhaseInv, NEW r \in Runs, Repair(r) PROVE PhaseInv'
<1>0. env' = env /\ UNCHANGED <<launch, task, execVars>>
  BY DEF Repair, Sweep, SweepReadsTail, SweepSaves, SweepDies
<1>1. CASE Sweep(r)
  BY <1>0, <1>1 DEF Sweep, PhaseInv, execVars, Live
<1>2. CASE SweepReadsTail(r)
  BY <1>0, <1>2 DEF SweepReadsTail, PhaseInv, execVars, Live
<1>3. CASE SweepSaves(r)
  BY <1>0, <1>3 DEF SweepSaves, PhaseInv, execVars, Live
<1>4. CASE SweepDies(r)
  BY <1>0, <1>4 DEF SweepDies, PhaseInv, execVars, Live
<1>5. QED BY <1>1, <1>2, <1>3, <1>4 DEF Repair

LEMMA PhaseStep == ASSUME PhaseInv, [Next]_vars PROVE PhaseInv'
<1>1. CASE Purge \/ UNCHANGED vars
  BY <1>1 DEF Purge, vars, execVars, PhaseInv
<1>2. QED BY <1>1, StartPhase, ExecutePhase, RepairPhase DEF Next

\* No step changes the status of another run; only a start makes a run active.
LEMMA StatusStep ==
  ASSUME PhaseInv, NEW r \in Runs, Start(r) \/ Execute(r) \/ Repair(r)
  PROVE  /\ \A q \in Runs : q # r => status'[q] = status[q]
         /\ IsActive(r)' => IsActive(r) \/ ~ActiveRun
<1>1. CASE Start(r)
  BY <1>1 DEF Start, CreateQueued, PersistUserMessage, Dispatch, FailQueued, DeleteMessage, CancelQueued, LauncherDies, PhaseInv, IsActive
<1>2. CASE Execute(r)
  <2>1. CASE Claim(r)
    BY <2>1 DEF Claim, PhaseInv, IsActive
  <2>2. CASE Finish(r)
    BY <2>2 DEF Finish, PhaseInv, IsActive
  <2>3. CASE ~Claim(r) /\ ~Finish(r)
    <3>1. status' = status
      BY <1>2, <2>3 DEF Execute, LoadHistory, Stop, LeaseLost, ModelFails, Answer, CallTools, SaveUse, SaveResult,
             SaveMarker, SaveRef, RoundFails, Terminate, ExecutorDies
    <3>2. QED BY <3>1 DEF IsActive
  <2>4. QED BY <2>1, <2>2, <2>3
<1>3. CASE Repair(r)
  BY <1>3 DEF Repair, Sweep, SweepReadsTail, SweepSaves, SweepDies, PhaseInv, IsActive
<1>4. QED BY <1>1, <1>2, <1>3

LEMMA OneActiveStep == ASSUME PhaseInv, OneActive, [Next]_vars PROVE OneActive'
<1>1. CASE Purge \/ UNCHANGED vars
  BY <1>1 DEF Purge, vars, OneActive, IsActive
<1>2. ASSUME NEW r \in Runs, Start(r) \/ Execute(r) \/ Repair(r) PROVE OneActive'
  <2>1. /\ \A q \in Runs : q # r => status'[q] = status[q]
        /\ IsActive(r)' => IsActive(r) \/ ~ActiveRun
    BY <1>2, StatusStep
  <2>2. QED BY <2>1 DEF OneActive, IsActive, ActiveRun
<1>3. QED BY <1>1, <1>2 DEF Next

-----------------------------------------------------------------------------
(* The rows.                                                                *)

LEMMA RoundStep ==
  ASSUME RowsInv, NEW r \in Runs, Execute(r)
  PROVE  round' \in [Runs -> [n : Nat, kind : {"none", "plain", "reads", "compacts"}]]
<1> DEFINE Round == [n : Nat, kind : {"none", "plain", "reads", "compacts"}]
<1>1. round \in [Runs -> Round]
  BY DEF RowsInv
<1>2. CASE CallTools(r)
  <2>1. PICK kind \in env.kinds : round' = [round EXCEPT ![r] = [n |-> @.n + 1, kind |-> kind]]
    BY <1>2 DEF CallTools
  <2>2. kind \in {"plain", "reads", "compacts"}
    BY <2>1, EnvironmentsAssumption DEF RowsInv
  <2>3. round[r].n + 1 \in Nat
    BY <1>1
  <2>4. [n |-> round[r].n + 1, kind |-> kind] \in Round
    BY <2>2, <2>3
  <2>5. QED BY <1>1, <2>1, <2>4
<1>3. CASE LeaseLost(r) \/ ExecutorDies(r) \/ Finish(r)
  <2>1. round' = [round EXCEPT ![r] = NoRound]
    BY <1>3 DEF LeaseLost, ExecutorDies, Finish, Leave
  <2>2. NoRound \in Round
    BY DEF NoRound
  <2>3. QED BY <1>1, <2>1, <2>2
<1>4. CASE ~CallTools(r) /\ ~LeaseLost(r) /\ ~ExecutorDies(r) /\ ~Finish(r)
  <2>1. round' = round
    BY <1>4 DEF Execute, Claim, LoadHistory, Stop, ModelFails, Answer, SaveUse, SaveResult, SaveMarker, SaveRef,
           RoundFails, Terminate
  <2>2. QED BY <1>1, <2>1
<1>5. QED BY <1>2, <1>3, <1>4

LEMMA PromptWritten == ASSUME NEW r \in Runs PROVE PromptRow(r) \in Written /\ IsPromptOf(r, PromptRow(r))
<1>1. PromptRow(r).blocks = <<Block("text", <<r>>)>> /\ PromptRow(r).run = r /\ PromptRow(r).role = "user"
  BY DEF PromptRow, Row
<1>2. Has(PromptRow(r), "text")
  BY <1>1, SingleBlock DEF Has, Block
<1>3. QED BY <1>1, <1>2 DEF IsPromptOf, Written, Prompts

\* What a step does to the table.
RowsMove ==
  \/ rows' = rows
  \/ \E row \in Written : rows' = Append(rows, row)
  \/ \E c : Cut(c)

LEMMA RowsStep == ASSUME RowsInv, [Next]_vars PROVE RowsInv'
<1>0. env' = env /\ rows \in Seq(Written)
  BY EnvStays DEF RowsInv
<1>1. round' \in [Runs -> [n : Nat, kind : {"none", "plain", "reads", "compacts"}]]
  <2>1. CASE \E r \in Runs : Execute(r)
    BY <2>1, RoundStep
  <2>2. CASE (\E r \in Runs : Start(r) \/ Repair(r)) \/ Purge \/ UNCHANGED vars
    <3>1. round' = round
      BY <2>2 DEF Start, CreateQueued, PersistUserMessage, Dispatch, FailQueued, DeleteMessage, CancelQueued, LauncherDies,
             Repair, Sweep, SweepReadsTail, SweepSaves, SweepDies, Purge, vars, execVars
    <3>2. QED BY <3>1 DEF RowsInv
  <2>3. QED BY <2>1, <2>2 DEF Next
<1>2. RowsMove \/ \E i \in 1..Len(rows) : rows' = RemoveAt(rows, i)
  <2>1. ASSUME NEW r \in Runs, Execute(r) PROVE RowsMove
    BY <2>1, ExecuteAppends DEF Appends, RowsMove
  <2>2. ASSUME NEW r \in Runs, Start(r) PROVE RowsMove \/ \E i \in 1..Len(rows) : rows' = RemoveAt(rows, i)
    BY <2>2, StartRows, PromptWritten DEF RowsMove
  <2>3. ASSUME NEW r \in Runs, Repair(r) PROVE RowsMove
    <3>1. Row("assistant", Terminator, NoRun) \in Written
      BY DEF Written, Repairs
    <3>2. QED BY <2>3, <3>1, RepairAppends DEF RowsMove
  <2>4. CASE Purge
    BY <2>4, PurgeCuts DEF RowsMove
  <2>5. CASE UNCHANGED vars
    BY <2>5 DEF vars, RowsMove
  <2>6. QED BY <2>1, <2>2, <2>3, <2>4, <2>5 DEF Next
<1>3. rows' \in Seq(Written)
  <2> HIDE DEF Written
  <2>1. CASE \E row \in Written : rows' = Append(rows, row)
    BY <1>0, <2>1, AppendRows
  <2>2. CASE \E c : Cut(c)
    <3>1. PICK c : c \in 0..Len(rows) /\ rows' = SubSeq(rows, c + 1, Len(rows))
      BY <2>2 DEF Cut
    <3>2. QED BY <1>0, <3>1, CutRows
  <2>3. CASE \E i \in 1..Len(rows) : rows' = RemoveAt(rows, i)
    BY <1>0, <2>3, RemovedRows
  <2>4. QED BY <1>0, <1>2, <2>1, <2>2, <2>3 DEF RowsMove
<1>4. QED BY <1>0, <1>1, <1>3 DEF RowsInv

-----------------------------------------------------------------------------
(* The turns.                                                               *)

\* A cancelled run stays so: nobody executes it, sweeps it or fails its start.
LEMMA GoneGrows ==
  ASSUME PhaseInv, NEW r \in Runs, Start(r) \/ Execute(r) \/ Repair(r) PROVE Gone \subseteq Gone'
<1>1. status'[r] = "cancelled" \/ status[r] # "cancelled"
  <2>1. CASE Start(r)
    BY <2>1 DEF Start, CreateQueued, PersistUserMessage, Dispatch, FailQueued, DeleteMessage, CancelQueued, LauncherDies,
           Launch, PhaseInv
  <2>2. CASE Execute(r)
    BY <2>2 DEF Execute, Claim, LoadHistory, Stop, LeaseLost, ModelFails, Answer, CallTools, SaveUse, SaveResult, SaveMarker,
           SaveRef, RoundFails, Terminate, Finish, ExecutorDies, PhaseInv
  <2>3. CASE Repair(r)
    BY <2>3 DEF Repair, Sweep, SweepReadsTail, SweepSaves, SweepDies
  <2>4. QED BY <2>1, <2>2, <2>3
<1>2. \A q \in Runs : q # r => status'[q] = status[q]
  BY StatusStep
<1>3. QED BY <1>1, <1>2 DEF Gone

\* A step that leaves the table alone, and takes a run no further than its prompt allows.
LEMMA TurnSame ==
  ASSUME TurnInv, PhaseInv, rows' = rows, Gone \subseteq Gone',
         \A r \in Runs :
           /\ launch'[r] \in {"none", "persist"} => launch[r] \in {"none", "persist"}
           /\ IsActive(r)' => IsActive(r) \/ launch[r] = "none"
           /\ (Writing(r) \/ toolTail[r])' => Writing(r) \/ toolTail[r] \/ HasPrompt(rows, r)
  PROVE  TurnInv'
<1>1. \A r \in Runs : launch[r] = "none" => Current(rows, r, Gone)
  BY DEF TurnInv, Current
<1>2. Whole(rows, Gone')
  BY MoreGone DEF TurnInv
<1>3. \A r \in Runs : IsActive(r)' => Current(rows, r, Gone)
  BY <1>1 DEF TurnInv
<1>4. \A r \in Runs : IsActive(r)' => Current(rows, r, Gone')
  BY <1>3, MoreGone
<1>5. \A r \in Runs : /\ launch'[r] \in {"none", "persist"} => \A i \in DOMAIN rows : rows[i].run # r
                      /\ (Writing(r) \/ toolTail[r])' => HasPrompt(rows, r)
  BY DEF TurnInv
<1>6. QED BY <1>2, <1>4, <1>5 DEF TurnInv

LEMMA StartTurn == ASSUME RowsInv, PhaseInv, TurnInv, OneActive, NEW r \in Runs, Start(r) PROVE TurnInv'
<1>0. UNCHANGED <<pc, toolTail>>
  BY DEF Start, CreateQueued, PersistUserMessage, Dispatch, FailQueued, DeleteMessage, CancelQueued, LauncherDies, execVars
<1>1. CASE PersistUserMessage(r)
  <2>1. /\ rows' = Append(rows, PromptRow(r)) /\ status' = status
        /\ launch[r] = "persist" /\ launch' = [launch EXCEPT ![r] = "dispatch"]
    BY <1>1 DEF PersistUserMessage, Launch, Save, PromptRow, Row
  <2>2. rows \in Seq(Written) /\ PromptRow(r) \in Written /\ IsPromptOf(r, PromptRow(r)) /\ PromptRow(r).run = r
    BY PromptWritten DEF RowsInv, IsPromptOf
  <2>3. (IsActive(r) \/ r \in Gone) /\ Gone' = Gone
    BY <2>1 DEF PhaseInv, IsActive, Gone
  <2> HIDE DEF Written
  <2>4. Whole(rows', Gone)
    <3>1. Whole(rows, Gone) /\ Current(rows, r, Gone)
      BY <2>1 DEF TurnInv, Current
    <3>2. PICK row \in Written : row = PromptRow(r)
      BY <2>2
    <3>3. /\ rows \in Seq(Written) /\ rows' = Append(rows, row)
          /\ row.run # NoRun => Current(rows, row.run, Gone) /\ (HasPrompt(rows, row.run) \/ IsPromptOf(row.run, row))
      BY <2>1, <2>2, <3>1, <3>2
    <3>4. QED BY ONLY <3>1, <3>2, <3>3, WholeAppend
  <2>5. \A q \in Runs : launch'[q] \in {"none", "persist"} => \A i \in DOMAIN rows' : rows'[i].run # q
    <3>1. /\ DOMAIN rows' = 1..(Len(rows) + 1) /\ DOMAIN rows = 1..Len(rows) /\ Len(rows) \in Nat
          /\ rows'[Len(rows) + 1] = PromptRow(r) /\ \A i \in 1..Len(rows) : rows'[i] = rows[i]
      BY <2>1, <2>2, AppendRows
    <3>2. \A q \in Runs : launch'[q] \in {"none", "persist"} => q # r /\ launch[q] \in {"none", "persist"}
      BY <2>1 DEF PhaseInv
    <3>3. \A i \in DOMAIN rows' : i = Len(rows) + 1 \/ i \in DOMAIN rows
      BY <3>1
    <3>4. QED BY <2>2, <3>1, <3>2, <3>3 DEF TurnInv
  <2>6. ASSUME NEW q \in Runs, IsActive(q)' PROVE Current(rows', q, Gone)
    <3>1. IsActive(q) /\ (q = r \/ r \in Gone)
      BY <2>1, <2>3, <2>6 DEF OneActive, IsActive
    <3>2. Current(rows, q, Gone)
      BY <3>1 DEF TurnInv
    <3>3. PromptRow(r).run \in {q, NoRun} \cup Gone
      BY <2>2, <3>1
    <3>4. QED BY <2>1, <2>2, <3>2, <3>3, CurrentAppend
  <2>7. \A q \in Runs : (Writing(q) \/ toolTail[q])' => HasPrompt(rows', q)
    <3>1. \A q \in Runs : (Writing(q) \/ toolTail[q])' => HasPrompt(rows, q)
      BY <1>0 DEF Writing, TurnInv
    <3>2. QED BY <2>1, <2>2, <3>1, PromptStays
  <2>8. QED BY <2>3, <2>4, <2>5, <2>6, <2>7 DEF TurnInv
<1>2. CASE ~PersistUserMessage(r)
  <2>1. rows' = rows
    BY <1>2 DEF Start, CreateQueued, Dispatch, FailQueued, DeleteMessage, CancelQueued, LauncherDies, Launch, PhaseInv
  <2>2. \A q \in Runs : launch'[q] \in {"none", "persist"} => launch[q] \in {"none", "persist"}
    BY <1>2 DEF Start, CreateQueued, Dispatch, FailQueued, DeleteMessage, CancelQueued, LauncherDies, Launch, PhaseInv
  <2>3. \A q \in Runs : IsActive(q)' => IsActive(q) \/ launch[q] = "none"
    BY <1>2 DEF Start, CreateQueued, Dispatch, FailQueued, DeleteMessage, CancelQueued, LauncherDies, Launch, PhaseInv, IsActive
  <2>4. \A q \in Runs : (Writing(q) \/ toolTail[q])' => Writing(q) \/ toolTail[q]
    BY <1>0 DEF Writing
  <2>5. Gone \subseteq Gone'
    BY GoneGrows
  <2>6. QED BY <2>1, <2>2, <2>3, <2>4, <2>5, TurnSame
<1>3. QED BY <1>1, <1>2

\* A turn gets under way when its prompt is found.
LEMMA LoadHasPrompt ==
  ASSUME DOMAIN pc = Runs, NEW r \in Runs, LoadHistory(r), pc'[r] # "finally"
  PROVE  HasPrompt(rows, r)
<1> DEFINE I == {i \in 1..Len(rows) : IsPromptOf(r, rows[i])}
<1>1. SelectInSeq(rows, LAMBDA row : IsPromptOf(r, row)) = IF I # {} THEN Min(I) ELSE 0
  BY DEF SelectInSeq
<1>2. I # {}
  BY <1>1 DEF LoadHistory, Go
<1>3. QED BY <1>2 DEF HasPrompt

\* Who writes is alive and has its prompt; no other run is touched.
LEMMA ExecuteFacts ==
  ASSUME RowsInv, PhaseInv, NEW r \in Runs, Execute(r)
  PROVE  /\ launch' = launch
         /\ \A q \in Runs : IsActive(q)' => IsActive(q)
         /\ \A q \in Runs : (Writing(q) \/ toolTail[q])' => Writing(q) \/ toolTail[q] \/ HasPrompt(rows, q)
         /\ rows' # rows => status[r] = "running" /\ (Writing(r) \/ toolTail[r])
<1>1. launch' = launch
  BY DEF Execute, Claim, LoadHistory, Stop, LeaseLost, ModelFails, Answer, CallTools, SaveUse, SaveResult, SaveMarker,
         SaveRef, RoundFails, Terminate, Finish, ExecutorDies
<1>2. \A q \in Runs : IsActive(q)' => IsActive(q)
  <2>1. CASE Claim(r)
    BY <2>1 DEF Claim, PhaseInv, IsActive
  <2>2. CASE Finish(r)
    BY <2>2 DEF Finish, PhaseInv, IsActive
  <2>3. CASE ~Claim(r) /\ ~Finish(r)
    <3>1. status' = status
      BY <2>3 DEF Execute, LoadHistory, Stop, LeaseLost, ModelFails, Answer, CallTools, SaveUse, SaveResult,
             SaveMarker, SaveRef, RoundFails, Terminate, ExecutorDies
    <3>2. QED BY <3>1 DEF IsActive
  <2>4. QED BY <2>1, <2>2, <2>3
<1>3. rows' # rows => status[r] = "running" /\ (Writing(r) \/ toolTail[r])
  <2>1. CASE Stop(r) \/ Answer(r) \/ SaveUse(r) \/ SaveResult(r) \/ SaveMarker(r) \/ SaveRef(r)
    <3>1. Writing(r)
      BY <2>1 DEF Stop, Answer, SaveUse, SaveResult, SaveMarker, SaveRef, Go, Writing, Saving
    <3>2. QED BY <3>1 DEF PhaseInv, Writing, Saving, Live
  <2>2. CASE Terminate(r)
    BY <2>2 DEF Terminate, Go, PhaseInv, Live
  <2>3. QED BY <2>1, <2>2 DEF Execute, Claim, LoadHistory, LeaseLost, ModelFails, CallTools, RoundFails, Finish, ExecutorDies
<1>4. \A q \in Runs : (Writing(q) \/ toolTail[q])' => Writing(q) \/ toolTail[q] \/ HasPrompt(rows, q)
  <2>1. CASE LoadHistory(r)
    <3>1. pc[r] = "load" /\ (pc' = [pc EXCEPT ![r] = "model"] \/ pc' = [pc EXCEPT ![r] = "finally"]) /\ toolTail' = toolTail
      BY <2>1 DEF LoadHistory, Go
    <3>2. pc'[r] # "finally" => HasPrompt(rows, r)
      BY <2>1, LoadHasPrompt DEF PhaseInv
    <3>3. Writing(r)' => pc'[r] # "finally"
      BY DEF Writing, Saving
    <3>4. QED BY <3>1, <3>2, <3>3 DEF Writing, PhaseInv
  <2>2. CASE Stop(r) \/ Answer(r) \/ SaveUse(r) \/ SaveResult(r) \/ SaveMarker(r) \/ SaveRef(r)
             \/ CallTools(r) \/ ModelFails(r) \/ RoundFails(r)
    <3>1. Writing(r)
      BY <2>2 DEF Stop, Answer, SaveUse, SaveResult, SaveMarker, SaveRef, CallTools, ModelFails, RoundFails, Go, Writing, Saving
    <3>2. \A q \in Runs : q # r => pc'[q] = pc[q] /\ toolTail'[q] = toolTail[q]
      BY <2>2 DEF Stop, Answer, SaveUse, SaveResult, SaveMarker, SaveRef, CallTools, ModelFails, RoundFails, Go, PhaseInv
    <3>3. QED BY <3>1, <3>2 DEF Writing
  <2>3. CASE Claim(r) \/ Terminate(r)
    <3>1. toolTail' = toolTail /\ \E p \in {"load", "finish"} : pc' = [pc EXCEPT ![r] = p]
      BY <2>3 DEF Claim, Terminate, Go
    <3>2. QED BY <3>1 DEF Writing, Saving, PhaseInv
  <2>4. CASE LeaseLost(r) \/ Finish(r) \/ ExecutorDies(r)
    <3>1. toolTail' = [toolTail EXCEPT ![r] = FALSE] /\ pc' = [pc EXCEPT ![r] = "over"]
      BY <2>4 DEF LeaseLost, Finish, ExecutorDies, Leave
    <3>2. QED BY <3>1 DEF Writing, Saving, PhaseInv
  <2>5. QED BY <2>1, <2>2, <2>3, <2>4 DEF Execute
<1>5. QED BY <1>1, <1>2, <1>3, <1>4

\* A row of r, or of a sweep, is appended; no run gets further than its prompt allows.
LEMMA TurnAppend ==
  ASSUME RowsInv, PhaseInv, TurnInv, OneActive, launch' = launch, Gone \subseteq Gone',
         \A q \in Runs : /\ IsActive(q)' => IsActive(q)
                         /\ (Writing(q) \/ toolTail[q])' => Writing(q) \/ toolTail[q] \/ HasPrompt(rows, q),
         NEW row \in Written, rows' = Append(rows, row),
         row.run = NoRun \/ (row.run \in Runs /\ status[row.run] = "running" /\ HasPrompt(rows, row.run))
  PROVE  TurnInv'
<1>1. rows \in Seq(Written)
  BY DEF RowsInv
<1> HIDE DEF Written
<1>2. row.run # NoRun => row.run \in Runs /\ IsActive(row.run) /\ launch[row.run] = "over"
                          /\ Current(rows, row.run, Gone) /\ HasPrompt(rows, row.run)
  BY DEF IsActive, PhaseInv, TurnInv
<1>3. Whole(rows', Gone')
  <2>1. Whole(rows', Gone)
    BY <1>1, <1>2, WholeAppend DEF TurnInv
  <2>2. QED BY <2>1, MoreGone
<1>4. ASSUME NEW q \in Runs, launch'[q] \in {"none", "persist"}, NEW i \in DOMAIN rows' PROVE rows'[i].run # q
  <2>1. /\ DOMAIN rows' = 1..(Len(rows) + 1) /\ DOMAIN rows = 1..Len(rows) /\ Len(rows) \in Nat
        /\ rows'[Len(rows) + 1] = row /\ \A k \in 1..Len(rows) : rows'[k] = rows[k]
    BY <1>1, AppendRows
  <2>2. i = Len(rows) + 1 \/ i \in DOMAIN rows
    BY <2>1
  <2>3. \A k \in DOMAIN rows : rows[k].run # q
    BY <1>4 DEF TurnInv
  <2>4. row.run # q
    BY <1>2, <1>4, RunsAssumption
  <2>5. QED BY <2>1, <2>2, <2>3, <2>4
<1>5. ASSUME NEW q \in Runs, IsActive(q)' PROVE Current(rows', q, Gone')
  <2>1. IsActive(q) /\ Current(rows, q, Gone)
    BY <1>5 DEF TurnInv
  <2>2. row.run \in {q, NoRun} \cup Gone
    BY <1>2, <2>1 DEF OneActive
  <2>3. Current(rows', q, Gone)
    BY <1>1, <2>1, <2>2, CurrentAppend
  <2>4. QED BY <2>3, MoreGone
<1>6. ASSUME NEW q \in Runs, (Writing(q) \/ toolTail[q])' PROVE HasPrompt(rows', q)
  <2>1. HasPrompt(rows, q)
    BY <1>6 DEF TurnInv
  <2>2. QED BY <1>1, <2>1, PromptStays
<1>7. QED BY <1>3, <1>4, <1>5, <1>6 DEF TurnInv

LEMMA ExecuteTurn == ASSUME RowsInv, PhaseInv, TurnInv, OneActive, NEW r \in Runs, Execute(r) PROVE TurnInv'
<1>0. Gone \subseteq Gone'
  BY GoneGrows
<1>1. CASE rows' = rows
  BY <1>0, <1>1, ExecuteFacts, TurnSame
<1>2. CASE rows' # rows
  <2>1. PICK row \in Written : row.run = r /\ rows' = Append(rows, row)
    BY <1>2, ExecuteAppends DEF Appends
  <2>2. status[r] = "running" /\ HasPrompt(rows, r)
    BY <1>2, ExecuteFacts DEF TurnInv
  <2>3. QED BY <1>0, <2>1, <2>2, ExecuteFacts, TurnAppend
<1>3. QED BY <1>1, <1>2

LEMMA RepairTurn == ASSUME RowsInv, PhaseInv, TurnInv, OneActive, NEW r \in Runs, Repair(r) PROVE TurnInv'
<1>0. Gone \subseteq Gone'
  BY GoneGrows
<1>1. UNCHANGED <<launch, pc, toolTail>>
  BY DEF Repair, Sweep, SweepReadsTail, SweepSaves, SweepDies, execVars
<1>2. \A q \in Runs : IsActive(q)' => IsActive(q)
  BY DEF Repair, Sweep, SweepReadsTail, SweepSaves, SweepDies, IsActive, PhaseInv
<1>3. \A q \in Runs : (Writing(q) \/ toolTail[q])' => Writing(q) \/ toolTail[q]
  BY <1>1 DEF Writing
<1>4. CASE rows' = rows
  BY <1>0, <1>1, <1>2, <1>3, <1>4, TurnSame
<1>5. CASE rows' # rows
  <2>1. PICK row : row = Row("assistant", Terminator, NoRun)
    OBVIOUS
  <2>2. rows' = Append(rows, row) /\ row \in Written /\ row.run = NoRun
    BY <1>5, <2>1, RepairAppends DEF Written, Repairs, Row
  <2>3. QED BY <1>0, <1>1, <1>2, <1>3, <2>2, TurnAppend
<1>6. QED BY <1>4, <1>5

LEMMA PurgeTurn == ASSUME RowsInv, PhaseInv, TurnInv, Purge PROVE TurnInv'
<1>1. PICK c : Cut(c)
  BY PurgeCuts
<1>2. /\ c \in 0..Len(rows) /\ rows' = SubSeq(rows, c + 1, Len(rows)) /\ rows \in Seq(Written)
      /\ c < Len(rows) => KeepsFrom(rows[c + 1])
      /\ \A i \in 1..c : Old(rows[i]) \/ ~KeepsFrom(rows[i])
  BY <1>1 DEF Cut, RowsInv
<1>3. UNCHANGED <<status, launch, pc, toolTail>> /\ Gone' = Gone
  BY DEF Purge, execVars, Gone
<1> HIDE DEF Written
<1>4. Whole(rows', Gone)
  BY <1>2, WholeCut DEF TurnInv
<1>5. ASSUME NEW q \in Runs, launch'[q] \in {"none", "persist"}, NEW i \in DOMAIN rows' PROVE rows'[i].run # q
  <2>1. \E k \in DOMAIN rows : rows'[i] = rows[k]
    <3>1. /\ DOMAIN rows' = 1..(Len(rows) - c) /\ DOMAIN rows = 1..Len(rows)
          /\ \A k \in 1..(Len(rows) - c) : k + c \in 1..Len(rows) /\ rows'[k] = rows[k + c]
      BY <1>2, CutRows
    <3>2. i \in 1..(Len(rows) - c)
      BY <1>5, <3>1
    <3>3. QED BY <3>1, <3>2
  <2>2. QED BY <1>3, <1>5, <2>1 DEF TurnInv
<1>6. ASSUME NEW q \in Runs, IsActive(q)' PROVE Current(rows', q, Gone)
  <2>1. Current(rows, q, Gone)
    BY <1>3, <1>6 DEF TurnInv, IsActive
  <2>2. rows \in Seq(Written) /\ c \in 0..Len(rows) /\ rows' = SubSeq(rows, c + 1, Len(rows))
    BY <1>2
  <2>3. PICK S, s, t, X : S = Written /\ s = rows /\ t = rows' /\ X = Gone
    OBVIOUS
  <2>4. s \in Seq(S) /\ c \in 0..Len(s) /\ t = SubSeq(s, c + 1, Len(s)) /\ Current(s, q, X)
    BY ONLY <2>1, <2>2, <2>3
  <2>5. Current(t, q, X)
    BY ONLY <2>4, CurrentCut, ZenonT(40)
  <2>6. QED BY ONLY <2>3, <2>5
<1>7. ASSUME NEW q \in Runs, (Writing(q) \/ toolTail[q])' PROVE HasPrompt(rows', q)
  <2>1. Writing(q) \/ toolTail[q]
    BY <1>3, <1>7 DEF Writing
  <2>2. HasPrompt(rows, q)
    BY <2>1 DEF TurnInv
  <2>3. pc[q] \notin {"none", "over"}
    BY <2>1 DEF Writing, Saving, Live, PhaseInv
  <2>4. QED BY <1>2, <2>2, <2>3, PromptCut
<1>8. QED BY <1>3, <1>4, <1>5, <1>6, <1>7 DEF TurnInv

LEMMA TurnStep == ASSUME RowsInv, PhaseInv, TurnInv, OneActive, [Next]_vars PROVE TurnInv'
<1>1. CASE UNCHANGED vars
  BY <1>1 DEF vars, execVars, TurnInv, Gone, Whole, Current, HasPrompt, IsActive, Writing
<1>2. QED BY <1>1, StartTurn, ExecuteTurn, RepairTurn, PurgeTurn DEF Next

-----------------------------------------------------------------------------
(* The tail.                                                                *)

LEMMA LastAppended ==
  ASSUME NEW S, NEW s \in Seq(S), NEW row \in S, NEW t, t = Append(s, row)
  PROVE  t # <<>> /\ Last(t) = row
  BY DEF Last

LEMMA LastWritten ==
  ASSUME NEW S, NEW s \in Seq(S), s # <<>> PROVE Last(s) \in S
  BY DEF Last

\* Whose tool result stands at the tail.
LEMMA TailRun == ASSUME RowsInv, ResultTail PROVE Last(rows).run \in Runs
<1>1. rows \in Seq(Written) /\ rows # <<>>
  BY DEF RowsInv, ResultTail
<1>2. Last(rows) \in Written
  <2> HIDE DEF Written
  <2> QED BY <1>1, LastWritten
<1>3. QED BY <1>2, ResultTailIsResult DEF ResultTail

\* The run of the tail has its prompt behind it, and has started.
LEMMA TailLaunched == ASSUME RowsInv, TurnInv, ResultTail PROVE launch[Last(rows).run] \notin {"none", "persist"}
<1>1. rows \in Seq(Written) /\ rows # <<>>
  BY DEF RowsInv, ResultTail
<1>2. Len(rows) \in DOMAIN rows
  <2> HIDE DEF Written
  <2> QED BY <1>1
<1>3. QED BY <1>2, TailRun DEF TurnInv, Last

\* The table stays: what the step does to the run of its last row.
LEMMA TailSame ==
  ASSUME RowsInv, TailInv, rows' = rows, env' = env,
         \A q \in Runs :
           ~env.failures /\ ResultTail /\ q = Last(rows).run
             /\ (status[q] = "running" \/ sweeper[q] \in {"read", "save"})
             /\ (pc[q] \in Live => toolTail[q]) /\ pc[q] # "finish"
           => /\ status'[q] = "running" \/ sweeper'[q] \in {"read", "save"}
              /\ pc'[q] \in Live => toolTail'[q]
              /\ pc'[q] # "finish"
  PROVE  TailInv'
<1>1. ResultTail' <=> ResultTail
  BY DEF ResultTail
<1>2. QED BY <1>1 DEF TailInv

LEMMA TailOther ==
  ASSUME RowsInv, NEW row \in Written, rows' = Append(rows, row), row.role = "assistant" \/ ~Only(row, "result")
  PROVE  TailInv'
<1>1. rows \in Seq(Written)
  BY DEF RowsInv
<1>2. Last(rows') = row
  <2> HIDE DEF Written
  <2> QED BY <1>1, LastAppended
<1>3. ~(ResultTail')
  BY <1>2 DEF ResultTail
<1>4. QED BY <1>3 DEF TailInv

LEMMA StartTail == ASSUME RowsInv, PhaseInv, TurnInv, TailInv, NEW r \in Runs, Start(r) PROVE TailInv'
<1>1. env' = env /\ UNCHANGED <<pc, toolTail, sweeper>>
  BY DEF Start, CreateQueued, PersistUserMessage, Dispatch, FailQueued, DeleteMessage, CancelQueued, LauncherDies, execVars
<1>2. CASE rows' = rows
  <2>1. \A q \in Runs : status[q] = "running" => status'[q] = "running"
    BY DEF Start, CreateQueued, PersistUserMessage, Dispatch, FailQueued, DeleteMessage, CancelQueued, LauncherDies, Launch, PhaseInv
  <2>2. QED BY <1>1, <1>2, <2>1, TailSame
<1>3. CASE rows' # rows
  <2>1. rows' = Append(rows, PromptRow(r)) /\ PromptRow(r) \in Written
    BY <1>3, StartAppends, PromptWritten
  <2>2. PromptRow(r).blocks = <<Block("text", <<r>>)>>
    BY DEF PromptRow, Row
  <2>3. ~Only(PromptRow(r), "result")
    BY <2>2, SingleBlock DEF Only, Block
  <2>4. QED BY <2>1, <2>3, TailOther
<1>4. QED BY <1>2, <1>3

LEMMA ExecuteTail == ASSUME RowsInv, PhaseInv, TurnInv, TailInv, NEW r \in Runs, Execute(r) PROVE TailInv'
<1>1. env' = env /\ sweeper' = sweeper
  BY DEF Execute, Claim, LoadHistory, Stop, LeaseLost, ModelFails, Answer, CallTools, SaveUse, SaveResult, SaveMarker,
         SaveRef, RoundFails, Terminate, Finish, ExecutorDies
<1>2. ASSUME NEW b \in OtherBlocks(r), Save(r, "assistant", b) PROVE TailInv'
  <2>1. Row("assistant", b, r) \in Written /\ Row("assistant", b, r).role = "assistant"
    BY OtherRowWritten DEF Row
  <2>2. QED BY <1>2, <2>1, TailOther DEF Save, Row
<1>3. CASE Stop(r) \/ Answer(r) \/ SaveUse(r) \/ SaveMarker(r)
  <2>1. <<Block("note", <<>>)>> \in OtherBlocks(r) /\ <<Block("text", <<r>>)>> \in OtherBlocks(r)
        /\ <<Filler>> \in OtherBlocks(r)
    BY DEF OtherBlocks
  <2>2. Response(r) \in OtherBlocks(r)
    <3>0. round[r].n \in Nat
      BY DEF RowsInv
    <3>1. CASE round[r].kind = "compacts"
      <4>1. Response(r) = <<Block("compaction", <<>>)>> \o <<Block("use", <<r, round[r].n>>)>>
        BY <3>1 DEF Response
      <4>2. QED BY <4>1, <3>0 DEF OtherBlocks
    <3>2. CASE round[r].kind # "compacts"
      <4>1. Response(r) = <<Block("use", <<r, round[r].n>>)>>
        BY <3>2 DEF Response
      <4>2. QED BY <4>1, <3>0 DEF OtherBlocks
    <3>3. QED BY <3>1, <3>2
  <2>3. QED BY <1>2, <1>3, <2>1, <2>2 DEF Stop, Answer, SaveUse, SaveMarker
<1>4. CASE SaveRef(r)
  <2>1. PICK row : row = Row("user", <<ReadRef(File)>>, r)
    OBVIOUS
  <2>2. rows' = Append(rows, row) /\ row \in Written /\ row.blocks = <<ReadRef(File)>>
    BY <1>4, <2>1 DEF SaveRef, Save, Row, Written, References
  <2>3. ~Only(row, "result")
    BY <2>2, SingleBlock DEF Only, Block, ReadRef
  <2>4. QED BY <2>2, <2>3, TailOther
<1>5. CASE SaveResult(r)
  <2>1. PICK row : row = ResultRow(r, round[r].n)
    OBVIOUS
  <2>2. rows' = Append(rows, row) /\ row \in Written /\ row.run = r
    <3>1. round[r].n \in Nat
      BY DEF RowsInv
    <3>2. Save(r, "user", Results(r))
      BY <1>5 DEF SaveResult
    <3>3. rows' = Append(rows, ResultRow(r, round[r].n))
      BY <3>2 DEF Save, Results, ResultRow, Row
    <3>4. QED BY <2>1, <3>1, <3>3, ResultRowWritten
  <2>3. rows \in Seq(Written)
    BY DEF RowsInv
  <2>4. Last(rows') = row
    <3> HIDE DEF Written
    <3> QED BY <2>2, <2>3, LastAppended
  <2>5. status[r] = "running" /\ status' = status /\ toolTail' = [toolTail EXCEPT ![r] = TRUE]
    BY <1>5 DEF SaveResult, Go, PhaseInv, Live
  <2>6. pc'[r] \in {"saveMarker", "model"} /\ toolTail'[r]
    BY <1>5, <2>5 DEF SaveResult, Go, PhaseInv
  <2>7. QED BY <2>2, <2>4, <2>5, <2>6 DEF TailInv, Live
<1>6. CASE Terminate(r)
  <2>1. CASE Save(r, "assistant", Terminator)
    <3>1. Terminator \in OtherBlocks(r)
      BY DEF OtherBlocks
    <3>2. QED BY <1>2, <2>1, <3>1
  <2>2. CASE ~Save(r, "assistant", Terminator)
    <3>1. /\ rows' = rows /\ UNCHANGED <<status, sweeper, toolTail>>
          /\ pc[r] = "finally" /\ pc' = [pc EXCEPT ![r] = "finish"] /\ (toolTail[r] => env.failures)
      BY <1>6, <2>2 DEF Terminate, Go
    <3>2. QED BY <1>1, <3>1, TailSame DEF Live, PhaseInv
  <2>3. QED BY <2>1, <2>2
<1>7. CASE LoadHistory(r) \/ ModelFails(r) \/ CallTools(r) \/ RoundFails(r)
  <2>1. rows' = rows /\ UNCHANGED <<status, sweeper, toolTail>>
    BY <1>7 DEF LoadHistory, ModelFails, CallTools, RoundFails
  <2>2. pc[r] \in Live /\ \E p \in Live : pc' = [pc EXCEPT ![r] = p]
    BY <1>7 DEF LoadHistory, ModelFails, CallTools, RoundFails, Go, Live, Saving
  <2>3. QED BY <1>1, <2>1, <2>2, TailSame DEF Live, PhaseInv
<1>8. CASE LeaseLost(r) \/ ExecutorDies(r)
  <2>1. rows' = rows /\ UNCHANGED <<status, sweeper>> /\ pc' = [pc EXCEPT ![r] = "over"]
        /\ toolTail' = [toolTail EXCEPT ![r] = FALSE]
    BY <1>8 DEF LeaseLost, ExecutorDies, Leave
  <2>2. QED BY <1>1, <2>1, TailSame DEF Live, PhaseInv
<1>9. CASE Claim(r)
  <2>1. rows' = rows /\ UNCHANGED <<sweeper, toolTail>> /\ status[r] = "queued"
        /\ pc' = [pc EXCEPT ![r] = "load"] /\ status' = [status EXCEPT ![r] = "running"]
    BY <1>9 DEF Claim, Go
  <2>2. sweeper[r] = "none"
    BY <2>1 DEF PhaseInv
  <2>3. QED BY <1>1, <2>1, <2>2, TailSame DEF PhaseInv
<1>10. CASE Finish(r)
  <2>1. rows' = rows /\ pc[r] = "finish" /\ pc' = [pc EXCEPT ![r] = "over"]
        /\ toolTail' = [toolTail EXCEPT ![r] = FALSE] /\ status' = [status EXCEPT ![r] = "ended"]
    BY <1>10 DEF Finish, Leave
  <2>2. QED BY <1>1, <2>1, TailSame DEF PhaseInv
<1>11. QED BY <1>3, <1>4, <1>5, <1>6, <1>7, <1>8, <1>9, <1>10 DEF Execute

LEMMA RepairTail == ASSUME RowsInv, PhaseInv, TailInv, NEW r \in Runs, Repair(r) PROVE TailInv'
<1>1. env' = env /\ UNCHANGED <<pc, toolTail>>
  BY DEF Repair, Sweep, SweepReadsTail, SweepSaves, SweepDies, execVars
<1>2. CASE Sweep(r)
  <2>1. rows' = rows /\ status' = [status EXCEPT ![r] = "ended"] /\ sweeper' = [sweeper EXCEPT ![r] = "read"]
    BY <1>2 DEF Sweep
  <2>2. QED BY <1>1, <2>1, TailSame DEF PhaseInv
<1>3. CASE SweepReadsTail(r)
  <2>1. rows' = rows /\ status' = status /\ sweeper' = [sweeper EXCEPT ![r] = IF ResultTail THEN "save" ELSE "over"]
    BY <1>3 DEF SweepReadsTail, NeedsTerminator
  <2>2. QED BY <1>1, <2>1, TailSame DEF PhaseInv
<1>4. CASE SweepSaves(r)
  <2>1. PICK row : row = Row("assistant", Terminator, NoRun)
    OBVIOUS
  <2>2. rows' = Append(rows, row) /\ row \in Written /\ row.role = "assistant"
    BY <1>4, <2>1 DEF SweepSaves, Save, Written, Repairs, Row
  <2>3. QED BY <2>2, TailOther
<1>5. CASE SweepDies(r)
  <2>1. rows' = rows /\ env.failures
    BY <1>5 DEF SweepDies
  <2>2. QED BY <1>1, <2>1, TailSame
<1>6. QED BY <1>2, <1>3, <1>4, <1>5 DEF Repair

LEMMA PurgeTail == ASSUME RowsInv, TailInv, Purge PROVE TailInv'
<1>1. PICK c : Cut(c)
  BY PurgeCuts
<1>2. c \in 0..Len(rows) /\ rows' = SubSeq(rows, c + 1, Len(rows)) /\ rows \in Seq(Written)
  BY <1>1 DEF Cut, RowsInv
<1>3. UNCHANGED <<env, status, pc, toolTail, sweeper>>
  BY DEF Purge, execVars
<1>4. ASSUME rows' # <<>> PROVE rows # <<>> /\ Last(rows') = Last(rows)
  <2>1. /\ rows' \in Seq(Written) /\ Len(rows') = Len(rows) - c /\ Len(rows) \in Nat
        /\ \A i \in 1..(Len(rows) - c) : rows'[i] = rows[i + c]
    <3> HIDE DEF Written
    <3>1. QED BY <1>2, CutRows
  <2>2. Len(rows') # 0
    <3> HIDE DEF Written
    <3>1. QED BY <1>4, <2>1
  <2>3. Len(rows) - c \in 1..(Len(rows) - c) /\ (Len(rows) - c) + c = Len(rows) /\ Len(rows) # 0
    BY <1>2, <2>1, <2>2
  <2>4. rows'[Len(rows')] = rows[Len(rows)]
    BY <2>1, <2>3
  <2>5. rows # <<>>
    BY <2>3
  <2>6. QED BY <2>4, <2>5 DEF Last
<1>5. ResultTail' => ResultTail /\ Last(rows') = Last(rows)
  BY <1>4 DEF ResultTail
<1>6. QED BY <1>3, <1>5 DEF TailInv

LEMMA TailStep == ASSUME RowsInv, PhaseInv, TurnInv, TailInv, [Next]_vars PROVE TailInv'
<1>1. CASE UNCHANGED vars
  BY <1>1 DEF vars, execVars, TailInv, ResultTail
<1>2. QED BY <1>1, StartTail, ExecuteTail, RepairTail, PurgeTail DEF Next

-----------------------------------------------------------------------------
(* The theorems.                                                            *)

Inv == Orderly => RowsInv /\ PhaseInv /\ OneActive /\ TurnInv /\ TailInv

LEMMA InitInv == Init => Inv
<1> SUFFICES ASSUME Init, Orderly PROVE RowsInv /\ PhaseInv /\ OneActive /\ TurnInv /\ TailInv
  BY DEF Inv
<1>1. RowsInv
  <2>1. NoRound \in [n : Nat, kind : {"none", "plain", "reads", "compacts"}]
    BY DEF NoRound
  <2>2. QED BY <2>1 DEF Init, RowsInv
<1>2. PhaseInv
  BY DEF Init, PhaseInv, Orderly, Live
<1>3. OneActive
  BY DEF Init, OneActive, IsActive
<1>4. TurnInv
  BY DEF Init, TurnInv, Gone, Whole, Current, IsActive, Writing, Saving, HasPrompt
<1>5. TailInv
  BY DEF Init, TailInv, ResultTail
<1>6. QED BY <1>1, <1>2, <1>3, <1>4, <1>5

LEMMA NextInv == Inv /\ [Next]_vars => Inv'
<1> SUFFICES ASSUME Inv, [Next]_vars, Orderly' PROVE (RowsInv /\ PhaseInv /\ OneActive /\ TurnInv /\ TailInv)'
  BY DEF Inv
<1>1. Orderly
  BY EnvStays DEF Orderly
<1>2. RowsInv /\ PhaseInv /\ OneActive /\ TurnInv /\ TailInv
  BY <1>1 DEF Inv
<1>3. QED BY <1>2, RowsStep, PhaseStep, OneActiveStep, TurnStep, TailStep

THEOREM Invariance == Spec => []Inv
  BY InitInv, NextInv, PTL DEF Spec

(* Whatever processes die, save, are cancelled or swept, and whatever is    *)
(* purged, the rows of a turn stay together behind their prompt, but for    *)
(* repairs and the prompts of runs cancelled before they ran.               *)
THEOREM TurnsStayWhole == Spec => []TurnsWhole
<1>1. ASSUME Inv, Orderly PROVE TurnsWhole
  <2>1. Whole(rows, Gone)
    BY <1>1 DEF Inv, TurnInv
  <2>2. \A k \in DOMAIN rows : rows[k].run \in Gone => Stray(rows[k])
    BY RunsAssumption DEF Gone, Stray
  <2> SUFFICES ASSUME NEW i \in DOMAIN rows, NEW j \in DOMAIN rows,
                      i <= j, rows[i].run = rows[j].run, rows[i].run # NoRun
               PROVE  /\ \A k \in i..j : rows[k].run \in {rows[i].run, NoRun} \/ Stray(rows[k])
                      /\ \/ \E k \in 1..i : IsPromptOf(rows[i].run, rows[k])
                         \/ /\ Stray(rows[1])
                            /\ \A k \in 1..i : rows[k].run \in {rows[i].run, NoRun} \/ Stray(rows[k])
    BY DEF TurnsWhole
  <2>3. /\ \A k \in i..j : rows[k].run \in {rows[i].run, NoRun} \cup Gone
        /\ \/ \E k \in 1..i : IsPromptOf(rows[i].run, rows[k])
           \/ rows[1].run \in Gone /\ \A k \in 1..i : rows[k].run \in {rows[i].run, NoRun} \cup Gone
    BY <2>1 DEF Whole
  <2>4. DOMAIN rows = 1..Len(rows) /\ Len(rows) \in Nat
    <3>1. rows \in Seq(Written)
      BY <1>1 DEF Inv, RowsInv
    <3> HIDE DEF Written
    <3>2. QED BY <3>1
  <2>5. /\ \A k \in i..j : k \in DOMAIN rows
        /\ \A k \in 1..i : k \in DOMAIN rows
        /\ 1 \in DOMAIN rows
    BY <2>4
  <2>6. QED BY <2>2, <2>3, <2>5
<1>2. Inv => TurnsWhole
  BY <1>1 DEF TurnsWhole
<1>3. QED BY <1>2, Invariance, PTL

(* Once nobody is at work, no conversation ends in a tool result.           *)
THEOREM TailIsRepaired == Spec => []TailRepaired
<1>1. Inv => TailRepaired
  BY DEF Inv, TailInv, TailRepaired, PhaseInv
<1>2. QED BY <1>1, Invariance, PTL

-----------------------------------------------------------------------------
(* Every row written is one a history may have. Its ids are the runs, the rounds and the file.   *)

BlockId ==
  {<<>>} \cup {<<x>> : x \in Runs \cup {NoRun}} \cup {<<f>> : f \in DOMAIN FileSize \cup {File}}
         \cup {<<p[1], p[2]>> : p \in Runs \X Nat}

BlockSet   == Blocks(BlockId)
HistoryRow == Messages(BlockId) \cup [role : {"user", "assistant"}, blocks : Seq(BlockSet), run : Runs \cup {NoRun}]

Stored == {m \in HistoryRow : IsRow(BlockId, m) /\ ~Has(m, "srvResult")}

LEMMA RowFields ==
  ASSUME NEW role, NEW blocks, NEW run
  PROVE  Row(role, blocks, run).role = role /\ Row(role, blocks, run).blocks = blocks /\ Row(role, blocks, run).run = run
  BY DEF Row

LEMMA RowStored ==
  ASSUME NEW role \in {"user", "assistant"}, NEW blocks \in Seq(BlockSet), NEW run \in Runs \cup {NoRun},
         blocks # <<>>, NEW types, {b.type : b \in ToSet(blocks)} = types,
         role = "assistant" => types \cap {"result", "readRef", "uploadRef"} = {},
         role = "user" => "use" \notin types,
         "result" \in types => types = {"result"}, "srvResult" \notin types
  PROVE  Row(role, blocks, run) \in Stored
<1>1. PICK m : m = Row(role, blocks, run)
  OBVIOUS
<1>2. m.role = role /\ m.blocks = blocks /\ m \in HistoryRow
  BY <1>1 DEF Row, HistoryRow
<1>3. \A b \in ToSet(blocks) : b.type \in types /\ b \in BlockSet
  BY InToSet
<1>4. \A b \in ToSet(blocks) : b.type \in BlockType /\ b.type # "srvResult"
  BY <1>3 DEF BlockSet, Blocks
<1>5. Shape(m)
  <2>1. role = "assistant" => ResultsOf(m) = {} /\ NoRefs(m)
    BY <1>2, <1>3 DEF ResultsOf, Ids, NoRefs, IsRef
  <2>2. role = "user" => UsesOf(m) = {}
    BY <1>2, <1>3 DEF UsesOf, Ids
  <2>3. ResultsOf(m) # {} => Only(m, "result")
    BY <1>2, <1>3 DEF ResultsOf, Ids, Only
  <2>4. QED BY <1>2, <2>1, <2>2, <2>3 DEF Shape
<1>6. \E b \in ToSet(m.blocks) : b.type # "srvResult"
  <2>1. ToSet(m.blocks) # {}
    BY <1>2, EmptyToSet
  <2>2. QED BY <1>2, <1>3, <1>4, <2>1 DEF BlockType
<1>7. m.role \in {"user", "assistant"} /\ m.blocks \in Seq(Blocks(BlockId)) /\ ~Has(m, "srvResult")
  BY <1>2, <1>3, <1>4 DEF BlockSet, Has
<1>8. QED BY <1>1, <1>2, <1>5, <1>6, <1>7 DEF Stored, IsRow

LEMMA BlockFrom ==
  ASSUME NEW type \in BlockType, NEW id \in BlockId
  PROVE  Block(type, id) \in BlockSet /\ Block(type, id).type = type /\ Block(type, id).id = id
  BY DEF Block, BlockSet, Blocks

LEMMA OneBlockStored ==
  ASSUME NEW role \in {"user", "assistant"}, NEW type \in BlockType, NEW id \in BlockId, NEW run \in Runs \cup {NoRun},
         role = "assistant" => type \notin {"result", "readRef", "uploadRef"}, role = "user" => type # "use",
         type # "srvResult"
  PROVE  /\ Row(role, <<Block(type, id)>>, run) \in Stored
         /\ role = "user" /\ type # "result" => Loose(Row(role, <<Block(type, id)>>, run))
<1>1. PICK b : b = Block(type, id) /\ b \in BlockSet /\ b.type = type
  BY BlockFrom
<1>2. <<b>> \in Seq(BlockSet) /\ <<b>> # <<>> /\ ToSet(<<b>>) = {b}
  BY <1>1, SingleBlock
<1>3. {c.type : c \in ToSet(<<b>>)} = {type}
  BY <1>1, <1>2
<1>4. Row(role, <<b>>, run) \in Stored
  BY <1>2, <1>3, RowStored
<1>5. role = "user" /\ type # "result" => Loose(Row(role, <<b>>, run))
  BY <1>1, <1>2, RowFields DEF Loose, ResultsOf, Ids
<1>6. QED BY <1>1, <1>4, <1>5

LEMMA BlockIds ==
  /\ <<>> \in BlockId /\ <<File>> \in BlockId
  /\ \A r \in Runs \cup {NoRun} : <<r>> \in BlockId
  /\ \A r \in Runs, n \in Nat : <<r, n>> \in BlockId
<1>1. <<>> \in {<<>>}
  OBVIOUS
<1>2. <<File>> \in {<<f>> : f \in DOMAIN FileSize \cup {File}}
  OBVIOUS
<1>3. ASSUME NEW r \in Runs, NEW n \in Nat PROVE <<r, n>> \in {<<p[1], p[2]>> : p \in Runs \X Nat}
  <2>1. <<r, n>> \in Runs \X Nat /\ <<r, n>>[1] = r /\ <<r, n>>[2] = n
    OBVIOUS
  <2>2. QED BY <2>1
<1>4. \A r \in Runs \cup {NoRun} : <<r>> \in {<<x>> : x \in Runs \cup {NoRun}}
  OBVIOUS
<1>5. QED BY <1>1, <1>2, <1>3, <1>4, Zenon DEF BlockId

LEMMA TwoBlocks ==
  ASSUME NEW a \in BlockSet, NEW b \in BlockSet
  PROVE  <<a>> \o <<b>> \in Seq(BlockSet) /\ <<a>> \o <<b>> # <<>> /\ ToSet(<<a>> \o <<b>>) = {a, b}
<1>1. <<a>> \in Seq(BlockSet) /\ <<b>> \in Seq(BlockSet)
  OBVIOUS
<1>2. ToSet(<<a>> \o <<b>>) = ToSet(<<a>>) \cup ToSet(<<b>>)
  BY <1>1, ToSetConcat
<1>3. Len(<<a>> \o <<b>>) = 2 /\ <<a>> \o <<b>> \in Seq(BlockSet)
  BY <1>1
<1>4. <<a>> \o <<b>> # <<>>
  <2>1. PICK s : s = <<a>> \o <<b>>
    OBVIOUS
  <2>2. Len(s) # 0
    BY <1>3, <2>1
  <2>3. QED BY <2>1, <2>2
<1>5. ToSet(<<a>>) \cup ToSet(<<b>>) = {a, b}
  <2>1. ToSet(<<a>>) = {a} /\ ToSet(<<b>>) = {b}
    BY ONLY SingleBlock
  <2>2. QED BY ONLY <2>1
<1>6. QED BY ONLY <1>2, <1>3, <1>4, <1>5

\* The blocks of a round's response.
LEMMA UseStored ==
  ASSUME NEW r \in Runs, NEW n \in Nat, NEW blocks,
         \/ blocks = <<Block("use", <<r, n>>)>>
         \/ blocks = <<Block("compaction", <<>>)>> \o <<Block("use", <<r, n>>)>>
  PROVE  /\ blocks \in Seq(BlockSet) /\ Row("assistant", blocks, r) \in Stored
         /\ UsesOf(Row("assistant", blocks, r)) = {<<r, n>>}
<1>1. PICK c, u : c = Block("compaction", <<>>) /\ u = Block("use", <<r, n>>)
  OBVIOUS
<1>2. c \in BlockSet /\ c.type = "compaction" /\ u \in BlockSet /\ u.type = "use" /\ u.id = <<r, n>>
  BY <1>1, BlockIds, BlockFrom DEF BlockType
<1>3. blocks \in Seq(BlockSet) /\ blocks # <<>> /\ ToSet(blocks) \in {{u}, {c, u}}
  <2>1. <<u>> \in Seq(BlockSet) /\ <<u>> # <<>> /\ ToSet(<<u>>) = {u}
    BY <1>2, SingleBlock
  <2>2. <<c>> \o <<u>> \in Seq(BlockSet) /\ <<c>> \o <<u>> # <<>> /\ ToSet(<<c>> \o <<u>>) = {c, u}
    BY <1>2, TwoBlocks
  <2>3. blocks = <<u>> \/ blocks = <<c>> \o <<u>>
    BY <1>1
  <2>4. QED BY <2>1, <2>2, <2>3
<1>4. {b.type : b \in ToSet(blocks)} \in {{"use"}, {"compaction", "use"}}
  BY <1>2, <1>3
<1>5. Row("assistant", blocks, r) \in Stored
  BY <1>3, <1>4, RowStored
<1>6. UsesOf(Row("assistant", blocks, r)) = {<<r, n>>}
  BY <1>2, <1>3, RowFields DEF UsesOf, Ids
<1>7. QED BY <1>3, <1>5, <1>6

LEMMA WrittenStored == Written \subseteq Stored
<1> SUFFICES ASSUME NEW row \in Written PROVE row \in Stored
  OBVIOUS
<1>1. ASSUME NEW r \in Runs PROVE PromptRow(r) \in Stored /\ Row("user", <<ReadRef(File)>>, r) \in Stored
  BY BlockIds, OneBlockStored DEF PromptRow, ReadRef, BlockType
<1>2. ASSUME NEW r \in Runs, NEW n \in Nat PROVE ResultRow(r, n) \in Stored
  BY BlockIds, OneBlockStored DEF ResultRow, BlockType
<1>3. ASSUME NEW r \in Runs \cup {NoRun} PROVE Row("assistant", Terminator, r) \in Stored
  BY BlockIds, OneBlockStored DEF Terminator, BlockType
<1>4. ASSUME NEW r \in Runs, NEW b \in OtherBlocks(r) PROVE Row("assistant", b, r) \in Stored
  <2>1. CASE b \in {<<Block("text", <<r>>)>>, <<Block("note", <<>>)>>, Terminator, <<Filler>>}
    BY <1>3, <2>1, BlockIds, OneBlockStored DEF BlockType, Filler
  <2>2. CASE b \in {<<Block("use", <<r, n>>)>> : n \in Nat}
                     \cup {<<Block("compaction", <<>>)>> \o <<Block("use", <<r, n>>)>> : n \in Nat}
    BY <2>2, UseStored
  <2>3. QED BY <2>1, <2>2 DEF OtherBlocks
<1>5. QED BY <1>1, <1>2, <1>3, <1>4, WrittenForm

LEMMA StoredAreRows == StoredRows(BlockId, Stored)
<1>1. PICK f : f = Msg("user", <<Filler>>)
  OBVIOUS
<1>2. f \in Clean(BlockId) /\ f.blocks = <<Filler>>
  BY <1>1, FillerMessage, MsgIs DEF Msg
<1>3. ToSet(f.blocks) = {Filler} /\ Filler.type = "filler"
  BY <1>2, SingleBlock, FillerBlock
<1>4. f \in Stored
  BY <1>2, <1>3 DEF Clean, Messages, Stored, HistoryRow, IsRow, Has
<1>5. QED BY <1>1, <1>4 DEF StoredRows, Stored

LEMMA StoredHistoryGood ==
  ASSUME NEW rs \in Seq(Stored), Framed(rs), NEW loadable PROVE Good(BlockId, History(rs, loadable, FALSE))
<1>1. PICK S, seed : S = Stored /\ seed = FALSE
  OBVIOUS
<1>2. StoredRows(BlockId, S) /\ rs \in Seq(S) /\ seed \in BOOLEAN
  BY <1>1, StoredAreRows
<1>3. Good(BlockId, History(rs, loadable, seed))
  BY ONLY <1>2, Framed(rs), HistoryGood
<1>4. QED BY <1>1, <1>3

-----------------------------------------------------------------------------
(* In every environment: starts fail, tasks are left behind, live runs are  *)
(* swept.                                                                   *)

Control ==
  /\ status \in [Runs -> {"none", "queued", "running", "cancelled", "ended"}]
  /\ launch \in [Runs -> {"none", "persist", "dispatch", "failQueued", "delete", "over"}]
  /\ task \in [Runs -> BOOLEAN] /\ toolTail \in [Runs -> BOOLEAN] /\ lost \in BOOLEAN
  /\ pc \in [Runs -> {"none", "finish", "over"} \cup Live]
  /\ sweeper \in [Runs -> {"none", "read", "save", "over"}]
  /\ \A r \in Runs :
       /\ toolTail[r] => pc[r] \notin {"none", "load", "over"}
       /\ launch[r] = "none" => status[r] = "none" /\ pc[r] = "none"
       /\ sweeper[r] # "none" => status[r] = "ended"

LEMMA StartControl == ASSUME Control, NEW r \in Runs, Start(r) PROVE Control'
<1>1. CASE CreateQueued(r)
  BY <1>1 DEF CreateQueued, Launch, Control, execVars, Live
<1>2. CASE PersistUserMessage(r)
  BY <1>2 DEF PersistUserMessage, Launch, Control, execVars, Live
<1>3. CASE Dispatch(r)
  <2>1. \E b \in BOOLEAN : task' = [task EXCEPT ![r] = b]
    BY <1>3 DEF Dispatch
  <2>2. launch[r] = "dispatch" /\ \E s \in {"over", "failQueued"} : launch' = [launch EXCEPT ![r] = s]
    BY <1>3 DEF Dispatch, Launch
  <2>3. QED BY <1>3, <2>1, <2>2 DEF Dispatch, Control, execVars, Live
<1>4. CASE FailQueued(r)
  BY <1>4 DEF FailQueued, Launch, Control, execVars, Live
<1>5. CASE DeleteMessage(r)
  <2>1. lost' \in BOOLEAN
    BY <1>5 DEF DeleteMessage
  <2>2. QED BY <1>5, <2>1 DEF DeleteMessage, Launch, Control, execVars, Live
<1>6. CASE CancelQueued(r) \/ LauncherDies(r)
  BY <1>6 DEF CancelQueued, LauncherDies, Control, execVars, Live
<1>7. QED BY <1>1, <1>2, <1>3, <1>4, <1>5, <1>6 DEF Start

LEMMA ExecuteControl == ASSUME Control, NEW r \in Runs, Execute(r) PROVE Control'
<1>1. CASE Claim(r)
  BY <1>1 DEF Claim, Go, Control, Live
<1>2. CASE LoadHistory(r) \/ ModelFails(r) \/ CallTools(r)
  <2>1. pc[r] \in Live /\ \E p \in Live \ {"load"} : pc' = [pc EXCEPT ![r] = p]
    BY <1>2 DEF LoadHistory, ModelFails, CallTools, Go, Live
  <2>2. UNCHANGED <<status, launch, task, toolTail, sweeper, lost>>
    BY <1>2 DEF LoadHistory, ModelFails, CallTools
  <2>3. QED BY <2>1, <2>2 DEF Control, Live
<1>3. CASE Stop(r) \/ Answer(r) \/ SaveUse(r) \/ SaveRef(r) \/ SaveMarker(r) \/ SaveResult(r) \/ RoundFails(r)
  <2>1. pc[r] \in Live /\ \E p \in Live \ {"load"} : pc' = [pc EXCEPT ![r] = p]
    BY <1>3 DEF Stop, Answer, SaveUse, SaveRef, SaveMarker, SaveResult, RoundFails, Saving, Go, Live
  <2>2. toolTail' = toolTail \/ \E b \in BOOLEAN : toolTail' = [toolTail EXCEPT ![r] = b]
    BY <1>3 DEF Stop, Answer, SaveUse, SaveRef, SaveMarker, SaveResult, RoundFails
  <2>3. UNCHANGED <<status, launch, task, sweeper, lost>>
    BY <1>3 DEF Stop, Answer, SaveUse, SaveRef, SaveMarker, SaveResult, RoundFails
  <2>4. QED BY <2>1, <2>2, <2>3 DEF Control, Live
<1>4. CASE LeaseLost(r) \/ ExecutorDies(r)
  <2>1. pc' = [pc EXCEPT ![r] = "over"] /\ toolTail' = [toolTail EXCEPT ![r] = FALSE] /\ pc[r] # "none"
    BY <1>4 DEF LeaseLost, ExecutorDies, Leave, Live
  <2>2. UNCHANGED <<status, launch, task, sweeper, lost>>
    BY <1>4 DEF LeaseLost, ExecutorDies
  <2>3. QED BY <2>1, <2>2 DEF Control, Live
<1>5. CASE Terminate(r)
  BY <1>5 DEF Terminate, Go, Control, Live
<1>6. CASE Finish(r)
  <2>1. pc' = [pc EXCEPT ![r] = "over"] /\ toolTail' = [toolTail EXCEPT ![r] = FALSE]
    BY <1>6 DEF Finish, Leave
  <2>2. UNCHANGED <<launch, task, sweeper, lost>> /\ status' = [status EXCEPT ![r] = "ended"] /\ pc[r] = "finish"
    BY <1>6 DEF Finish
  <2>3. launch'[r] = "none" => FALSE
    BY <2>2 DEF Control
  <2>4. QED BY <2>1, <2>2, <2>3 DEF Control, Live
<1>7. QED BY <1>1, <1>2, <1>3, <1>4, <1>5, <1>6 DEF Execute

LEMMA RepairControl == ASSUME Control, NEW r \in Runs, Repair(r) PROVE Control'
<1>0. UNCHANGED <<launch, task, pc, toolTail>>
  BY DEF Repair, Sweep, SweepReadsTail, SweepSaves, SweepDies, execVars
<1>1. CASE Sweep(r)
  BY <1>0, <1>1 DEF Sweep, Control, Live
<1>2. CASE SweepReadsTail(r)
  BY <1>0, <1>2 DEF SweepReadsTail, Control, Live
<1>3. CASE SweepSaves(r)
  <2>1. lost' \in BOOLEAN
    BY <1>3 DEF SweepSaves
  <2>2. QED BY <1>0, <1>3, <2>1 DEF SweepSaves, Control, Live
<1>4. CASE SweepDies(r)
  BY <1>0, <1>4 DEF SweepDies, Control, Live
<1>5. QED BY <1>1, <1>2, <1>3, <1>4 DEF Repair

LEMMA ControlStep == ASSUME Control, [Next]_vars PROVE Control'
<1>1. CASE Purge \/ UNCHANGED vars
  BY <1>1 DEF Purge, vars, execVars, Control
<1>2. QED BY <1>1, StartControl, ExecuteControl, RepairControl DEF Next

LEMMA LostStays == ASSUME [Next]_vars, lost PROVE lost'
<1>1. ASSUME NEW r \in Runs, Start(r) PROVE lost'
  BY <1>1 DEF Start, CreateQueued, PersistUserMessage, Dispatch, FailQueued, DeleteMessage, CancelQueued, LauncherDies
<1>2. ASSUME NEW r \in Runs, Execute(r) PROVE lost'
  BY <1>2 DEF Execute, Claim, LoadHistory, Stop, LeaseLost, ModelFails, Answer, CallTools, SaveUse, SaveResult, SaveMarker,
         SaveRef, RoundFails, Terminate, Finish, ExecutorDies
<1>3. ASSUME NEW r \in Runs, Repair(r) PROVE lost'
  BY <1>3 DEF Repair, Sweep, SweepReadsTail, SweepSaves, SweepDies
<1>4. CASE Purge \/ UNCHANGED vars
  BY <1>4 DEF Purge, vars
<1>5. QED BY <1>1, <1>2, <1>3, <1>4 DEF Next

-----------------------------------------------------------------------------
(* What a run has in memory.                                                *)

LEMMA MsgClean ==
  ASSUME NEW role \in {"user", "assistant"}, NEW blocks \in Seq(BlockSet), NEW run,
         Row(role, blocks, run) \in Stored, NoRefs(Row(role, blocks, run))
  PROVE  /\ Msg(role, blocks) \in Clean(BlockId) /\ Msg(role, blocks).role = role
         /\ UsesOf(Msg(role, blocks)) = UsesOf(Row(role, blocks, run))
         /\ ResultsOf(Msg(role, blocks)) = ResultsOf(Row(role, blocks, run))
<1>1. PICK m, row : m = Msg(role, blocks) /\ row = Row(role, blocks, run)
  OBVIOUS
<1>2. m \in Messages(BlockId) /\ m.role = role /\ m.blocks = blocks /\ row.role = role /\ row.blocks = blocks
  BY <1>1, RowFields DEF Msg, Messages, BlockSet
<1>3. Shape(row) /\ NoRefs(row)
  BY <1>1 DEF Stored, IsRow
<1>4. Shape(m) /\ NoRefs(m) /\ UsesOf(m) = UsesOf(row) /\ ResultsOf(m) = ResultsOf(row)
  BY <1>2, <1>3 DEF Shape, NoRefs, UsesOf, ResultsOf, Ids, Only, Has
<1>5. Served(m.blocks)
  <2>1. \A b \in ToSet(blocks) : b.type # "srvResult"
    BY <1>1, <1>2 DEF Stored, Has
  <2>2. QED BY <1>2, <2>1, ServedWithout
<1>6. QED BY <1>1, <1>2, <1>4, <1>5 DEF Clean

\* A round's two messages, and the two that show a file.
LEMMA RoundMessages ==
  ASSUME RowsInv, NEW r \in Runs
  PROVE  LET a == Msg("assistant", Response(r))
             u == Msg("user", Results(r)) IN
         a \in Clean(BlockId) /\ a.role = "assistant" /\ u \in Clean(BlockId) /\ u.role = "user" /\ UsesOf(a) = ResultsOf(u)
<1>1. PICK n : n = round[r].n /\ n \in Nat
  BY DEF RowsInv
<1>2. PICK row, b : b = Response(r) /\ row = Row("assistant", b, r)
  OBVIOUS
<1>3. b \in Seq(BlockSet) /\ row \in Stored /\ UsesOf(row) = {<<r, n>>}
  <2>1. b = <<Block("use", <<r, n>>)>> \/ b = <<Block("compaction", <<>>)>> \o <<Block("use", <<r, n>>)>>
    <3>1. CASE round[r].kind = "compacts"
      BY <1>1, <1>2, <3>1 DEF Response
    <3>2. CASE round[r].kind # "compacts"
      <4>1. b = <<>> \o <<Block("use", <<r, n>>)>>
        BY <1>1, <1>2, <3>2 DEF Response
      <4>2. <<Block("use", <<r, n>>)>> \in Seq({Block("use", <<r, n>>)})
        OBVIOUS
      <4>3. QED BY <4>1, <4>2
    <3>3. QED BY <3>1, <3>2
  <2>2. QED BY <1>1, <1>2, <2>1, UseStored
<1>4. NoRefs(row)
  BY <1>2, <1>3, RowFields DEF Stored, IsRow, Shape
<1>5. PICK a : a = Msg("assistant", b)
  OBVIOUS
<1>6. a \in Clean(BlockId) /\ a.role = "assistant" /\ UsesOf(a) = {<<r, n>>}
  BY <1>2, <1>3, <1>4, <1>5, MsgClean
<1>7. PICK c, u, s : c = Block("result", <<r, n>>) /\ s = <<c>> /\ u = Msg("user", s)
  OBVIOUS
<1>8. c \in BlockSet /\ c.type = "result" /\ c.id = <<r, n>>
  BY <1>1, <1>7, BlockIds, BlockFrom DEF BlockType
<1>9. s \in Seq(BlockSet) /\ ToSet(s) = {c}
  BY <1>7, <1>8, SingleBlock
<1>10. Row("user", s, r) \in Stored
  BY <1>1, <1>7, BlockIds, OneBlockStored DEF BlockType
<1>11. NoRefs(Row("user", s, r)) /\ ResultsOf(Row("user", s, r)) = {<<r, n>>}
  <2>1. Row("user", s, r).blocks = s
    BY RowFields
  <2>2. ToSet(Row("user", s, r).blocks) = {c}
    BY <1>9, <2>1
  <2>3. NoRefs(Row("user", s, r))
    BY <1>8, <2>2 DEF NoRefs, IsRef
  <2>4. ResultsOf(Row("user", s, r)) = {c.id}
    BY <1>8, <2>2 DEF ResultsOf, Ids
  <2>5. QED BY <1>8, <2>3, <2>4
<1>12. u \in Clean(BlockId) /\ u.role = "user" /\ ResultsOf(u) = {<<r, n>>}
  BY <1>7, <1>9, <1>10, <1>11, MsgClean
<1>13. Results(r) = s
  BY <1>1, <1>7 DEF Results
<1>14. QED BY <1>2, <1>5, <1>6, <1>7, <1>12, <1>13

LEMMA FileMessage ==
  LET u == Msg("user", <<Block("file", <<File>>)>>) IN u \in Clean(BlockId) /\ u.role = "user" /\ ResultsOf(u) = {}
<1>1. PICK c, s, u : c = Block("file", <<File>>) /\ s = <<c>> /\ u = Msg("user", s)
  OBVIOUS
<1>2. c \in BlockSet /\ c.type = "file"
  BY <1>1, BlockIds, BlockFrom DEF BlockType
<1>3. s \in Seq(BlockSet) /\ ToSet(s) = {c}
  BY <1>1, <1>2, SingleBlock
<1>4. Row("user", s, NoRun) \in Stored
  BY <1>1, BlockIds, OneBlockStored DEF BlockType
<1>5. NoRefs(Row("user", s, NoRun)) /\ ResultsOf(Row("user", s, NoRun)) = {}
  BY <1>2, <1>3, RowFields DEF NoRefs, IsRef, ResultsOf, Ids
<1>6. QED BY <1>1, <1>3, <1>4, <1>5, MsgClean

LEMMA AppendTwo ==
  ASSUME NEW S, NEW s \in Seq(S), NEW a \in S, NEW b \in S
  PROVE  s \o <<a, b>> = Append(Append(s, a), b) /\ s \o <<a, b>> \in Seq(S) /\ (s \o <<a, b>>) \o <<>> = s \o <<a, b>>
  OBVIOUS

LEMMA ExtendedGood == ASSUME RowsInv, NEW r \in Runs, Good(BlockId, mem[r]) PROVE Good(BlockId, Extended(r))
<1>1. PICK a, u, f, g : /\ a = Msg("assistant", Response(r)) /\ u = Msg("user", Results(r))
                        /\ f = Msg("assistant", <<Filler>>) /\ g = Msg("user", <<Block("file", <<File>>)>>)
  OBVIOUS
<1>2. a \in Clean(BlockId) /\ a.role = "assistant" /\ u \in Clean(BlockId) /\ u.role = "user" /\ UsesOf(a) = ResultsOf(u)
  BY <1>1, RoundMessages
<1>3. f \in Clean(BlockId) /\ f.role = "assistant" /\ UsesOf(f) = {} /\ g \in Clean(BlockId) /\ g.role = "user" /\ ResultsOf(g) = {}
  BY <1>1, FillerMessage, FileMessage
<1>4. mem[r] \in Seq(Clean(BlockId))
  BY DEF Good
<1>5. PICK s, t : s = mem[r] \o <<a, u>> /\ t = s \o <<f, g>>
  OBVIOUS
<1>6. Good(BlockId, s) /\ s \in Seq(Clean(BlockId)) /\ s \o <<>> = s
  <2>1. s = Append(Append(mem[r], a), u) /\ s \in Seq(Clean(BlockId)) /\ s \o <<>> = s
    BY <1>2, <1>4, <1>5, AppendTwo
  <2>2. QED BY <1>2, <2>1, GoodExtend
<1>7. Good(BlockId, t)
  <2>1. t = Append(Append(s, f), g)
    <3>1. s \in Seq(Clean(BlockId))
      BY <1>6
    <3>2. f \in Clean(BlockId) /\ g \in Clean(BlockId)
      BY <1>3
    <3>3. s \o <<f, g>> = Append(Append(s, f), g)
      BY ONLY <3>1, <3>2, AppendTwo
    <3>4. QED BY <1>5, <3>3
  <2>2. QED BY <1>3, <1>6, <2>1, GoodExtend
<1>8. Extended(r) = TrimToLastCompaction(IF round[r].kind = "reads" THEN t ELSE s)
  <2>1. Extended(r) = TrimToLastCompaction(s \o (IF round[r].kind = "reads" THEN <<f, g>> ELSE <<>>))
    BY <1>1, <1>5 DEF Extended
  <2>2. CASE round[r].kind = "reads"
    BY <1>5, <2>1, <2>2
  <2>3. CASE round[r].kind # "reads"
    BY <1>6, <2>1, <2>3
  <2>4. QED BY <2>2, <2>3
<1>9. QED BY <1>6, <1>7, <1>8, GoodTrim

LEMMA PromptLoose == ASSUME NEW r, NEW row \in Stored, IsPromptOf(r, row) PROVE Loose(row)
  BY DEF IsPromptOf, Stored, IsRow, Shape, Loose, Only, Has

\* The first rows of the table up to a prompt.
LEMMA LoadedGood ==
  ASSUME RowsInv, rows # <<>> => Loose(rows[1]), NEW r \in Runs, NEW i \in 1..Len(rows), IsPromptOf(r, rows[i]), NEW loadable
  PROVE  Good(BlockId, History(SubSeq(rows, 1, i), loadable, FALSE))
<1>1. rows \in Seq(Stored)
  BY WrittenStored DEF RowsInv
<1>2. PICK t : t = SubSeq(rows, 1, i)
  OBVIOUS
<1>3. t \in Seq(Stored) /\ Len(t) = i /\ i \in Nat /\ i # 0 /\ t[1] = rows[1] /\ t[i] = rows[i] /\ rows[i] \in Stored
  BY <1>1, <1>2
<1>4. t # <<>> /\ rows # <<>>
  BY <1>1, <1>3
<1>5. Loose(rows[i])
  BY <1>3, PromptLoose
<1>6. Framed(t)
  BY <1>3, <1>4, <1>5 DEF Framed
<1>7. QED BY <1>2, <1>3, <1>6, StoredHistoryGood

-----------------------------------------------------------------------------
(* What makes a history acceptable.                                         *)

FirstInv  == rows # <<>> => Loose(rows[1])
PromptInv == \A r \in Runs : Writing(r) \/ toolTail[r] => HasPrompt(rows, r)
MemInv    == \A r \in Runs : Writing(r) => Good(BlockId, mem[r])

\* Before a run's row there is its prompt, before a sweep's row a result.
Rooted(s) ==
  \A i \in DOMAIN s :
    /\ s[i].run # NoRun => \E k \in 1..i : IsPromptOf(s[i].run, s[k])
    /\ s[i].run = NoRun => \E k \in 1..i : Has(s[k], "result")

HasResult(s) == \E k \in DOMAIN s : Has(s[k], "result")

RootInv ==
  /\ Rooted(rows)
  /\ \A r \in Runs : pc[r] = "none" => \A i \in DOMAIN rows : rows[i].run = r => IsPromptOf(r, rows[i])
  /\ \A r \in Runs : sweeper[r] = "save" => HasResult(rows)

Sound == FirstInv /\ PromptInv /\ MemInv /\ (~env.purges => RootInv)

LEMMA RootedAppend ==
  ASSUME NEW S, NEW s \in Seq(S), NEW row \in S, NEW t, t = Append(s, row), Rooted(s),
         row.run = NoRun => HasResult(s), row.run # NoRun => HasPrompt(s, row.run) \/ IsPromptOf(row.run, row)
  PROVE  Rooted(t)
<1>1. /\ DOMAIN t = 1..(Len(s) + 1) /\ DOMAIN s = 1..Len(s) /\ Len(s) \in Nat
      /\ t[Len(s) + 1] = row /\ \A i \in 1..Len(s) : t[i] = s[i]
  BY AppendRows
<1>2. PICK n : n = Len(s) /\ n \in Nat /\ DOMAIN t = 1..(n + 1) /\ DOMAIN s = 1..n /\ t[n + 1] = row
               /\ \A i \in 1..n : t[i] = s[i]
  BY <1>1
<1> SUFFICES ASSUME NEW i \in 1..(n + 1)
             PROVE  /\ t[i].run # NoRun => \E k \in 1..i : IsPromptOf(t[i].run, t[k])
                    /\ t[i].run = NoRun => \E k \in 1..i : Has(t[k], "result")
  BY <1>2 DEF Rooted
<1>3. CASE i \in 1..n
  <2>1. t[i] = s[i] /\ \A k \in 1..i : t[k] = s[k]
    BY <1>2, <1>3
  <2>2. /\ s[i].run # NoRun => \E k \in 1..i : IsPromptOf(s[i].run, s[k])
        /\ s[i].run = NoRun => \E k \in 1..i : Has(s[k], "result")
    BY <1>2, <1>3 DEF Rooted
  <2>3. QED BY <2>1, <2>2
<1>4. CASE i = n + 1
  <2>1. t[i] = row /\ i \in 1..i /\ \A k \in 1..n : k \in 1..i /\ t[k] = s[k]
    BY <1>2, <1>4
  <2>2. row.run = NoRun => \E k \in 1..n : Has(s[k], "result")
    BY <1>2 DEF HasResult
  <2>3. row.run # NoRun => (\E k \in 1..n : IsPromptOf(row.run, s[k])) \/ IsPromptOf(row.run, row)
    BY <1>2 DEF HasPrompt
  <2>4. QED BY <2>1, <2>2, <2>3
<1>5. i \in 1..n \/ i = n + 1
  BY <1>2
<1>6. QED BY <1>3, <1>4, <1>5

\* Where a row goes when the i-th of n is taken out.
LEMMA RemovedPlaces ==
  ASSUME NEW n \in Nat, NEW i \in 1..n
  PROVE  /\ \A j \in 1..(n - 1) : j < i => j # i /\ j \in 1..n
         /\ \A j \in 1..(n - 1) : ~(j < i) => j + 1 # i /\ j + 1 \in 1..n
         /\ \A k \in 1..n : k < i => k \in 1..(n - 1)
         /\ \A k \in 1..n : ~(k < i) /\ k # i => k - 1 \in 1..(n - 1) /\ ~(k - 1 < i) /\ (k - 1) + 1 = k
  OBVIOUS

\* t is s without its i-th row.
Without(t, s, i) ==
  /\ \A k \in DOMAIN s : k # i => \E j \in DOMAIN t : t[j] = s[k]
  /\ \A j \in DOMAIN t : \E k \in DOMAIN s :
       /\ t[j] = s[k] /\ k # i
       /\ \A m \in 1..k : m # i => \E l \in 1..j : t[l] = s[m]

LEMMA KeptRows ==
  ASSUME NEW S, NEW s \in Seq(S), NEW i \in 1..Len(s), NEW t, t = RemoveAt(s, i)
  PROVE  Without(t, s, i)
<1>1. PICK n : n = Len(s) /\ n \in Nat /\ i \in 1..n
  OBVIOUS
<1>2. /\ DOMAIN t = 1..(n - 1) /\ DOMAIN s = 1..n
      /\ \A k \in 1..(n - 1) : k < i => t[k] = s[k]
      /\ \A k \in 1..(n - 1) : ~(k < i) => t[k] = s[k + 1]
  <2>1. Closes(t, s, i)
    BY RemovedRows
  <2>2. QED BY <1>1, <2>1 DEF Closes
<1>3. /\ \A j \in 1..(n - 1) : j < i => j # i /\ j \in 1..n
      /\ \A j \in 1..(n - 1) : ~(j < i) => j + 1 # i /\ j + 1 \in 1..n
      /\ \A k \in 1..n : k < i => k \in 1..(n - 1)
      /\ \A k \in 1..n : ~(k < i) /\ k # i => k - 1 \in 1..(n - 1) /\ ~(k - 1 < i) /\ (k - 1) + 1 = k
  BY <1>1, RemovedPlaces
<1>4. ASSUME NEW k \in 1..n, k # i
      PROVE  \/ k \in 1..(n - 1) /\ k < i /\ t[k] = s[k]
             \/ k - 1 \in 1..(n - 1) /\ ~(k < i) /\ t[k - 1] = s[k]
  BY <1>2, <1>3, <1>4
<1>5. ASSUME NEW j \in 1..(n - 1)
      PROVE  \E k \in 1..n : /\ t[j] = s[k] /\ k # i
                             /\ \A m \in 1..k : m # i => \E l \in 1..j : t[l] = s[m]
  <2>1. CASE j < i
    <3>1. t[j] = s[j] /\ j # i /\ j \in 1..n
      BY <1>2, <1>3, <2>1
    <3>2. \A m \in 1..j : m \in 1..(n - 1) /\ m < i
      BY <1>1, <2>1
    <3>3. \A m \in 1..j : t[m] = s[m]
      BY <1>2, <3>2
    <3>4. QED BY <3>1, <3>3
  <2>2. CASE ~(j < i)
    <3>1. t[j] = s[j + 1] /\ j + 1 # i /\ j + 1 \in 1..n
      BY <1>2, <1>3, <2>2
    <3>2. ASSUME NEW m \in 1..(j + 1), m # i PROVE \E l \in 1..j : t[l] = s[m]
      <4>1. m \in 1..n
        BY <1>1
      <4>2. \/ m \in 1..(n - 1) /\ m < i /\ t[m] = s[m]
            \/ m - 1 \in 1..(n - 1) /\ ~(m < i) /\ t[m - 1] = s[m]
        BY <1>4, <3>2, <4>1
      <4>3. m < i => m \in 1..j
        BY <1>1, <2>2
      <4>4. m - 1 \in 1..(n - 1) => m - 1 \in 1..j
        BY <1>1
      <4>5. QED BY <4>2, <4>3, <4>4
    <3>3. QED BY <3>1, <3>2
  <2>3. QED BY <2>1, <2>2
<1>6. \A k \in DOMAIN s : k # i => \E j \in DOMAIN t : t[j] = s[k]
  BY <1>2, <1>4
<1>7. \A j \in DOMAIN t : \E k \in DOMAIN s :
        /\ t[j] = s[k] /\ k # i
        /\ \A m \in 1..k : m # i => \E l \in 1..j : t[l] = s[m]
  BY <1>2, <1>5
<1>8. QED BY <1>6, <1>7 DEF Without

LEMMA RemovedPrompt ==
  ASSUME NEW s \in Seq(Written), NEW i \in 1..Len(s), NEW r \in Runs, IsPromptOf(r, s[i]), NEW t, t = RemoveAt(s, i)
  PROVE  /\ \A q \in Runs : q # r /\ HasPrompt(s, q) => HasPrompt(t, q)
         /\ HasResult(s) => HasResult(t)
         /\ \A q \in Runs : (\A k \in DOMAIN s : s[k].run = q => IsPromptOf(q, s[k]))
                              => \A k \in DOMAIN t : t[k].run = q => IsPromptOf(q, t[k])
         /\ Rooted(s) /\ (\A k \in DOMAIN s : s[k].run = r => IsPromptOf(r, s[k])) => Rooted(t)
<1>1. /\ \A k \in DOMAIN s : k # i => \E j \in DOMAIN t : t[j] = s[k]
      /\ \A j \in DOMAIN t : \E k \in DOMAIN s :
           /\ t[j] = s[k] /\ k # i
           /\ \A m \in 1..k : m # i => \E l \in 1..j : t[l] = s[m]
  <2>1. Without(t, s, i)
    <3> HIDE DEF Written
    <3>1. QED BY KeptRows
  <2>2. QED BY <2>1 DEF Without
<1>2. s[i].run = r /\ ~Has(s[i], "result") /\ \A q : IsPromptOf(q, s[i]) => q = r
  <2>1. s[i] \in Written
    OBVIOUS
  <2>2. QED BY <2>1, PromptKeeps DEF KeepsFrom, IsPromptOf
<1>3. \A q \in Runs : q # r /\ HasPrompt(s, q) => HasPrompt(t, q)
  BY <1>1, <1>2 DEF HasPrompt
<1>4. HasResult(s) => HasResult(t)
  BY <1>1, <1>2 DEF HasResult
<1>5. \A q \in Runs : (\A k \in DOMAIN s : s[k].run = q => IsPromptOf(q, s[k]))
                        => \A k \in DOMAIN t : t[k].run = q => IsPromptOf(q, t[k])
  BY <1>1
<1>6. ASSUME Rooted(s), \A k \in DOMAIN s : s[k].run = r => IsPromptOf(r, s[k]), NEW j \in DOMAIN t
      PROVE  /\ t[j].run # NoRun => \E l \in 1..j : IsPromptOf(t[j].run, t[l])
             /\ t[j].run = NoRun => \E l \in 1..j : Has(t[l], "result")
  <2>1. PICK k \in DOMAIN s : t[j] = s[k] /\ k # i /\ \A m \in 1..k : m # i => \E l \in 1..j : t[l] = s[m]
    BY <1>1
  <2>2. k \in 1..k
    OBVIOUS
  <2>3. CASE t[j].run = NoRun
    <3>1. PICK m \in 1..k : Has(s[m], "result")
      BY <1>6, <2>1, <2>3 DEF Rooted
    <3>2. QED BY <1>2, <2>1, <2>3, <3>1
  <2>4. CASE t[j].run # NoRun
    <3>1. PICK m \in 1..k : IsPromptOf(s[k].run, s[m])
      BY <1>6, <2>1, <2>4 DEF Rooted
    <3>2. CASE m = i
      <4>1. s[k].run = r
        BY <1>2, <3>1, <3>2
      <4>2. IsPromptOf(s[k].run, s[k])
        BY <1>6, <4>1
      <4>3. QED BY <2>1, <2>2, <2>4, <4>2
    <3>3. CASE m # i
      BY <2>1, <2>4, <3>1, <3>3
    <3>4. QED BY <3>2, <3>3
  <2>5. QED BY <2>3, <2>4
<1>7. QED BY <1>3, <1>4, <1>5, <1>6 DEF Rooted

\* Who appends has its prompt, and nobody gets to write without it.
LEMMA ExecuteWrites ==
  ASSUME Control, NEW r \in Runs, Execute(r)
  PROVE  /\ rows' # rows => Writing(r) \/ toolTail[r]
         /\ \A q \in Runs : (Writing(q) \/ toolTail[q])' => Writing(q) \/ toolTail[q] \/ (q = r /\ LoadHistory(r) /\ pc'[r] = "model")
<1>1. rows' # rows => Writing(r) \/ toolTail[r]
  <2>1. CASE Stop(r) \/ Answer(r) \/ SaveUse(r) \/ SaveResult(r) \/ SaveMarker(r) \/ SaveRef(r)
    BY <2>1 DEF Stop, Answer, SaveUse, SaveResult, SaveMarker, SaveRef, Go, Writing, Saving
  <2>2. CASE Terminate(r)
    BY <2>2 DEF Terminate
  <2>3. QED BY <2>1, <2>2 DEF Execute, Claim, LoadHistory, LeaseLost, ModelFails, CallTools, RoundFails, Finish, ExecutorDies
<1>2. \A q \in Runs : (Writing(q) \/ toolTail[q])' => Writing(q) \/ toolTail[q] \/ (q = r /\ LoadHistory(r) /\ pc'[r] = "model")
  <2>1. CASE LoadHistory(r)
    <3>1. pc[r] = "load" /\ (pc' = [pc EXCEPT ![r] = "model"] \/ pc' = [pc EXCEPT ![r] = "finally"]) /\ toolTail' = toolTail
      BY <2>1 DEF LoadHistory, Go
    <3>2. QED BY <2>1, <3>1 DEF Writing, Saving, Control
  <2>2. CASE Stop(r) \/ Answer(r) \/ SaveUse(r) \/ SaveResult(r) \/ SaveMarker(r) \/ SaveRef(r)
             \/ CallTools(r) \/ ModelFails(r) \/ RoundFails(r)
    <3>1. Writing(r)
      BY <2>2 DEF Stop, Answer, SaveUse, SaveResult, SaveMarker, SaveRef, CallTools, ModelFails, RoundFails, Go, Writing, Saving
    <3>2. \A q \in Runs : q # r => pc'[q] = pc[q] /\ toolTail'[q] = toolTail[q]
      BY <2>2 DEF Stop, Answer, SaveUse, SaveResult, SaveMarker, SaveRef, CallTools, ModelFails, RoundFails, Go, Control
    <3>3. QED BY <3>1, <3>2 DEF Writing
  <2>3. CASE Claim(r) \/ Terminate(r)
    <3>1. toolTail' = toolTail /\ \E p \in {"load", "finish"} : pc' = [pc EXCEPT ![r] = p]
      BY <2>3 DEF Claim, Terminate, Go
    <3>2. QED BY <3>1 DEF Writing, Saving, Control
  <2>4. CASE LeaseLost(r) \/ Finish(r) \/ ExecutorDies(r)
    <3>1. toolTail' = [toolTail EXCEPT ![r] = FALSE] /\ pc' = [pc EXCEPT ![r] = "over"]
      BY <2>4 DEF LeaseLost, Finish, ExecutorDies, Leave
    <3>2. QED BY <3>1 DEF Writing, Saving, Control
  <2>5. QED BY <2>1, <2>2, <2>3, <2>4 DEF Execute
<1>3. QED BY <1>1, <1>2

\* A run that has begun stays begun, and no other is touched.
LEMMA ExecuteMoves ==
  ASSUME Control, NEW r \in Runs, Execute(r)
  PROVE  pc'[r] # "none" /\ \A q \in Runs : q # r => pc'[q] = pc[q]
<1>1. \E p \in Live \cup {"finish", "over"} : pc' = [pc EXCEPT ![r] = p]
  BY DEF Execute, Claim, LoadHistory, Stop, LeaseLost, ModelFails, Answer, CallTools, SaveUse, SaveResult, SaveMarker,
         SaveRef, RoundFails, Terminate, Finish, ExecutorDies, Go, Leave, Live
<1>2. QED BY <1>1 DEF Control, Live

\* The turn that gets under way has found its prompt among the rows.
LEMMA LoadFinds ==
  ASSUME Control, DOMAIN mem = Runs, NEW r \in Runs, LoadHistory(r), pc'[r] = "model"
  PROVE  \E i \in 1..Len(rows) :
           IsPromptOf(r, rows[i]) /\ mem' = [mem EXCEPT ![r] = History(SubSeq(rows, 1, i), DOMAIN FileSize, FALSE)]
<1> DEFINE I == {i \in 1..Len(rows) : IsPromptOf(r, rows[i])}
<1>1. PICK i : i = SelectInSeq(rows, LAMBDA row : IsPromptOf(r, row))
  OBVIOUS
<1>2. i = IF I # {} THEN Min(I) ELSE 0
  BY <1>1 DEF SelectInSeq
<1>3. /\ i = 0 => Go(r, "load", "finally")
      /\ i # 0 => mem' = [mem EXCEPT ![r] = History(SubSeq(rows, 1, i), DOMAIN FileSize, FALSE)]
  BY <1>1 DEF LoadHistory
<1>4. i # 0
  BY <1>3 DEF Go, Control
<1>5. i \in I
  <2>1. I # {} /\ I \in SUBSET Nat
    BY <1>2, <1>4
  <2> HIDE DEF I
  <2>2. QED BY <1>2, <2>1, MinFacts
<1>6. QED BY <1>3, <1>4, <1>5

LEMMA ExecuteMem ==
  ASSUME RowsInv, Control, DOMAIN mem = Runs, FirstInv, MemInv, NEW r \in Runs, Execute(r)
  PROVE  MemInv' /\ DOMAIN mem' = Runs
<1>1. CASE LoadHistory(r)
  <2>1. pc[r] = "load" /\ (pc' = [pc EXCEPT ![r] = "model"] \/ pc' = [pc EXCEPT ![r] = "finally"]) /\ DOMAIN mem' = Runs
    BY <1>1 DEF LoadHistory, Go
  <2>2. CASE pc'[r] = "model"
    <3>1. PICK i \in 1..Len(rows) :
            IsPromptOf(r, rows[i]) /\ mem' = [mem EXCEPT ![r] = History(SubSeq(rows, 1, i), DOMAIN FileSize, FALSE)]
      BY <1>1, <2>2, LoadFinds
    <3>2. Good(BlockId, History(SubSeq(rows, 1, i), DOMAIN FileSize, FALSE))
      BY <3>1, LoadedGood DEF FirstInv
    <3>3. Good(BlockId, mem'[r]) /\ \A q \in Runs : q # r => mem'[q] = mem[q] /\ pc'[q] = pc[q]
      BY <2>1, <3>1, <3>2 DEF Control
    <3>4. QED BY <2>1, <3>3 DEF MemInv, Writing
  <2>3. CASE pc'[r] # "model"
    <3>1. pc' = [pc EXCEPT ![r] = "finally"] /\ mem' = mem
      <4>1. pc' = [pc EXCEPT ![r] = "finally"]
        BY <2>1, <2>3 DEF Control
      <4>2. pc' # [pc EXCEPT ![r] = "model"]
        BY <2>3 DEF Control
      <4>3. QED BY <1>1, <4>1, <4>2 DEF LoadHistory, Go
    <3>2. QED BY <2>1, <3>1 DEF MemInv, Writing, Saving, Control
  <2>4. QED BY <2>2, <2>3
<1>2. CASE NextCall(r) /\ Writing(r) /\ \E p \in Live : pc' = [pc EXCEPT ![r] = p]
  <2>1. mem' = [mem EXCEPT ![r] = Extended(r)] /\ Good(BlockId, Extended(r))
    BY <1>2, ExtendedGood DEF NextCall, MemInv
  <2>2. Good(BlockId, mem'[r]) /\ \A q \in Runs : q # r => mem'[q] = mem[q] /\ pc'[q] = pc[q]
    BY <1>2, <2>1 DEF Control
  <2>3. QED BY <2>1, <2>2 DEF MemInv, Writing
<1>3. CASE mem' = mem /\ (Writing(r)' => Writing(r)) /\ \E p \in Live \cup {"finish"} : pc' = [pc EXCEPT ![r] = p]
  BY <1>3 DEF MemInv, Writing, Control
<1>4. CASE LeaseLost(r) \/ Finish(r) \/ ExecutorDies(r)
  <2>1. mem' = [mem EXCEPT ![r] = <<>>] /\ pc' = [pc EXCEPT ![r] = "over"]
    BY <1>4 DEF LeaseLost, Finish, ExecutorDies, Leave
  <2>2. ~Writing(r)' /\ \A q \in Runs : q # r => mem'[q] = mem[q] /\ pc'[q] = pc[q]
    BY <2>1 DEF Writing, Saving, Control
  <2>3. QED BY <2>1, <2>2 DEF MemInv, Writing
<1>5. CASE Claim(r) \/ ModelFails(r) \/ Stop(r) \/ Answer(r) \/ Terminate(r) \/ RoundFails(r)
  <2>1. mem' = mem /\ \E p \in {"load", "finally", "finish"} : pc' = [pc EXCEPT ![r] = p]
    BY <1>5 DEF Claim, ModelFails, Stop, Answer, Terminate, RoundFails, Go
  <2>2. ~Writing(r)'
    BY <2>1 DEF Writing, Saving, Control
  <2>3. QED BY <1>3, <2>1, <2>2 DEF Live
<1>6. CASE CallTools(r) \/ SaveUse(r) \/ SaveMarker(r)
  <2>1. mem' = mem /\ \E p \in {"saveUse", "saveResult", "saveRef"} : pc' = [pc EXCEPT ![r] = p]
    BY <1>6 DEF CallTools, SaveUse, SaveMarker, Go
  <2>2. Writing(r)
    BY <1>6 DEF CallTools, SaveUse, SaveMarker, Go, Writing, Saving
  <2>3. QED BY <1>3, <2>1, <2>2 DEF Live
<1>7. CASE SaveRef(r)
  BY <1>2, <1>7 DEF SaveRef, Go, Writing, Saving, Live
<1>8. CASE SaveResult(r)
  <2>1. Writing(r)
    BY <1>8 DEF SaveResult, Go, Writing, Saving
  <2>2. \/ mem' = mem /\ pc' = [pc EXCEPT ![r] = "saveMarker"]
        \/ NextCall(r) /\ pc' = [pc EXCEPT ![r] = "model"]
    BY <1>8 DEF SaveResult, Go
  <2>3. QED BY <1>2, <1>3, <2>1, <2>2 DEF Live
<1>9. QED BY <1>1, <1>4, <1>5, <1>6, <1>7, <1>8 DEF Execute

-----------------------------------------------------------------------------
(* Every step keeps a history acceptable, unless it loses a prompt.         *)

\* A conversation that is purged takes back no start.
NoTakeBack == env.purges => env.dispatch = {"ok"} /\ \A r \in Runs : launch[r] \notin {"failQueued", "delete"}

\* The table after a row is appended to it.
LEMMA FirstAppended ==
  ASSUME NEW S, NEW s \in Seq(S), NEW row \in S, NEW t, t = Append(s, row)
  PROVE  (s # <<>> => t[1] = s[1]) /\ (s = <<>> => t[1] = row)
  OBVIOUS

LEMMA PromptRowLoose == ASSUME NEW r \in Runs PROVE PromptRow(r) \in Written /\ PromptRow(r).run = r /\ Loose(PromptRow(r))
<1>1. PromptRow(r) \in Written /\ IsPromptOf(r, PromptRow(r))
  BY PromptWritten
<1>2. PromptRow(r) \in Stored
  BY <1>1, WrittenStored
<1>3. Loose(PromptRow(r))
  BY <1>1, <1>2, PromptLoose
<1>4. QED BY <1>1, <1>3 DEF IsPromptOf

\* The rows of no run are terminators.
LEMMA RepairRole == ASSUME NEW row \in Written, row.run = NoRun PROVE row.role = "assistant"
<1>1. ASSUME NEW r \in Runs PROVE row # PromptRow(r) /\ \A n : row # ResultRow(r, n)
  BY RunsAssumption DEF PromptRow, ResultRow, Row
<1>2. ASSUME NEW r \in Runs PROVE row # Row("user", <<ReadRef(File)>>, r)
  BY RunsAssumption DEF Row
<1>3. (\E r \in Runs : \E b \in OtherBlocks(r) : row = Row("assistant", b, r)) \/ row = Row("assistant", Terminator, NoRun)
  BY <1>1, <1>2, WrittenForm
<1>4. QED BY <1>3 DEF Row

\* A table that begins with a run's own row, or with a sweep's, begins with a prompt.
LEMMA RootedFirst == ASSUME NEW s \in Seq(Written), Rooted(s), s # <<>> PROVE Loose(s[1])
<1>1. 1 \in DOMAIN s /\ s[1] \in Written /\ \A k \in 1..1 : k = 1
  OBVIOUS
<1>2. s[1] \in Stored
  BY <1>1, WrittenStored
<1>3. CASE s[1].run # NoRun
  <2>1. IsPromptOf(s[1].run, s[1])
    BY <1>1, <1>3 DEF Rooted
  <2>2. QED BY <1>2, <2>1, PromptLoose
<1>4. CASE s[1].run = NoRun
  <2>1. Has(s[1], "result")
    BY <1>1, <1>4 DEF Rooted
  <2>2. s[1].role = "assistant"
    BY <1>1, <1>4, RepairRole
  <2>3. ResultsOf(s[1]) = {}
    BY <1>2, <2>2 DEF Stored, IsRow, Shape
  <2>4. QED BY <2>1, <2>3 DEF Has, ResultsOf, Ids
<1>5. QED BY <1>3, <1>4

LEMMA FirstStep ==
  ASSUME RowsInv, Control, NoTakeBack, Sound, ~lost', [Next]_vars, rows' \in Seq(Written), ~env.purges => Rooted(rows')
  PROVE  FirstInv'
<1>1. rows \in Seq(Written) /\ FirstInv
  BY DEF RowsInv, Sound
<1>2. ASSUME NEW row \in Written, rows' = Append(rows, row), rows = <<>> => Loose(row) PROVE FirstInv'
  <2> HIDE DEF Written
  <2>1. (rows # <<>> => rows'[1] = rows[1]) /\ (rows = <<>> => rows'[1] = row)
    BY <1>1, <1>2, FirstAppended
  <2>2. QED BY <1>1, <1>2, <2>1 DEF FirstInv
<1>3. CASE rows' = rows
  BY <1>1, <1>3 DEF FirstInv
<1>4. ASSUME NEW r \in Runs, Execute(r) PROVE FirstInv'
  <2>1. CASE rows' # rows
    <3>1. PICK row \in Written : row.run = r /\ rows' = Append(rows, row)
      BY <1>4, <2>1, ExecuteAppends DEF Appends
    <3>2. HasPrompt(rows, r)
      BY <1>4, <2>1, ExecuteWrites DEF Sound, PromptInv
    <3>3. rows # <<>>
      BY <3>2 DEF HasPrompt
    <3>4. QED BY <1>2, <3>1, <3>3
  <2>2. QED BY <1>3, <2>1
<1>5. ASSUME NEW r \in Runs, Start(r) PROVE FirstInv'
  <2>1. CASE rows' = Append(rows, PromptRow(r))
    BY <1>2, <2>1, PromptRowLoose
  <2>2. CASE DeleteMessage(r)
    <3>1. ~env.purges
      BY <2>2 DEF DeleteMessage, Launch, NoTakeBack
    <3>2. QED BY <3>1, RootedFirst DEF FirstInv
  <2>3. QED BY <1>3, <1>5, <2>1, <2>2, StartRows
<1>6. ASSUME NEW r \in Runs, Repair(r) PROVE FirstInv'
  <2>1. CASE rows' # rows
    <3>1. PICK row : row = Row("assistant", Terminator, NoRun)
      OBVIOUS
    <3>2. rows' = Append(rows, row) /\ row \in Written
      BY <1>6, <2>1, <3>1, RepairAppends DEF Written, Repairs
    <3>3. rows # <<>>
      BY <1>6, <2>1 DEF Repair, Sweep, SweepReadsTail, SweepSaves, SweepDies
    <3>4. QED BY <1>2, <3>2, <3>3
  <2>2. QED BY <1>3, <2>1
<1>7. CASE Purge
  <2>1. PICK c : Cut(c)
    BY <1>7, PurgeCuts
  <2>2. /\ c \in 0..Len(rows) /\ rows' = SubSeq(rows, c + 1, Len(rows))
        /\ c < Len(rows) => KeepsFrom(rows[c + 1])
    BY <2>1 DEF Cut
  <2>3. Len(rows') = Len(rows) - c /\ \A i \in 1..(Len(rows) - c) : rows'[i] = rows[i + c]
    <3>1. rows \in Seq(Written)
      BY <1>1
    <3> HIDE DEF Written
    <3>2. QED BY ONLY <2>2, <3>1, CutRows, SMTT(20)
  <2>4. ASSUME rows' # <<>> PROVE Loose(rows'[1])
    <3>1. PICK n : n = Len(rows) /\ n \in Nat /\ c \in 0..n /\ rows \in Seq(Written)
      BY <1>1, <2>2
    <3>2. Len(rows') # 0
      <4> HIDE DEF Written
      <4>1. QED BY <2>4
    <3>3. c < n /\ 1 \in 1..(n - c) /\ 1 + c = c + 1 /\ c + 1 \in 1..n
      BY <2>3, <3>1, <3>2
    <3>4. rows'[1] = rows[c + 1] /\ rows[c + 1] \in Written /\ KeepsFrom(rows[c + 1])
      BY <2>2, <2>3, <3>1, <3>3
    <3>5. rows'[1] \in Stored
      BY <3>4, WrittenStored
    <3>6. QED BY <3>4, <3>5, KeepsFromPrompt, PromptLoose
  <2>5. QED BY <2>4 DEF FirstInv
<1>8. CASE UNCHANGED vars
  BY <1>3, <1>8 DEF vars
<1>9. QED BY <1>4, <1>5, <1>6, <1>7, <1>8 DEF Next

LEMMA PurgePlaces ==
  ASSUME RowsInv, Purge
  PROVE  \E c \in 0..Len(rows) : /\ rows' = SubSeq(rows, c + 1, Len(rows))
                                 /\ \A i \in 1..c : Old(rows[i]) \/ ~KeepsFrom(rows[i])
  BY PurgeCuts DEF Cut

LEMMA PromptStep ==
  ASSUME RowsInv, Control, NoTakeBack, Sound, ~lost', [Next]_vars
  PROVE  PromptInv'
<1>1. rows \in Seq(Written) /\ \A q \in Runs : Writing(q) \/ toolTail[q] => HasPrompt(rows, q)
  BY DEF RowsInv, Sound, PromptInv
<1>2. ASSUME NEW row \in Written, rows' = Append(rows, row) \/ rows' = rows,
             \A q \in Runs : (Writing(q) \/ toolTail[q])' => HasPrompt(rows, q)
      PROVE  PromptInv'
  <2> HIDE DEF Written
  <2>1. \A q \in Runs : HasPrompt(rows, q) => HasPrompt(rows', q)
    BY <1>1, <1>2, PromptStays
  <2>2. QED BY <1>2, <2>1 DEF PromptInv
<1>3. ASSUME NEW r \in Runs, Execute(r) PROVE PromptInv'
  <2>1. PICK row \in Written : rows' = Append(rows, row) \/ rows' = rows
    <3>1. PromptRow(r) \in Written
      BY PromptWritten
    <3>2. QED BY <1>3, <3>1, ExecuteAppends DEF Appends
  <2>2. LoadHistory(r) /\ pc'[r] = "model" => HasPrompt(rows, r)
    <3>1. \A i \in 1..Len(rows) : i \in DOMAIN rows
      BY <1>1
    <3>2. SUFFICES ASSUME LoadHistory(r), pc'[r] = "model" PROVE HasPrompt(rows, r)
      OBVIOUS
    <3>3. QED BY <3>1, <3>2, LoadHasPrompt DEF Control
  <2>3. \A q \in Runs : (Writing(q) \/ toolTail[q])' => HasPrompt(rows, q)
    BY <1>1, <1>3, <2>2, ExecuteWrites
  <2>4. QED BY <1>2, <2>1, <2>3
<1>4. ASSUME NEW r \in Runs, Start(r) PROVE PromptInv'
  <2>1. UNCHANGED <<pc, toolTail>>
    BY <1>4 DEF Start, CreateQueued, PersistUserMessage, Dispatch, FailQueued, DeleteMessage, CancelQueued, LauncherDies, execVars
  <2>2. \A q \in Runs : (Writing(q) \/ toolTail[q])' => HasPrompt(rows, q)
    BY <1>1, <2>1 DEF Writing
  <2>3. PromptRow(r) \in Written
    BY PromptWritten
  <2>4. CASE rows' = rows \/ rows' = Append(rows, PromptRow(r))
    BY <1>2, <2>2, <2>3, <2>4
  <2>5. CASE DeleteMessage(r) /\ \E i \in 1..Len(rows) : IsPromptOf(r, rows[i]) /\ rows' = RemoveAt(rows, i)
    <3>1. PICK i \in 1..Len(rows) : IsPromptOf(r, rows[i]) /\ rows' = RemoveAt(rows, i)
      BY <2>5
    <3>2. \A q \in Runs : q # r /\ HasPrompt(rows, q) => HasPrompt(rows', q)
      BY <1>1, <3>1, RemovedPrompt
    <3>3. ~(Writing(r) \/ toolTail[r])'
      BY <2>1, <2>5 DEF DeleteMessage, Writing, Saving, Control
    <3>4. QED BY <2>2, <3>2, <3>3 DEF PromptInv
  <2>6. QED BY <1>4, <2>4, <2>5, StartRows
<1>5. ASSUME NEW r \in Runs, Repair(r) PROVE PromptInv'
  <2>1. UNCHANGED <<pc, toolTail>>
    BY <1>5 DEF Repair, Sweep, SweepReadsTail, SweepSaves, SweepDies, execVars
  <2>2. \A q \in Runs : (Writing(q) \/ toolTail[q])' => HasPrompt(rows, q)
    BY <1>1, <2>1 DEF Writing
  <2>3. Row("assistant", Terminator, NoRun) \in Written
    BY DEF Written, Repairs
  <2>4. QED BY <1>2, <1>5, <2>2, <2>3, RepairAppends
<1>6. CASE Purge
  <2>1. PICK c \in 0..Len(rows) : /\ rows' = SubSeq(rows, c + 1, Len(rows))
                                  /\ \A i \in 1..c : Old(rows[i]) \/ ~KeepsFrom(rows[i])
    BY <1>6, PurgePlaces
  <2>2. UNCHANGED <<pc, toolTail>>
    BY <1>6 DEF Purge, execVars
  <2>3. ASSUME NEW q \in Runs, (Writing(q) \/ toolTail[q])' PROVE HasPrompt(rows', q)
    <3>1. Writing(q) \/ toolTail[q]
      BY <2>2, <2>3 DEF Writing
    <3>2. HasPrompt(rows, q) /\ pc[q] \notin {"none", "over"}
      BY <1>1, <3>1 DEF Writing, Saving, Control
    <3>3. QED BY <1>1, <2>1, <3>2, PromptCut
  <2>4. QED BY <2>3 DEF PromptInv
<1>7. CASE UNCHANGED vars
  BY <1>1, <1>7 DEF vars, execVars, PromptInv, Writing
<1>8. QED BY <1>3, <1>4, <1>5, <1>6, <1>7 DEF Next

\* A table that ends in a result has one.
LEMMA TailHasResult == ASSUME RowsInv, ResultTail PROVE HasResult(rows)
<1>1. rows \in Seq(Written) /\ rows # <<>> /\ Only(Last(rows), "result")
  BY DEF RowsInv, ResultTail
<1>2. Len(rows) \in DOMAIN rows /\ Last(rows) = rows[Len(rows)] /\ Last(rows) \in Written
  <2> HIDE DEF Written
  <2>1. QED BY <1>1 DEF Last
<1>3. Last(rows).blocks # <<>> /\ Last(rows).blocks \in Seq(BlockSet)
  <2>1. PICK row \in Stored : row = Last(rows)
    BY <1>2, WrittenStored
  <2>2. row.blocks \in Seq(BlockSet) /\ row.blocks # <<>>
    BY DEF Stored, IsRow, Shape, BlockSet
  <2>3. QED BY <2>1, <2>2
<1>4. PICK b : b \in ToSet(Last(rows).blocks)
  <2>1. PICK s \in Seq(BlockSet) : s = Last(rows).blocks /\ s # <<>>
    BY <1>3
  <2>2. 1 \in DOMAIN s
    BY <2>1
  <2>3. QED BY <2>1, <2>2 DEF ToSet
<1>5. Has(Last(rows), "result")
  BY <1>1, <1>4 DEF Only, Has
<1>6. QED BY <1>2, <1>5 DEF HasResult

\* What an appended row changes for those who have only their prompt, and for results.
LEMMA AppendedFacts ==
  ASSUME NEW S, NEW s \in Seq(S), NEW row \in S, NEW t, t = Append(s, row)
  PROVE  /\ HasResult(s) => HasResult(t)
         /\ \A q : (\A i \in DOMAIN s : s[i].run = q => IsPromptOf(q, s[i])) /\ (row.run = q => IsPromptOf(q, row))
                     => \A i \in DOMAIN t : t[i].run = q => IsPromptOf(q, t[i])
<1>1. /\ DOMAIN t = 1..(Len(s) + 1) /\ DOMAIN s = 1..Len(s) /\ Len(s) \in Nat
      /\ t[Len(s) + 1] = row /\ \A i \in 1..Len(s) : t[i] = s[i]
  BY AppendRows
<1>2. \A i \in DOMAIN t : i = Len(s) + 1 \/ i \in DOMAIN s
  BY <1>1
<1>3. \A i \in DOMAIN s : i \in DOMAIN t
  BY <1>1
<1>4. HasResult(s) => HasResult(t)
  BY <1>1, <1>3 DEF HasResult
<1>5. QED BY <1>1, <1>2, <1>4

LEMMA RootStep ==
  ASSUME RowsInv, Control, Sound, ~lost', ~env.purges, [Next]_vars
  PROVE  RootInv'
<1>1. /\ rows \in Seq(Written) /\ Rooted(rows)
      /\ \A r \in Runs : pc[r] = "none" => \A i \in DOMAIN rows : rows[i].run = r => IsPromptOf(r, rows[i])
      /\ \A r \in Runs : sweeper[r] = "save" => HasResult(rows)
      /\ \A r \in Runs : Writing(r) \/ toolTail[r] => HasPrompt(rows, r)
  BY DEF RowsInv, Sound, RootInv, PromptInv
<1>2. ASSUME NEW row \in Written, rows' = Append(rows, row),
             row.run = NoRun => HasResult(rows), row.run # NoRun => HasPrompt(rows, row.run) \/ IsPromptOf(row.run, row),
             \A q \in Runs : pc'[q] = "none" => pc[q] = "none" /\ (row.run = q => IsPromptOf(q, row)),
             \A q \in Runs : sweeper'[q] = "save" => HasResult(rows)
      PROVE  RootInv'
  <2> HIDE DEF Written
  <2>1. Rooted(rows')
    BY <1>1, <1>2, RootedAppend
  <2>2. /\ HasResult(rows) => HasResult(rows')
        /\ \A q : (\A i \in DOMAIN rows : rows[i].run = q => IsPromptOf(q, rows[i])) /\ (row.run = q => IsPromptOf(q, row))
                     => \A i \in DOMAIN rows' : rows'[i].run = q => IsPromptOf(q, rows'[i])
    BY <1>1, <1>2, AppendedFacts
  <2>3. QED BY <1>1, <1>2, <2>1, <2>2 DEF RootInv
<1>3. ASSUME rows' = rows, \A q \in Runs : pc'[q] = "none" => pc[q] = "none",
             \A q \in Runs : sweeper'[q] = "save" => HasResult(rows)
      PROVE  RootInv'
  BY <1>1, <1>3 DEF RootInv
<1>4. ASSUME NEW r \in Runs, Execute(r) PROVE RootInv'
  <2>1. sweeper' = sweeper
    BY <1>4 DEF Execute, Claim, LoadHistory, Stop, LeaseLost, ModelFails, Answer, CallTools, SaveUse, SaveResult, SaveMarker,
           SaveRef, RoundFails, Terminate, Finish, ExecutorDies
  <2>2. pc'[r] # "none" /\ \A q \in Runs : q # r => pc'[q] = pc[q]
    BY <1>4, ExecuteMoves
  <2>3. CASE rows' = rows
    BY <1>1, <1>3, <2>1, <2>2, <2>3
  <2>4. CASE rows' # rows
    <3>1. PICK row \in Written : row.run = r /\ rows' = Append(rows, row)
      BY <1>4, <2>4, ExecuteAppends DEF Appends
    <3>2. HasPrompt(rows, r)
      BY <1>1, <1>4, <2>4, ExecuteWrites
    <3>3. row.run # NoRun
      BY <3>1, RunsAssumption
    <3>4. QED BY <1>1, <1>2, <2>1, <2>2, <3>1, <3>2, <3>3
  <2>5. QED BY <2>3, <2>4
<1>5. ASSUME NEW r \in Runs, Start(r) PROVE RootInv'
  <2>1. UNCHANGED <<pc, sweeper>>
    BY <1>5 DEF Start, CreateQueued, PersistUserMessage, Dispatch, FailQueued, DeleteMessage, CancelQueued, LauncherDies, execVars
  <2>2. CASE rows' = rows
    BY <1>1, <1>3, <2>1, <2>2
  <2>3. CASE rows' = Append(rows, PromptRow(r))
    <3>1. PromptRow(r) \in Written /\ IsPromptOf(r, PromptRow(r)) /\ PromptRow(r).run = r /\ r # NoRun
      BY PromptWritten, RunsAssumption DEF IsPromptOf
    <3>2. QED BY <1>1, <1>2, <2>1, <2>3, <3>1
  <2>4. CASE DeleteMessage(r) /\ \E i \in 1..Len(rows) : IsPromptOf(r, rows[i]) /\ rows' = RemoveAt(rows, i)
    <3>1. PICK i \in 1..Len(rows) : IsPromptOf(r, rows[i]) /\ rows' = RemoveAt(rows, i)
      BY <2>4
    <3>2. pc[r] = "none"
      BY <2>4 DEF DeleteMessage
    <3>3. \A k \in DOMAIN rows : rows[k].run = r => IsPromptOf(r, rows[k])
      BY <1>1, <3>2
    <3>4. /\ HasResult(rows) => HasResult(rows')
          /\ \A q \in Runs : (\A k \in DOMAIN rows : rows[k].run = q => IsPromptOf(q, rows[k]))
                                => \A k \in DOMAIN rows' : rows'[k].run = q => IsPromptOf(q, rows'[k])
          /\ Rooted(rows')
      BY <1>1, <3>1, <3>3, RemovedPrompt
    <3>5. QED BY <1>1, <2>1, <3>4 DEF RootInv
  <2>5. QED BY <1>5, <2>2, <2>3, <2>4, StartRows
<1>6. ASSUME NEW r \in Runs, Repair(r) PROVE RootInv'
  <2>1. UNCHANGED pc
    BY <1>6 DEF Repair, Sweep, SweepReadsTail, SweepSaves, SweepDies, execVars
  <2>2. CASE SweepReadsTail(r)
    <3>1. rows' = rows /\ sweeper' = [sweeper EXCEPT ![r] = IF ResultTail THEN "save" ELSE "over"]
      BY <2>2 DEF SweepReadsTail, NeedsTerminator
    <3>2. \A q \in Runs : sweeper'[q] = "save" => HasResult(rows)
      BY <1>1, <3>1, TailHasResult DEF Control
    <3>3. QED BY <1>3, <2>1, <3>1, <3>2
  <2>3. CASE Sweep(r) \/ SweepDies(r)
    <3>1. rows' = rows /\ \E p \in {"read", "over"} : sweeper' = [sweeper EXCEPT ![r] = p]
      BY <2>3 DEF Sweep, SweepDies
    <3>2. \A q \in Runs : sweeper'[q] = "save" => HasResult(rows)
      BY <1>1, <3>1 DEF Control
    <3>3. QED BY <1>3, <2>1, <3>1, <3>2
  <2>4. CASE SweepSaves(r)
    <3>1. PICK row : row = Row("assistant", Terminator, NoRun)
      OBVIOUS
    <3>2. rows' = Append(rows, row) /\ row \in Written /\ row.run = NoRun
      BY <2>4, <3>1 DEF SweepSaves, Save, Row, Written, Repairs
    <3>3. HasResult(rows) /\ sweeper' = [sweeper EXCEPT ![r] = "over"]
      BY <1>1, <2>4 DEF SweepSaves
    <3>4. \A q \in Runs : row.run # q
      BY <3>2, RunsAssumption
    <3>5. QED BY <1>1, <1>2, <2>1, <3>2, <3>3, <3>4
  <2>5. QED BY <1>6, <2>2, <2>3, <2>4 DEF Repair
<1>7. CASE Purge
  BY <1>7 DEF Purge
<1>8. CASE UNCHANGED vars
  BY <1>1, <1>3, <1>8 DEF vars, execVars
<1>9. QED BY <1>4, <1>5, <1>6, <1>7, <1>8 DEF Next

LEMMA NoTakeBackStep == ASSUME Control, NoTakeBack, [Next]_vars PROVE NoTakeBack'
<1>1. env' = env
  BY EnvStays
<1>2. SUFFICES ASSUME env.purges PROVE \A q \in Runs : launch'[q] \notin {"failQueued", "delete"}
  BY <1>1 DEF NoTakeBack
<1>3. env.dispatch = {"ok"} /\ \A q \in Runs : launch[q] \notin {"failQueued", "delete"}
  BY <1>2 DEF NoTakeBack
<1>4. ASSUME NEW r \in Runs, Start(r) PROVE \A q \in Runs : launch'[q] \notin {"failQueued", "delete"}
  <2>1. launch' = launch \/ \E s \in {"persist", "dispatch", "over"} : launch' = [launch EXCEPT ![r] = s]
    BY <1>3, <1>4 DEF Start, CreateQueued, PersistUserMessage, Dispatch, FailQueued, DeleteMessage, CancelQueued, LauncherDies, Launch
  <2>2. QED BY <1>3, <2>1 DEF Control
<1>5. ASSUME NEW r \in Runs, Execute(r) \/ Repair(r) PROVE launch' = launch
  BY <1>5 DEF Execute, Claim, LoadHistory, Stop, LeaseLost, ModelFails, Answer, CallTools, SaveUse, SaveResult, SaveMarker,
         SaveRef, RoundFails, Terminate, Finish, ExecutorDies, Repair, Sweep, SweepReadsTail, SweepSaves, SweepDies
<1>6. CASE Purge \/ UNCHANGED vars
  BY <1>3, <1>6 DEF Purge, vars
<1>7. QED BY <1>3, <1>4, <1>5, <1>6 DEF Next

LEMMA MemStep == ASSUME RowsInv, Control, DOMAIN mem = Runs, Sound, [Next]_vars PROVE MemInv' /\ DOMAIN mem' = Runs
<1>1. FirstInv /\ MemInv
  BY DEF Sound
<1>2. ASSUME NEW r \in Runs, Start(r) \/ Repair(r) PROVE UNCHANGED <<mem, pc>>
  BY <1>2 DEF Start, CreateQueued, PersistUserMessage, Dispatch, FailQueued, DeleteMessage, CancelQueued, LauncherDies,
             Repair, Sweep, SweepReadsTail, SweepSaves, SweepDies, execVars
<1>3. CASE UNCHANGED <<mem, pc>>
  BY <1>1, <1>3 DEF MemInv, Writing
<1>4. CASE Purge \/ UNCHANGED vars
  BY <1>3, <1>4 DEF Purge, vars, execVars
<1>5. QED BY <1>1, <1>2, <1>3, <1>4, ExecuteMem DEF Next

\* The domain of mem, also when a prompt is lost.
LEMMA MemDomain == ASSUME DOMAIN mem = Runs, [Next]_vars PROVE DOMAIN mem' = Runs
<1>1. ASSUME NEW r \in Runs, Start(r) \/ Repair(r) PROVE mem' = mem
  BY <1>1 DEF Start, CreateQueued, PersistUserMessage, Dispatch, FailQueued, DeleteMessage, CancelQueued, LauncherDies,
             Repair, Sweep, SweepReadsTail, SweepSaves, SweepDies, execVars
<1>2. ASSUME NEW r \in Runs, Execute(r) PROVE mem' = mem \/ \E ms : mem' = [mem EXCEPT ![r] = ms]
  BY <1>2 DEF Execute, Claim, LoadHistory, Stop, LeaseLost, ModelFails, Answer, CallTools, SaveUse, SaveResult, SaveMarker,
         SaveRef, RoundFails, Terminate, Finish, ExecutorDies, Leave, NextCall
<1>3. CASE Purge \/ UNCHANGED vars
  BY <1>3 DEF Purge, vars, execVars
<1>4. QED BY <1>1, <1>2, <1>3 DEF Next

-----------------------------------------------------------------------------
(* The theorem on requests.                                                 *)

Acceptable ==
  /\ RowsInv /\ Control /\ DOMAIN mem = Runs
  /\ (env.purges => env.dispatch = {"ok"}) => NoTakeBack /\ (~lost => Sound)

LEMMA InitAcceptable == Init => Acceptable
<1> SUFFICES ASSUME Init PROVE Acceptable
  OBVIOUS
<1>1. RowsInv
  <2>1. NoRound \in [n : Nat, kind : {"none", "plain", "reads", "compacts"}]
    BY DEF NoRound
  <2>2. QED BY <2>1 DEF Init, RowsInv
<1>2. Control
  BY DEF Init, Control, Live
<1>3. Sound
  BY DEF Init, Sound, FirstInv, PromptInv, MemInv, RootInv, Rooted, Writing, Saving
<1>4. QED BY <1>1, <1>2, <1>3 DEF Acceptable, NoTakeBack, Init

LEMMA NextAcceptable == Acceptable /\ [Next]_vars => Acceptable'
<1> SUFFICES ASSUME Acceptable, [Next]_vars PROVE Acceptable'
  OBVIOUS
<1>1. RowsInv' /\ Control' /\ DOMAIN mem' = Runs /\ env' = env
  BY RowsStep, ControlStep, MemDomain, EnvStays DEF Acceptable
<1>2. ASSUME env.purges => env.dispatch = {"ok"} PROVE NoTakeBack' /\ (~lost' => Sound')
  <2>1. RowsInv /\ Control /\ DOMAIN mem = Runs /\ NoTakeBack /\ (~lost => Sound)
    BY <1>2 DEF Acceptable
  <2>2. NoTakeBack'
    BY <2>1, NoTakeBackStep
  <2>3. ASSUME ~lost' PROVE Sound'
    <3>1. ~lost /\ Sound
      BY <2>1, <2>3, LostStays
    <3>2. ~env.purges => RootInv'
      BY <2>1, <2>3, <3>1, RootStep
    <3>3. rows' \in Seq(Written)
      BY <1>1 DEF RowsInv
    <3>4. FirstInv'
      BY <2>1, <2>3, <3>1, <3>2, <3>3, FirstStep DEF RootInv
    <3>5. PromptInv'
      BY <2>1, <2>3, <3>1, PromptStep
    <3>6. MemInv'
      BY <2>1, <3>1, MemStep
    <3>7. QED BY <1>1, <3>2, <3>4, <3>5, <3>6 DEF Sound
  <2>4. QED BY <2>2, <2>3
<1>3. QED BY <1>1, <1>2 DEF Acceptable

\* What the first call of a run started now would send.
LEMMA NextRequest ==
  ASSUME RowsInv, FirstInv
  PROVE  Good(BlockId, History(Append(rows, Row("user", <<Block("text", <<NoRun>>)>>, NoRun)), DOMAIN FileSize, FALSE))
<1>1. PICK row : row = Row("user", <<Block("text", <<NoRun>>)>>, NoRun)
  OBVIOUS
<1>2. row \in Stored /\ Loose(row)
  BY <1>1, BlockIds, OneBlockStored DEF BlockType
<1>3. rows \in Seq(Stored)
  BY WrittenStored DEF RowsInv
<1>4. PICK asked : asked = Append(rows, row)
  OBVIOUS
<1>5. asked \in Seq(Stored) /\ asked # <<>> /\ asked[Len(asked)] = row
      /\ (rows = <<>> => asked[1] = row) /\ (rows # <<>> => asked[1] = rows[1])
  <2> HIDE DEF Stored
  <2>1. QED BY <1>2, <1>3, <1>4
<1>6. Framed(asked)
  BY <1>2, <1>5 DEF Framed, FirstInv
<1>7. QED BY <1>1, <1>4, <1>5, <1>6, StoredHistoryGood

(* Every request of every turn, and the first of a run started now, is one  *)
(* the API accepts, unless a turn goes on without its prompt; where the     *)
(* purge runs, a start is not taken back.                                   *)
THEOREM RequestsAccepted == Spec => []((env.purges => env.dispatch = {"ok"}) => EveryRequestAccepted)
<1>1. Acceptable => ((env.purges => env.dispatch = {"ok"}) => EveryRequestAccepted)
  <2> SUFFICES ASSUME Acceptable, env.purges => env.dispatch = {"ok"}, ~lost PROVE EveryRequestAccepted
    BY DEF EveryRequestAccepted
  <2>1. RowsInv /\ FirstInv /\ MemInv
    BY DEF Acceptable, Sound
  <2>2. PICK now : now = History(Append(rows, Row("user", <<Block("text", <<NoRun>>)>>, NoRun)), DOMAIN FileSize, FALSE)
    OBVIOUS
  <2>3. Good(BlockId, now)
    BY <2>1, <2>2, NextRequest
  <2>4. \A q \in Runs : pc[q] = "model" => Good(BlockId, mem[q])
    BY <2>1 DEF MemInv, Writing
  <2>5. \A ms \in {now} \cup {mem[r] : r \in {q \in Runs : pc[q] = "model"}} : Good(BlockId, ms)
    BY <2>3, <2>4
  <2>6. \A ms \in {now} \cup {mem[r] : r \in {q \in Runs : pc[q] = "model"}} :
          \A writeUp \in BOOLEAN : WellFormed(Request(ms, writeUp))
    BY <2>5, GoodRequest
  <2>7. QED BY <2>2, <2>6 DEF EveryRequestAccepted, Row
<1>2. QED BY <1>1, InitAcceptable, NextAcceptable, PTL DEF Spec

-----------------------------------------------------------------------------
(* How many rows there are.                                                 *)

RoundInv ==
  /\ round \in [Runs -> [n : 0..env.rounds, kind : env.kinds \cup {"none"}]]
  /\ \A r \in Runs : pc[r] \in Saving => round[r].n # 0

LEMMA RoundInvStep == ASSUME RowsInv, Control, RoundInv, [Next]_vars PROVE RoundInv'
<1>0. PICK m : m = env.rounds /\ m \in Nat
  BY EnvironmentsAssumption DEF RowsInv
<1>1. PICK Round : Round = [n : 0..m, kind : env.kinds \cup {"none"}]
  OBVIOUS
<1>2. round \in [Runs -> Round] /\ \A r \in Runs : pc[r] \in Saving => round[r].n # 0
  BY <1>0, <1>1 DEF RoundInv
<1>3. SUFFICES round' \in [Runs -> Round] /\ \A r \in Runs : pc'[r] \in Saving => round'[r].n # 0
  BY <1>0, <1>1, EnvStays DEF RoundInv
<1>4. CASE UNCHANGED <<round, pc>>
  BY <1>2, <1>4
<1>5. ASSUME NEW r \in Runs, Execute(r) PROVE round' \in [Runs -> Round] /\ \A q \in Runs : pc'[q] \in Saving => round'[q].n # 0
  <2>0. \A q \in Runs : q # r => pc'[q] = pc[q]
    BY <1>5, ExecuteMoves
  <2>1. CASE CallTools(r)
    <3>1. PICK kind \in env.kinds : round' = [round EXCEPT ![r] = [n |-> @.n + 1, kind |-> kind]]
      BY <2>1 DEF CallTools
    <3>2. round[r].n \in 0..m /\ round[r].n < m
      BY <1>0, <1>1, <1>2, <2>1 DEF CallTools, RoundLeft
    <3>3. PICK k : k = round[r].n + 1 /\ k \in 0..m /\ k # 0
      BY <1>0, <3>2
    <3>4. PICK v : v = [n |-> k, kind |-> kind]
      OBVIOUS
    <3>5. v \in Round /\ v.n # 0 /\ round' = [round EXCEPT ![r] = v]
      BY <1>1, <3>1, <3>3, <3>4
    <3>6. QED BY <1>2, <2>0, <3>5
  <2>2. CASE LeaseLost(r) \/ ExecutorDies(r) \/ Finish(r)
    <3>1. round' = [round EXCEPT ![r] = NoRound] /\ pc' = [pc EXCEPT ![r] = "over"]
      BY <2>2 DEF LeaseLost, ExecutorDies, Finish, Leave
    <3>2. NoRound \in Round
      BY <1>0, <1>1 DEF NoRound
    <3>3. pc'[r] \notin Saving
      BY <3>1 DEF Saving, Control
    <3>4. QED BY <1>2, <2>0, <3>1, <3>2, <3>3
  <2>3. CASE ~CallTools(r) /\ ~LeaseLost(r) /\ ~ExecutorDies(r) /\ ~Finish(r)
    <3>1. round' = round
      BY <1>5, <2>3 DEF Execute, Claim, LoadHistory, Stop, ModelFails, Answer, SaveUse, SaveResult, SaveMarker, SaveRef,
             RoundFails, Terminate
    <3>2. pc'[r] \in Saving => pc[r] \in Saving
      BY <1>5, <2>3 DEF Execute, Claim, LoadHistory, Stop, ModelFails, Answer, SaveUse, SaveResult, SaveMarker, SaveRef,
             RoundFails, Terminate, Go, Saving, Control
    <3>3. QED BY <1>2, <2>0, <3>1, <3>2
  <2>4. QED BY <2>1, <2>2, <2>3
<1>6. ASSUME NEW r \in Runs, Start(r) \/ Repair(r) PROVE UNCHANGED <<round, pc>>
  BY <1>6 DEF Start, CreateQueued, PersistUserMessage, Dispatch, FailQueued, DeleteMessage, CancelQueued, LauncherDies,
             Repair, Sweep, SweepReadsTail, SweepSaves, SweepDies, execVars
<1>7. CASE Purge \/ UNCHANGED vars
  BY <1>4, <1>7 DEF Purge, vars, execVars
<1>8. QED BY <1>4, <1>5, <1>6, <1>7 DEF Next

(* How far an executor has come, in rows: at most that many has it saved.   *)
(* A round is four rows, and the end of a turn is one.                      *)
Place(p, n, tail, m) ==
  IF p \in {"none", "load"} THEN 0
  ELSE IF p = "model" THEN 4 * n
  ELSE IF p = "saveUse" THEN 4 * n - 4
  ELSE IF p = "saveResult" THEN 4 * n - 3
  ELSE IF p = "saveMarker" THEN 4 * n - 2
  ELSE IF p = "saveRef" THEN 4 * n - 1
  ELSE IF p = "finally" /\ tail THEN 4 * m
  ELSE 4 * m + 1

Progress(r) == Place(pc[r], round[r].n, toolTail[r], env.rounds)

LEMMA PlaceBounds ==
  ASSUME NEW m \in Nat, NEW n \in 0..m, NEW tail \in BOOLEAN, NEW p \in {"none", "finish", "over"} \cup Live,
         p \in Saving => n # 0
  PROVE  Place(p, n, tail, m) \in 0..(4 * m + 1)
  BY DEF Place, Live, Saving

\* Each step of an executor takes it on, and by one row at least when it saves one.
Ahead(r) ==
  /\ Progress(r) \in Nat /\ Progress(r)' \in 0..(4 * env.rounds + 1)
  /\ Progress(r) <= Progress(r)' /\ (rows' # rows => Progress(r) + 1 <= Progress(r)')

LEMMA ExecuteAhead == ASSUME RowsInv, Control, RoundInv, RoundInv', Control', env' = env, NEW r \in Runs, Execute(r) PROVE Ahead(r)
<1>1. PICK m : m = env.rounds /\ m \in Nat /\ env'.rounds = m
  BY EnvironmentsAssumption DEF RowsInv
<1>2. PICK p, n, t : /\ p = pc[r] /\ n = round[r].n /\ t = toolTail[r] /\ Progress(r) = Place(p, n, t, m)
                     /\ p \in {"none", "finish", "over"} \cup Live /\ n \in 0..m /\ t \in BOOLEAN /\ (p \in Saving => n # 0)
  BY <1>1 DEF Progress, Control, RoundInv
<1>3. PICK q, k, u : /\ q = pc'[r] /\ k = round'[r].n /\ u = toolTail'[r] /\ Progress(r)' = Place(q, k, u, m)
                     /\ q \in {"none", "finish", "over"} \cup Live /\ k \in 0..m /\ u \in BOOLEAN /\ (q \in Saving => k # 0)
  BY <1>1 DEF Progress, Control, RoundInv
<1>4. Place(p, n, t, m) \in 0..(4 * m + 1) /\ Place(q, k, u, m) \in 0..(4 * m + 1)
  BY <1>1, <1>2, <1>3, PlaceBounds
<1>5. /\ Place("finally", n, FALSE, m) = 4 * m + 1 /\ Place("finally", n, TRUE, m) = 4 * m
      /\ p \in Saving \cup {"model"} => Place(p, n, t, m) <= 4 * m
      /\ Place("finish", k, u, m) = 4 * m + 1 /\ Place("over", k, u, m) = 4 * m + 1
      /\ p \in {"none", "load"} => Place(p, n, t, m) = 0
      /\ k = n + 1 => Place("saveUse", k, u, m) = Place("model", n, t, m)
      /\ k = n => /\ Place("saveResult", k, u, m) = Place("saveUse", n, t, m) + 1
                  /\ Place("saveMarker", k, u, m) = Place("saveResult", n, t, m) + 1
                  /\ Place("saveRef", k, u, m) = Place("saveMarker", n, t, m) + 1
                  /\ Place("model", k, u, m) >= Place("saveResult", n, t, m) + 1
                  /\ Place("model", k, u, m) = Place("saveRef", n, t, m) + 1
  <2>1. m \in Nat
    BY <1>1
  <2>2. n \in 0..m
    BY <1>2
  <2>3. t \in BOOLEAN
    BY <1>2
  <2>4. p \in {"none", "finish", "over"} \cup Live
    BY <1>2
  <2>5. p \in Saving => n # 0
    BY <1>2
  <2>6. k \in 0..m
    BY <1>3
  <2>7. u \in BOOLEAN
    BY <1>3
  <2>8. QED BY ONLY <2>1, <2>2, <2>3, <2>4, <2>5, <2>6, <2>7 DEF Place, Live, Saving
<1> DEFINE a == Place(p, n, t, m)
           b == Place(q, k, u, m)
<1>6. SUFFICES a <= b /\ (rows' # rows => a + 1 <= b)
  BY <1>1, <1>2, <1>3, <1>4 DEF Ahead
<1>7. CASE rows' = rows /\ (p \in {"none", "load"} \/ q \in {"finish", "over"})
  BY <1>4, <1>5, <1>7
<1>8. CASE ModelFails(r) \/ RoundFails(r)
  <2>1. rows' = rows /\ q = "finally" /\ p \in Saving \cup {"model"} /\ k = n
    BY <1>2, <1>3, <1>8 DEF ModelFails, RoundFails, Go, Saving, Control
  <2>2. b = Place("finally", n, u, m) /\ (u = TRUE \/ u = FALSE)
    BY <1>3, <2>1
  <2>3. b \in {4 * m, 4 * m + 1} /\ a <= 4 * m
    BY <1>5, <2>1, <2>2
  <2>4. QED BY <1>1, <1>4, <2>1, <2>3
<1>9. CASE Stop(r) \/ Answer(r)
  <2>1. q = "finally" /\ p = "model" /\ k = n /\ u = FALSE
    BY <1>2, <1>3, <1>9 DEF Stop, Answer, Go, Control
  <2>2. b = 4 * m + 1 /\ a <= 4 * m
    BY <1>5, <2>1
  <2>3. QED BY <1>1, <1>4, <2>2
<1>10. CASE CallTools(r)
  <2>1. rows' = rows /\ q = "saveUse" /\ p = "model" /\ k = n + 1
    BY <1>2, <1>3, <1>10 DEF CallTools, Go, Control, RoundInv
  <2>2. QED BY <1>4, <1>5, <2>1
<1>11. CASE SaveUse(r) \/ SaveResult(r) \/ SaveMarker(r) \/ SaveRef(r)
  <2>1. /\ k = n
        /\ \/ p = "saveUse" /\ q = "saveResult"
           \/ p = "saveResult" /\ q \in {"saveMarker", "model"}
           \/ p = "saveMarker" /\ q = "saveRef"
           \/ p = "saveRef" /\ q = "model"
    BY <1>2, <1>3, <1>11 DEF SaveUse, SaveResult, SaveMarker, SaveRef, Go, Control
  <2>2. QED BY <1>4, <1>5, <2>1
<1>12. CASE Terminate(r)
  <2>1. p = "finally" /\ q = "finish" /\ (rows' # rows => t = TRUE)
    BY <1>2, <1>3, <1>12 DEF Terminate, Go, Control
  <2>2. a = Place("finally", n, t, m) /\ (t = TRUE \/ t = FALSE)
    BY <1>2, <2>1
  <2>3. b = 4 * m + 1 /\ a \in {4 * m, 4 * m + 1} /\ (rows' # rows => a = 4 * m)
    BY <1>5, <2>1, <2>2
  <2>4. QED BY <1>1, <2>3
<1>13. CASE Claim(r) \/ LoadHistory(r)
  <2>1. rows' = rows /\ p \in {"none", "load"}
    BY <1>2, <1>13 DEF Claim, LoadHistory, Go
  <2>2. QED BY <1>7, <2>1
<1>14. CASE LeaseLost(r) \/ Finish(r) \/ ExecutorDies(r)
  <2>1. rows' = rows /\ q = "over"
    BY <1>3, <1>14 DEF LeaseLost, Finish, ExecutorDies, Leave, Control
  <2>2. QED BY <1>7, <2>1
<1>15. QED BY <1>8, <1>9, <1>10, <1>11, <1>12, <1>13, <1>14 DEF Execute

-----------------------------------------------------------------------------
(* The rows a run is accountable for: its prompt, its sweep's terminator,   *)
(* and those of its executor.                                               *)
Spent(r) ==
  {k \in 1..(3 + 4 * env.rounds) :
     \/ k = 1 /\ launch[r] \notin {"none", "persist"}
     \/ k = 2 /\ sweeper[r] = "over"
     \/ 2 < k /\ k <= 2 + Progress(r)}

Account == {p \in Runs \X (1..(3 + 4 * env.rounds)) : p[2] \in Spent(p[1])}

CountInv == Len(rows) <= Cardinality(Account)

LEMMA AccountFinite ==
  ASSUME IsFiniteSet(Runs), RowsInv
  PROVE  IsFiniteSet(Account) /\ Cardinality(Account) \in Nat /\ Cardinality(Account) <= Cardinality(Runs) * (3 + 4 * env.rounds)
<1>1. PICK m : m = 3 + 4 * env.rounds /\ m \in Nat /\ m > 0
  <2>1. env.rounds \in Nat
    BY EnvironmentsAssumption DEF RowsInv
  <2>2. QED BY <2>1
<1>2. IsFiniteSet(1..m) /\ Cardinality(1..m) = m
  <2>1. 1 \in Int /\ m \in Int /\ ~(1 > m) /\ m - 1 + 1 = m
    BY <1>1
  <2>2. QED BY <2>1, FS_Interval
<1>3. IsFiniteSet(Runs \X (1..m)) /\ Cardinality(Runs \X (1..m)) = Cardinality(Runs) * m
  BY <1>2, FS_Product
<1>4. Account \in SUBSET (Runs \X (1..m))
  BY <1>1 DEF Account
<1>5. IsFiniteSet(Account) /\ Cardinality(Account) <= Cardinality(Runs \X (1..m))
  BY <1>3, <1>4, FS_Subset
<1>6. QED BY <1>1, <1>3, <1>5, FS_CardinalityType

LEMMA GrownSet ==
  ASSUME NEW U, NEW V, IsFiniteSet(V), U \subseteq V
  PROVE  /\ Cardinality(U) \in Nat /\ Cardinality(V) \in Nat /\ Cardinality(U) <= Cardinality(V)
         /\ \A x : x \in V /\ x \notin U => Cardinality(U) + 1 <= Cardinality(V)
<1>1. IsFiniteSet(U) /\ Cardinality(U) <= Cardinality(V)
  BY FS_Subset
<1>2. ASSUME NEW x, x \in V, x \notin U PROVE Cardinality(U) + 1 <= Cardinality(V)
  <2>1. U \cup {x} \subseteq V
    BY <1>2
  <2>2. Cardinality(U \cup {x}) = Cardinality(U) + 1
    BY <1>1, <1>2, FS_AddElement
  <2>3. Cardinality(U \cup {x}) <= Cardinality(V)
    BY <2>1, FS_Subset
  <2>4. QED BY <2>2, <2>3
<1>3. QED BY <1>1, <1>2, FS_CardinalityType

LEMMA Counted ==
  ASSUME IsFiniteSet(Runs), RowsInv, RowsInv', env' = env, CountInv, \A q \in Runs : Spent(q) \subseteq Spent(q)',
         \/ Len(rows') <= Len(rows)
         \/ Len(rows') = Len(rows) + 1 /\ \E q \in Runs : \E k : k \in Spent(q)' /\ k \notin Spent(q)
  PROVE  CountInv'
<1>1. PICK U, V : U = Account /\ V = Account'
  OBVIOUS
<1>2. IsFiniteSet(V)
  <2>1. IsFiniteSet(Account')
    <3>1. PICK K : K = 1..(3 + 4 * env.rounds)
      OBVIOUS
    <3>2. env.rounds \in Nat
      BY EnvironmentsAssumption DEF RowsInv
    <3>3. IsFiniteSet(K)
      BY <3>1, <3>2, FS_Interval
    <3>4. IsFiniteSet(Runs \X K)
      BY <3>3, FS_Product
    <3>5. Account' \in SUBSET (Runs \X K)
      BY <3>1 DEF Account
    <3>6. QED BY <3>4, <3>5, FS_Subset
  <2>2. QED BY <1>1, <2>1
<1>3. U \subseteq V
  <2>1. SUFFICES ASSUME NEW p \in U PROVE p \in V
    OBVIOUS
  <2>2. p \in Runs \X (1..(3 + 4 * env.rounds)) /\ p[2] \in Spent(p[1])
    BY <1>1 DEF Account
  <2>3. p[1] \in Runs /\ p \in Runs \X (1..(3 + 4 * env'.rounds))
    BY <2>2
  <2>4. p[2] \in Spent(p[1])'
    BY <2>2, <2>3
  <2>5. QED BY <1>1, <2>3, <2>4 DEF Account
<1>4. /\ Cardinality(U) \in Nat /\ Cardinality(V) \in Nat /\ Cardinality(U) <= Cardinality(V)
      /\ \A x : x \in V /\ x \notin U => Cardinality(U) + 1 <= Cardinality(V)
  BY <1>2, <1>3, GrownSet
<1>5. Len(rows) \in Nat /\ Len(rows') \in Nat /\ Len(rows) <= Cardinality(U)
  <2>1. rows \in Seq(Written) /\ rows' \in Seq(Written)
    BY DEF RowsInv
  <2> HIDE DEF Written
  <2>2. QED BY <1>1, <2>1 DEF CountInv
<1>6. CASE Len(rows') <= Len(rows)
  BY <1>1, <1>4, <1>5, <1>6 DEF CountInv
<1>7. CASE Len(rows') = Len(rows) + 1 /\ \E q \in Runs : \E k : k \in Spent(q)' /\ k \notin Spent(q)
  <2>1. PICK q \in Runs : \E k : k \in Spent(q)' /\ k \notin Spent(q)
    BY <1>7
  <2>2. PICK k : k \in Spent(q)' /\ k \notin Spent(q)
    BY <2>1
  <2>3. k \in 1..(3 + 4 * env'.rounds)
    BY <2>2 DEF Spent
  <2>4. PICK x : x = <<q, k>>
    OBVIOUS
  <2>5. x \in V /\ x \notin U
    <3>1. x[1] = q /\ x[2] = k
      BY <2>4
    <3>2. PICK K : K = 1..(3 + 4 * env'.rounds)
      OBVIOUS
    <3>3. x \in Runs \X K
      BY <2>3, <2>4, <3>2
    <3>4. QED BY <1>1, <2>2, <3>1, <3>2, <3>3 DEF Account
  <2>6. QED BY <1>1, <1>4, <1>5, <1>7, <2>5 DEF CountInv
<1>8. QED BY <1>6, <1>7

LEMMA SpentSame ==
  ASSUME NEW q, env' = env, Progress(q)' = Progress(q), launch'[q] \in {"none", "persist"} => launch[q] \in {"none", "persist"},
         sweeper[q] = "over" => sweeper'[q] = "over"
  PROVE  Spent(q) \subseteq Spent(q)'
  BY DEF Spent

LEMMA CountStep ==
  ASSUME IsFiniteSet(Runs), RowsInv, Control, RoundInv, CountInv, RowsInv', Control', RoundInv', [Next]_vars
  PROVE  CountInv'
<1>0. env' = env /\ rows \in Seq(Written) /\ rows' \in Seq(Written)
  BY EnvStays DEF RowsInv
<1>1. ASSUME NEW row \in Written, rows' = Append(rows, row) PROVE Len(rows') = Len(rows) + 1
  <2> HIDE DEF Written
  <2>1. QED BY <1>0, <1>1, AppendRows
<1>2. Len(rows) <= Len(rows) /\ Len(rows) \in Nat
  <2> HIDE DEF Written
  <2>1. QED BY <1>0
<1>3. ASSUME NEW r \in Runs, Execute(r) PROVE CountInv'
  <2>1. Progress(r) \in Nat /\ Progress(r)' \in 0..(4 * env.rounds + 1)
        /\ Progress(r) <= Progress(r)' /\ (rows' # rows => Progress(r) + 1 <= Progress(r)')
    BY <1>0, <1>3, ExecuteAhead DEF Ahead
  <2>2. UNCHANGED <<launch, sweeper>>
    BY <1>3 DEF Execute, Claim, LoadHistory, Stop, LeaseLost, ModelFails, Answer, CallTools, SaveUse, SaveResult, SaveMarker,
           SaveRef, RoundFails, Terminate, Finish, ExecutorDies
  <2>3. \A q \in Runs : q # r => Progress(q)' = Progress(q)
    <3>1. \A q \in Runs : q # r => pc'[q] = pc[q] /\ round'[q] = round[q] /\ toolTail'[q] = toolTail[q]
      <4>1. round' = round \/ \E v : round' = [round EXCEPT ![r] = v]
        BY <1>3 DEF Execute, Claim, LoadHistory, Stop, LeaseLost, ModelFails, Answer, CallTools, SaveUse, SaveResult,
               SaveMarker, SaveRef, RoundFails, Terminate, Finish, ExecutorDies, Leave
      <4>2. toolTail' = toolTail \/ \E v : toolTail' = [toolTail EXCEPT ![r] = v]
        BY <1>3 DEF Execute, Claim, LoadHistory, Stop, LeaseLost, ModelFails, Answer, CallTools, SaveUse, SaveResult,
               SaveMarker, SaveRef, RoundFails, Terminate, Finish, ExecutorDies, Leave
      <4>3. DOMAIN round = Runs /\ DOMAIN toolTail = Runs
        BY DEF Control, RoundInv
      <4>4. QED BY <1>3, <4>1, <4>2, <4>3, ExecuteMoves
    <3>2. QED BY <1>0, <3>1 DEF Progress
  <2>4. Spent(r) \subseteq Spent(r)'
    <3>1. PICK a, b : a = Progress(r) /\ b = Progress(r)' /\ a \in Nat /\ b \in Nat /\ a <= b
      BY <2>1
    <3>2. \A k \in 1..(3 + 4 * env.rounds) : k <= 2 + a => k <= 2 + b
      BY <3>1
    <3>3. QED BY <1>0, <2>2, <3>1, <3>2 DEF Spent
  <2>5. \A q \in Runs : Spent(q) \subseteq Spent(q)'
    BY <1>0, <2>2, <2>3, <2>4, SpentSame
  <2>6. CASE rows' = rows
    BY <1>0, <1>2, <2>5, <2>6, Counted
  <2>7. CASE rows' # rows
    <3>1. Len(rows') = Len(rows) + 1
      BY <1>1, <1>3, <2>7, ExecuteAppends DEF Appends
    <3>2. PICK a, b, m : a = Progress(r) /\ b = Progress(r)' /\ m = env.rounds /\ m \in Nat /\ a \in Nat /\ b \in 0..(4 * m + 1) /\ a + 1 <= b
      BY <2>1, <2>7, EnvironmentsAssumption DEF RowsInv
    <3>3. PICK k : k = 3 + a /\ k \in 1..(3 + 4 * m) /\ 2 < k /\ k <= 2 + b /\ ~(k <= 2 + a) /\ k # 1 /\ k # 2
      BY <3>2
    <3>4. k \in Spent(r)' /\ k \notin Spent(r)
      BY <1>0, <3>2, <3>3 DEF Spent
    <3>5. QED BY <1>0, <2>5, <3>1, <3>4, Counted
  <2>8. QED BY <2>6, <2>7
<1>4. ASSUME NEW r \in Runs, Start(r) PROVE CountInv'
  <2>1. UNCHANGED <<pc, round, toolTail, sweeper>>
    BY <1>4 DEF Start, CreateQueued, PersistUserMessage, Dispatch, FailQueued, DeleteMessage, CancelQueued, LauncherDies, execVars
  <2>2. \A q \in Runs : launch'[q] \in {"none", "persist"} => launch[q] \in {"none", "persist"}
    BY <1>4 DEF Start, CreateQueued, PersistUserMessage, Dispatch, FailQueued, DeleteMessage, CancelQueued, LauncherDies, Launch, Control
  <2>3. \A q \in Runs : Spent(q) \subseteq Spent(q)'
    BY <1>0, <2>1, <2>2, SpentSame DEF Progress
  <2>4. CASE rows' = rows
    BY <1>0, <1>2, <2>3, <2>4, Counted
  <2>5. CASE PersistUserMessage(r)
    <3>1. rows' = Append(rows, PromptRow(r)) /\ launch[r] = "persist" /\ launch'[r] = "dispatch"
      BY <2>5 DEF PersistUserMessage, Launch, Save, PromptRow, Row, Control
    <3>2. Len(rows') = Len(rows) + 1
      BY <1>1, <3>1, PromptWritten
    <3>3. 1 \in 1..(3 + 4 * env.rounds)
      <4>1. env.rounds \in Nat
        BY EnvironmentsAssumption DEF RowsInv
      <4>2. QED BY <4>1
    <3>4. 1 \in Spent(r)' /\ 1 \notin Spent(r)
      BY <1>0, <3>1, <3>3 DEF Spent
    <3>5. QED BY <1>0, <2>3, <3>2, <3>4, Counted
  <2>6. CASE \E i \in 1..Len(rows) : rows' = RemoveAt(rows, i)
    <3>1. PICK i \in 1..Len(rows) : rows' = RemoveAt(rows, i)
      BY <2>6
    <3>2. Len(rows') = Len(rows) - 1
      <4> HIDE DEF Written
      <4>1. QED BY <1>0, <3>1, RemovedRows
    <3>3. Len(rows') <= Len(rows)
      BY <1>2, <3>2
    <3>4. QED BY <1>0, <2>3, <3>3, Counted
  <2>7. rows' = rows \/ PersistUserMessage(r) \/ \E i \in 1..Len(rows) : rows' = RemoveAt(rows, i)
    <3>1. CASE DeleteMessage(r)
      <4>1. ~PersistUserMessage(r)
        BY <3>1 DEF DeleteMessage, PersistUserMessage, Launch
      <4>2. rows' = rows \/ \E i \in 1..Len(rows) : rows' = RemoveAt(rows, i)
        BY <3>1, <1>4, DeleteRows
      <4>3. QED BY <4>2
    <3>2. QED BY <1>4, <3>1 DEF Start, CreateQueued, Dispatch, FailQueued, CancelQueued, LauncherDies
  <2>8. QED BY <2>4, <2>5, <2>6, <2>7
<1>5. ASSUME NEW r \in Runs, Repair(r) PROVE CountInv'
  <2>1. UNCHANGED <<pc, round, toolTail, launch>>
    BY <1>5 DEF Repair, Sweep, SweepReadsTail, SweepSaves, SweepDies, execVars
  <2>2. \A q \in Runs : sweeper[q] = "over" => sweeper'[q] = "over"
    BY <1>5 DEF Repair, Sweep, SweepReadsTail, SweepSaves, SweepDies, Control
  <2>3. \A q \in Runs : Spent(q) \subseteq Spent(q)'
    BY <1>0, <2>1, <2>2, SpentSame DEF Progress
  <2>4. CASE rows' = rows
    BY <1>0, <1>2, <2>3, <2>4, Counted
  <2>5. CASE SweepSaves(r)
    <3>1. rows' = Append(rows, Row("assistant", Terminator, NoRun)) /\ sweeper[r] = "save" /\ sweeper'[r] = "over"
      BY <2>5 DEF SweepSaves, Save, Row, Control
    <3>2. Row("assistant", Terminator, NoRun) \in Written
      BY DEF Written, Repairs
    <3>3. Len(rows') = Len(rows) + 1
      BY <1>1, <3>1, <3>2
    <3>4. 2 \in 1..(3 + 4 * env.rounds)
      <4>1. env.rounds \in Nat
        BY EnvironmentsAssumption DEF RowsInv
      <4>2. QED BY <4>1
    <3>5. 2 \in Spent(r)' /\ 2 \notin Spent(r)
      BY <1>0, <3>1, <3>4 DEF Spent
    <3>6. QED BY <1>0, <2>3, <3>3, <3>5, Counted
  <2>6. QED BY <1>5, <2>4, <2>5 DEF Repair, Sweep, SweepReadsTail, SweepDies
<1>6. CASE Purge
  <2>1. PICK c \in 0..Len(rows) : rows' = SubSeq(rows, c + 1, Len(rows))
    BY <1>6, PurgePlaces
  <2>2. Len(rows') = Len(rows) - c
    <3> HIDE DEF Written
    <3>1. QED BY <1>0, <2>1, CutRows
  <2>3. Len(rows') <= Len(rows)
    BY <1>2, <2>1, <2>2
  <2>4. \A q \in Runs : Spent(q) \subseteq Spent(q)'
    BY <1>0, <1>6, SpentSame DEF Purge, execVars, Progress
  <2>5. QED BY <1>0, <2>3, <2>4, Counted
<1>7. CASE UNCHANGED vars
  <2>1. \A q \in Runs : Spent(q) \subseteq Spent(q)'
    BY <1>0, <1>7, SpentSame DEF vars, execVars, Progress
  <2>2. QED BY <1>0, <1>2, <1>7, <2>1, Counted DEF vars
<1>8. QED BY <1>3, <1>4, <1>5, <1>6, <1>7 DEF Next

LEMMA WrittenType == ASSUME NEW row \in Written PROVE row.role \in {"user", "assistant"} /\ row.run \in Runs \cup {NoRun}
<1>1. CASE \E r \in Runs : row = PromptRow(r)
  BY <1>1 DEF PromptRow, Row
<1>2. CASE \E r \in Runs, n \in Nat : row = ResultRow(r, n)
  BY <1>2 DEF ResultRow, Row
<1>3. CASE \E r \in Runs : row = Row("user", <<ReadRef(File)>>, r)
  BY <1>3 DEF Row
<1>4. CASE \E r \in Runs : \E b \in OtherBlocks(r) : row = Row("assistant", b, r)
  BY <1>4 DEF Row
<1>5. CASE row = Row("assistant", Terminator, NoRun)
  BY <1>5 DEF Row
<1>6. QED BY <1>1, <1>2, <1>3, <1>4, <1>5, WrittenForm

-----------------------------------------------------------------------------
Bounded == RowsInv /\ Control /\ RoundInv /\ CountInv

LEMMA InitBounded == ASSUME IsFiniteSet(Runs), Init PROVE Bounded
<1>1. RowsInv /\ Control
  BY InitAcceptable DEF Acceptable
<1>2. RoundInv
  <2>1. env.rounds \in Nat
    BY <1>1, EnvironmentsAssumption DEF RowsInv
  <2>2. 0 \in 0..env.rounds
    BY <2>1
  <2>3. NoRound \in [n : 0..env.rounds, kind : env.kinds \cup {"none"}]
    BY <2>2 DEF NoRound
  <2>4. QED BY <2>3 DEF Init, RoundInv, Saving
<1>3. CountInv
  <2>1. Len(rows) = 0
    BY DEF Init
  <2>2. Cardinality(Account) \in Nat
    BY <1>1, AccountFinite
  <2>3. QED BY <2>1, <2>2 DEF CountInv
<1>4. QED BY <1>1, <1>2, <1>3 DEF Bounded

LEMMA NextBounded == ASSUME IsFiniteSet(Runs), Bounded, [Next]_vars PROVE Bounded'
<1>1. RowsInv' /\ Control' /\ RoundInv'
  BY RowsStep, ControlStep, RoundInvStep DEF Bounded
<1>2. CountInv'
  BY <1>1, CountStep DEF Bounded
<1>3. QED BY <1>1, <1>2 DEF Bounded

(* The variables keep their types, and a conversation of finitely many runs *)
(* never holds more rows than a prompt, a terminator from the sweep, four   *)
(* rows a round and one more for each of them.                              *)
THEOREM TypesHold == ASSUME IsFiniteSet(Runs) PROVE Spec => []TypeOK
<1>1. Bounded => TypeOK
  <2> SUFFICES ASSUME Bounded PROVE TypeOK
    OBVIOUS
  <2>1. RowsInv /\ Control /\ RoundInv /\ CountInv
    BY DEF Bounded
  <2>2. \A i \in DOMAIN rows : rows[i].role \in {"user", "assistant"} /\ rows[i].run \in Runs \cup {NoRun}
    <3>1. \A i \in DOMAIN rows : rows[i] \in Written
      <4>1. rows \in Seq(Written)
        BY <2>1 DEF RowsInv
      <4> HIDE DEF Written
      <4>2. QED BY <4>1
    <3>2. QED BY <3>1, WrittenType
  <2>3. Len(rows) <= Cardinality(Runs) * (3 + 4 * env.rounds)
    <3>1. Cardinality(Account) \in Nat /\ Cardinality(Account) <= Cardinality(Runs) * (3 + 4 * env.rounds)
      BY <2>1, AccountFinite
    <3>2. Len(rows) \in Nat
      <4>1. rows \in Seq(Written)
        BY <2>1 DEF RowsInv
      <4> HIDE DEF Written
      <4>2. QED BY <4>1
    <3>3. Cardinality(Runs) \in Nat /\ env.rounds \in Nat
      BY <2>1, FS_CardinalityType, EnvironmentsAssumption DEF RowsInv
    <3>4. PICK N : N = Cardinality(Runs) * (3 + 4 * env.rounds)
      OBVIOUS
    <3>5. N \in Nat
      <4>1. PICK a, b : a = Cardinality(Runs) /\ b = 3 + 4 * env.rounds /\ a \in Nat /\ b \in Nat
        BY <3>3
      <4>2. a * b \in Nat
        BY <4>1
      <4>3. QED BY <3>4, <4>1, <4>2
    <3>6. Cardinality(Account) <= N /\ Len(rows) <= Cardinality(Account)
      BY <2>1, <3>1, <3>4 DEF CountInv
    <3>7. Len(rows) <= N
      BY <3>1, <3>2, <3>5, <3>6
    <3>8. QED BY <3>4, <3>7
  <2>4. env \in Environments
    BY <2>1 DEF RowsInv
  <2>5. QED BY <2>1, <2>2, <2>3, <2>4 DEF TypeOK, Control, RoundInv
<1>2. Spec => []Bounded
  BY InitBounded, NextBounded, PTL DEF Spec
<1>3. QED BY <1>1, <1>2, PTL

-----------------------------------------------------------------------------
(* What a run has in memory, and what it has saved.                         *)

FirstPrompt(s, r, i) == i \in 1..Len(s) /\ IsPromptOf(r, s[i]) /\ \A k \in 1..(i - 1) : ~IsPromptOf(r, s[k])

\* The rows of run r behind the i-th.
OwnAfter(s, r, i) == SelectAt(s, {j \in DOMAIN s : j > i /\ s[j].run = r})

\* i is where the search for the prompt of r ends, or 0.
Searched(s, r, i) == LET I == {k \in 1..Len(s) : IsPromptOf(r, s[k])} IN i = IF I # {} THEN Min(I) ELSE 0

LEMMA FirstPromptIs ==
  ASSUME NEW S, NEW s \in Seq(S), NEW r, NEW i, Searched(s, r, i)
  PROVE  /\ i # 0 => FirstPrompt(s, r, i)
         /\ \A k : FirstPrompt(s, r, k) => i = k
<1>0. PICK I : I = {k \in 1..Len(s) : IsPromptOf(r, s[k])}
  OBVIOUS
<1>1. i = IF I # {} THEN Min(I) ELSE 0
  BY <1>0 DEF Searched
<1>2. I \in SUBSET Nat
  BY <1>0
<1>3. \A k \in I : k \in 1..Len(s) /\ IsPromptOf(r, s[k])
  BY <1>0
<1>4. \A k \in 1..Len(s) : IsPromptOf(r, s[k]) => k \in I
  BY <1>0
<1>5. Len(s) \in Nat
  OBVIOUS
<1>6. ASSUME I # {} PROVE i \in I /\ \A k \in I : i <= k
  <2>1. i = Min(I)
    BY <1>1, <1>6
  <2>2. Min(I) \in I /\ \A k \in I : Min(I) <= k
    BY ONLY <1>2, <1>6, MinFacts
  <2>3. QED BY <2>1, <2>2
<1>7. ASSUME i # 0 PROVE FirstPrompt(s, r, i)
  <2>1. I # {}
    BY <1>1, <1>7
  <2>2. i \in I /\ \A k \in I : i <= k
    BY <1>6, <2>1
  <2>3. \A k \in 1..(i - 1) : k \notin I
    <3>1. i \in Nat
      BY <1>2, <2>2
    <3>2. \A k \in 1..(i - 1) : k < i /\ ~(i <= k)
      BY <3>1
    <3>3. QED BY <2>2, <3>2
  <2>4. \A k \in 1..(i - 1) : k \in 1..Len(s)
    BY <1>3, <1>5, <2>2
  <2>5. QED BY <1>3, <1>4, <2>2, <2>3, <2>4 DEF FirstPrompt
<1>8. ASSUME NEW k, FirstPrompt(s, r, k) PROVE i = k
  <2>1. k \in I /\ k \in Nat /\ \A l \in 1..(k - 1) : ~IsPromptOf(r, s[l])
    BY <1>2, <1>4, <1>8 DEF FirstPrompt
  <2>2. i \in I /\ i <= k /\ i \in Nat /\ i \in 1..Len(s)
    BY <1>2, <1>3, <1>6, <2>1
  <2>3. ~(i \in 1..(k - 1))
    BY <1>3, <2>1, <2>2
  <2>4. QED BY <2>1, <2>2, <2>3
<1>9. QED BY <1>7, <1>8

\* A row more changes neither where a run's prompt is, nor what is before it.
OneMore(t, s, row, r, i) ==
  /\ FirstPrompt(t, r, i) /\ SubSeq(t, 1, i) = SubSeq(s, 1, i)
  /\ OwnAfter(t, r, i) = IF row.run = r THEN Append(OwnAfter(s, r, i), row) ELSE OwnAfter(s, r, i)

LEMMA OwnAppend ==
  ASSUME NEW S, NEW s \in Seq(S), NEW row \in S, NEW t, t = Append(s, row), NEW r, NEW i, FirstPrompt(s, r, i)
  PROVE  OneMore(t, s, row, r, i)
<1>1. /\ DOMAIN t = 1..(Len(s) + 1) /\ DOMAIN s = 1..Len(s) /\ Len(s) \in Nat
      /\ t[Len(s) + 1] = row /\ \A k \in 1..Len(s) : t[k] = s[k]
  BY AppendRows
<1>2. PICK n : n = Len(s) /\ n \in Nat /\ DOMAIN t = 1..(n + 1) /\ Len(t) = n + 1 /\ DOMAIN s = 1..n /\ t[n + 1] = row
               /\ \A k \in 1..n : t[k] = s[k]
  BY <1>1
<1>3. i \in 1..n /\ IsPromptOf(r, s[i]) /\ \A k \in 1..(i - 1) : ~IsPromptOf(r, s[k])
  BY <1>2 DEF FirstPrompt
<1>4. FirstPrompt(t, r, i)
  <2>1. i \in 1..(n + 1) /\ \A k \in 1..(i - 1) : k \in 1..n
    BY <1>2, <1>3
  <2>2. QED BY <1>2, <1>3, <2>1 DEF FirstPrompt
<1>5. SubSeq(t, 1, i) = SubSeq(s, 1, i)
  <2>1. t \in Seq(S) /\ \A k \in 1..i : t[k] = s[k]
    BY <1>2, <1>3
  <2>2. QED BY <1>2, <1>3, <2>1
<1>6. OwnAfter(t, r, i) = IF row.run = r THEN Append(OwnAfter(s, r, i), row) ELSE OwnAfter(s, r, i)
  <2>1. PICK J, K : J = {j \in DOMAIN s : j > i /\ s[j].run = r} /\ K = {j \in DOMAIN t : j > i /\ t[j].run = r}
    OBVIOUS
  <2>2. \A j \in 1..n : j \in J <=> j \in K
    BY <1>2, <2>1
  <2>3. n + 1 \in K <=> row.run = r
    BY <1>2, <1>3, <2>1
  <2>4. SelectAt(Append(s, row), K) = IF n + 1 \in K THEN Append(SelectAt(s, J), row) ELSE SelectAt(s, J)
    <3>1. n = Len(s) /\ \A j \in 1..Len(s) : j \in J <=> j \in K
      BY <1>2, <2>2
    <3>2. SelectAt(Append(s, row), K) = IF Len(s) + 1 \in K THEN Append(SelectAt(s, J), row) ELSE SelectAt(s, J)
      BY ONLY s \in Seq(S), row \in S, <3>1, SelectAtAppend
    <3>3. QED BY <3>1, <3>2
  <2>5. QED BY <2>1, <2>3, <2>4 DEF OwnAfter
<1>7. QED BY <1>4, <1>5, <1>6 DEF OneMore

\* Nothing of a run stands behind its prompt when its prompt is its only row.
LEMMA OwnNothing ==
  ASSUME NEW S, NEW s \in Seq(S), NEW r, NEW i, \A j \in DOMAIN s : s[j].run = r => j = i
  PROVE  OwnAfter(s, r, i) = <<>>
<1>1. PICK J : J = {j \in DOMAIN s : j > i /\ s[j].run = r}
  OBVIOUS
<1>2. J = {}
  <2>1. \A j \in J : j \in Int /\ j > i /\ j = i
    BY <1>1
  <2>2. QED BY <2>1
<1>3. PICK f : Selects(f, S, s, J)
  BY SelectAtSteps
<1>4. SelectAt(s, J) \in Seq(S) /\ ToSet(SelectAt(s, J)) = {}
  BY <1>2, SelectAtFacts
<1>5. QED BY <1>1, <1>4, EmptyToSet DEF OwnAfter

\* Trimming, then fading; fading, then trimming.
LEMMA TrimFades ==
  ASSUME NEW Id, NEW ms \in Seq(Messages(Id)), NEW F, F = MessageFade(Id)
  PROVE  Images(F, TrimToLastCompaction(ms)) = TrimToLastCompaction(Images(F, ms))
<1>1. PICK M : M = Messages(Id)
  OBVIOUS
<1>2. Into(F, M, M) /\ ms \in Seq(M) /\ Opening \in M /\ F[Opening] = Opening
  BY <1>1, MessageFadeType, OpeningIs
<1>3. PICK ns : ns = Images(F, ms)
  OBVIOUS
<1>4. EachOf(ns, F, M, ms)
  BY ONLY <1>2, <1>3, EachFacts
<1>5. PICK n : n = Len(ms) /\ n \in Nat
  BY <1>2
<1>6. ns \in Seq(M) /\ Len(ns) = n /\ \A k \in 1..n : ns[k] = F[ms[k]] /\ ms[k] \in M
  BY <1>2, <1>4, <1>5 DEF EachOf
<1>7. ASSUME NEW k \in 1..n PROVE Compacted(ns[k]) <=> Compacted(ms[k])
  <2>1. PICK m : m = ms[k] /\ m \in Messages(Id) /\ ns[k] = MessageFade(Id)[m]
    BY <1>1, <1>6
  <2>2. FadesTo(ns[k], m)
    BY <2>1, MessageFades
  <2>3. "compaction" \in BlockType \ {"file", "stub"}
    BY DEF BlockType
  <2>4. QED BY <2>1, <2>2, <2>3 DEF FadesTo, Compacted
<1>8. PICK i : i = LastCompactionIndex(ms)
  OBVIOUS
<1>9. LastCompacted(ms, i)
  BY ONLY <1>2, <1>8, LastCompaction
<1>10. LastCompacted(ns, i)
  BY <1>5, <1>6, <1>7, <1>9 DEF LastCompacted
<1>11. TrimToLastCompaction(ms) = IF i = 0 THEN ms ELSE <<Opening>> \o SubSeq(ms, i, n)
  BY ONLY <1>2, <1>5, <1>9, LastIs
<1>12. TrimToLastCompaction(ns) = IF i = 0 THEN ns ELSE <<Opening>> \o SubSeq(ns, i, n)
  <2>1. ns \in Seq(M) /\ n = Len(ns)
    BY <1>6
  <2>2. QED BY ONLY <2>1, <1>10, LastIs
<1>13. CASE i = 0
  BY <1>3, <1>11, <1>12, <1>13
<1>14. CASE i # 0
  <2>1. i \in 1..n
    BY <1>5, <1>9, <1>14 DEF LastCompacted
  <2>2. PICK s : s = SubSeq(ms, i, n)
    OBVIOUS
  <2>3. s \in Seq(M) /\ Len(s) = n - i + 1 /\ \A k \in 1..(n - i + 1) : s[k] = ms[k + i - 1]
    BY <1>2, <1>5, <2>1, <2>2
  <2>4. EachOf(Images(F, s), F, M, s)
    BY ONLY <1>2, <2>3, EachFacts
  <2>5. Images(F, s) = SubSeq(ns, i, n)
    <3>1. PICK h : h = Images(F, s)
      OBVIOUS
    <3>2. PICK l : l = n - i + 1 /\ l \in Nat
      BY <1>5, <2>1
    <3>3. h \in Seq(M) /\ Len(h) = l /\ \A k \in 1..l : h[k] = F[ms[k + i - 1]]
      BY <2>3, <2>4, <3>1, <3>2 DEF EachOf
    <3>4. PICK t : t = SubSeq(ns, i, n)
      OBVIOUS
    <3>5. t \in Seq(M) /\ Len(t) = l /\ \A k \in 1..l : t[k] = ns[k + i - 1]
      BY <1>5, <1>6, <2>1, <3>2, <3>4
    <3>6. \A k \in 1..l : k + i - 1 \in 1..n
      BY <1>5, <2>1, <3>2
    <3>7. \A k \in 1..l : h[k] = t[k]
      BY <1>6, <3>3, <3>5, <3>6
    <3>8. h = t
      BY <3>3, <3>5, <3>7
    <3>9. QED BY <3>1, <3>4, <3>8
  <2>6. PICK o : o = <<Opening>>
    OBVIOUS
  <2>7. o \in Seq(M) /\ Images(F, o) = o
    BY <1>2, <2>6 DEF Images
  <2>8. Images(F, o \o s) = Images(F, o) \o Images(F, s)
    <3>1. Into(F, M, M) /\ o \in Seq(M) /\ s \in Seq(M)
      BY <1>2, <2>3, <2>7
    <3>2. QED BY ONLY <3>1, EachConcat
  <2>9. QED BY <1>3, <1>11, <1>12, <1>14, <2>2, <2>5, <2>6, <2>7, <2>8
<1>15. QED BY <1>13, <1>14

\* A row and the message the run itself keeps of it look the same.
SeenAs(a, x) ==
  /\ a \in Written /\ a \in Stored /\ x \in Clean(BlockId) /\ x.role = a.role
  /\ Seen(BlockId, a) = MessageFade(BlockId)[x] /\ (Compacted(a) <=> Compacted(x))

LEMMA RowSeen ==
  ASSUME NEW role \in {"user", "assistant"}, NEW b \in Seq(BlockSet), NEW run,
         NEW row, row = Row(role, b, run), row \in Stored, row \in Written,
         NEW x, x = Msg(role, b), x \in Clean(BlockId)
  PROVE  SeenAs(row, x)
<1>1. row.role = role /\ row.blocks = b /\ x.role = role /\ x.blocks = b
  BY RowFields DEF Msg
<1>2. IsRow(BlockId, row) /\ ~Has(row, "srvResult")
  BY DEF Stored
<1>3. NoRefs(x)
  BY DEF Clean
<1>4. \A j \in DOMAIN b : ~IsRef(b[j])
  BY <1>1, <1>3 DEF NoRefs, ToSet
<1>5. SwapOf(x, row)
  <2>1. b = [j \in DOMAIN b |-> b[j]]
    OBVIOUS
  <2>2. x = Msg(row.role, x.blocks)
    BY <1>1
  <2>3. QED BY <1>1, <1>4, <2>1, <2>2 DEF SwapOf
<1>6. MessageFade(BlockId)[x] = Seen(BlockId, row)
  BY <1>2, <1>5, SwapFades
<1>7. Compacted(row) <=> Compacted(x)
  BY <1>1 DEF Compacted, Has
<1>8. QED BY <1>1, <1>6, <1>7 DEF SeenAs

\* A round: what is saved of it, and what the run keeps of it.
RoundShown(a, u, x, y) == SeenAs(a, x) /\ SeenAs(u, y) /\ RoundOf(a, u) /\ ~Compacted(u)

LEMMA RoundRows ==
  ASSUME RowsInv, NEW r \in Runs, NEW a, a = Row("assistant", Response(r), r), NEW u, u = Row("user", Results(r), r),
         NEW x, x = Msg("assistant", Response(r)), NEW y, y = Msg("user", Results(r))
  PROVE  RoundShown(a, u, x, y) /\ (Compacted(a) => round[r].kind = "compacts")
<1>1. PICK n : n = round[r].n /\ n \in Nat
  BY DEF RowsInv
<1>2. x \in Clean(BlockId) /\ x.role = "assistant" /\ y \in Clean(BlockId) /\ y.role = "user" /\ UsesOf(x) = ResultsOf(y)
  BY RoundMessages
<1>3. PICK b : b = Response(r)
  OBVIOUS
<1>4. /\ b = <<Block("use", <<r, n>>)>> \/ b = <<Block("compaction", <<>>)>> \o <<Block("use", <<r, n>>)>>
      /\ round[r].kind # "compacts" => b = <<Block("use", <<r, n>>)>>
  <2>1. CASE round[r].kind = "compacts"
    BY <1>1, <1>3, <2>1 DEF Response
  <2>2. CASE round[r].kind # "compacts"
    <3>1. b = <<>> \o <<Block("use", <<r, n>>)>>
      BY <1>1, <1>3, <2>2 DEF Response
    <3>2. <<Block("use", <<r, n>>)>> \in Seq({Block("use", <<r, n>>)})
      OBVIOUS
    <3>3. QED BY <2>2, <3>1, <3>2
  <2>3. QED BY <2>1, <2>2
<1>5. b \in Seq(BlockSet)
  BY <1>1, <1>4, UseStored
<1>6. a \in Written /\ a = Row("assistant", b, r)
  <2>1. b \in OtherBlocks(r)
    BY <1>1, <1>4 DEF OtherBlocks
  <2>2. QED BY <1>3, <2>1, OtherRowWritten
<1>7. PICK c, s : c = Block("result", <<r, n>>) /\ s = <<c>>
  OBVIOUS
<1>8. c \in BlockSet /\ c.type = "result"
  BY <1>1, <1>7, BlockIds, BlockFrom DEF BlockType
<1>9. s \in Seq(BlockSet) /\ ToSet(s) = {c} /\ Results(r) = s
  BY <1>1, <1>7, <1>8, SingleBlock DEF Results
<1>10. u \in Written
  BY <1>1, <1>7, <1>9, ResultRowWritten DEF ResultRow
<1>11. a \in Stored /\ u \in Stored
  BY <1>6, <1>10, WrittenStored
<1>12. SeenAs(a, x)
  BY <1>2, <1>3, <1>5, <1>6, <1>11, RowSeen
<1>13. SeenAs(u, y)
  BY <1>2, <1>9, <1>10, <1>11, RowSeen
<1>14. RoundOf(a, u)
  <2>1. /\ a.role = "assistant" /\ a.blocks = b /\ x.blocks = b
        /\ u.role = "user" /\ u.blocks = s /\ y.blocks = s
    BY <1>3, <1>6, <1>9, RowFields DEF Msg
  <2>2. UsesOf(a) = UsesOf(x) /\ ResultsOf(u) = ResultsOf(y)
    BY <2>1 DEF UsesOf, ResultsOf, Ids
  <2>3. QED BY <1>2, <2>1, <2>2 DEF RoundOf
<1>15. ~Compacted(u)
  BY RowFields DEF Compacted
<1>16. ASSUME Compacted(a) PROVE round[r].kind = "compacts"
  <2>0. \A i : Block("use", i).type = "use"
    BY DEF Block
  <2>1. PICK d : d = Block("use", <<r, n>>) /\ d.type = "use"
    BY <2>0
  <2>2. ToSet(<<d>>) = {d}
    BY SingleBlock
  <2>3. a.blocks = b
    BY <1>6, RowFields
  <2>4. b # <<d>>
    BY <1>16, <2>1, <2>2, <2>3 DEF Compacted, Has
  <2>5. QED BY <1>4, <2>1, <2>4
<1>17. QED BY <1>12, <1>13, <1>14, <1>15, <1>16 DEF RoundShown

LEMMA FileRows ==
  ASSUME NEW r \in Runs, NEW a, a = Row("assistant", <<Filler>>, r), NEW u, u = Row("user", <<ReadRef(File)>>, r),
         NEW x, x = Msg("assistant", <<Filler>>), NEW y, y = Msg("user", <<Block("file", <<File>>)>>)
  PROVE  RoundShown(a, u, x, y)
<1>1. a \in Written
  <2>1. <<Filler>> \in OtherBlocks(r)
    BY DEF OtherBlocks
  <2>2. QED BY <2>1, OtherRowWritten
<1>2. u \in Written
  BY DEF Written, References
<1>3. a \in Stored /\ u \in Stored
  BY <1>1, <1>2, WrittenStored
<1>4. x \in Clean(BlockId) /\ x.role = "assistant" /\ UsesOf(x) = {} /\ x.blocks = <<Filler>>
  BY FillerMessage DEF Msg
<1>5. PICK f : f = <<Filler>>
  OBVIOUS
<1>6. f \in Seq(BlockSet)
  <2>1. Filler \in BlockSet
    BY FillerBlock DEF BlockSet
  <2>2. QED BY <1>5, <2>1
<1>7. SeenAs(a, x)
  BY <1>1, <1>3, <1>4, <1>5, <1>6, RowSeen
<1>8. y \in Clean(BlockId) /\ y.role = "user" /\ ResultsOf(y) = {}
  BY FileMessage
<1>9. PICK c, d : c = ReadRef(File) /\ d = Block("file", <<File>>)
  OBVIOUS
<1>10. c.type = "readRef" /\ c.id = <<File>> /\ d.type = "file"
  BY <1>9 DEF ReadRef, Block
<1>11. u.role = "user" /\ u.blocks = <<c>> /\ y.blocks = <<d>>
  BY <1>9, RowFields DEF Msg
<1>12. SwapOf(y, u)
  <2>1. DOMAIN <<c>> = {1} /\ DOMAIN <<d>> = {1} /\ <<c>>[1] = c /\ <<d>>[1] = d
    OBVIOUS
  <2>2. <<d>> = [j \in DOMAIN <<c>> |-> <<d>>[j]]
    OBVIOUS
  <2>3. IsRef(c) /\ d = Block("file", c.id)
    BY <1>9, <1>10 DEF IsRef
  <2>4. y = Msg(u.role, y.blocks)
    BY <1>9, <1>11
  <2>5. QED BY <1>11, <2>1, <2>2, <2>3, <2>4 DEF SwapOf
<1>13. MessageFade(BlockId)[y] = Seen(BlockId, u)
  <2>1. IsRow(BlockId, u) /\ ~Has(u, "srvResult")
    BY <1>3 DEF Stored
  <2>2. QED BY <1>12, <2>1, SwapFades
<1>14. ~Compacted(u) /\ ~Compacted(y)
  BY <1>8, <1>11 DEF Compacted
<1>15. SeenAs(u, y)
  BY <1>2, <1>3, <1>8, <1>11, <1>13, <1>14 DEF SeenAs
<1>16. RoundOf(a, u)
  <2>1. a.role = "assistant" /\ a.blocks = <<Filler>>
    BY RowFields
  <2>2. UsesOf(a) = {}
    BY <1>4, <2>1 DEF UsesOf, Ids
  <2>3. ToSet(<<c>>) = {c}
    BY SingleBlock
  <2>4. ResultsOf(u) = {}
    BY <1>10, <1>11, <2>3 DEF ResultsOf, Ids
  <2>5. QED BY <1>11, <2>1, <2>2, <2>4 DEF RoundOf
<1>17. QED BY <1>7, <1>14, <1>15, <1>16 DEF RoundShown

\* What a run has in memory is what the rows rs look like.
Matches(rs, ms) == rs \in Seq(Stored) /\ Shown(BlockId, Stored, rs) = Images(MessageFade(BlockId), ms)

LEMMA OwnStored == OwnRows(BlockId, Stored) /\ Opening \in Stored
  BY StoredAreRows DEF OwnRows, Stored, StoredRows, Opening

LEMMA MatchRound ==
  ASSUME NEW rs, NEW ms, Matches(rs, ms), Good(BlockId, ms), NEW a, NEW u, NEW x, NEW y, RoundShown(a, u, x, y)
  PROVE  Matches(Append(Append(rs, a), u), TrimToLastCompaction(Append(Append(ms, x), y)))
<1>1. PICK S, C, M, F : S = Stored /\ C = Clean(BlockId) /\ M = Messages(BlockId) /\ F = MessageFade(BlockId)
  OBVIOUS
<1>2. /\ a \in S /\ u \in S /\ x \in C /\ y \in C /\ RoundOf(a, u)
      /\ Seen(BlockId, a) = F[x] /\ Seen(BlockId, u) = F[y] /\ C \subseteq M
  BY <1>1 DEF RoundShown, SeenAs, Clean
<1>3. rs \in Seq(S) /\ ms \in Seq(C)
  BY <1>1 DEF Matches, Good
<1>4. PICK h : h = Images(F, ms)
  OBVIOUS
<1>5. h = Shown(BlockId, S, rs) /\ h \in Seq(C) /\ Likes(h, ms) /\ ms \in Seq(M)
  BY <1>1, <1>3, <1>4, FadedClean DEF Matches
<1>6. Good(BlockId, h)
  BY <1>1, <1>5, GoodLikes
<1>7. h \in Seq(M) /\ h # <<>> /\ h[Len(h)].role = "user"
  BY <1>2, <1>5, <1>6 DEF Good
<1>8. Shown(BlockId, S, Append(Append(rs, a), u)) = TrimToLastCompaction(Append(Append(h, F[x]), F[y]))
  <2>1. OwnRows(BlockId, S) /\ h \in Seq(Messages(BlockId))
    BY <1>1, <1>7, OwnStored
  <2>2. Shown(BlockId, S, Append(Append(rs, a), u)) = TrimToLastCompaction(Append(Append(h, Seen(BlockId, a)), Seen(BlockId, u)))
    BY ONLY <1>2, <1>3, <1>5, <1>7, <2>1, ShownGrows
  <2>3. QED BY <1>2, <2>2
<1>9. PICK s, t : s = Append(ms, x) /\ t = Append(s, y)
  OBVIOUS
<1>10. s \in Seq(M) /\ t \in Seq(M) /\ x \in M /\ y \in M
  BY <1>2, <1>5, <1>9
<1>11. Into(F, M, M)
  BY <1>1, MessageFadeType
<1>12. Images(F, s) = Append(h, F[x])
  <2>1. Images(F, Append(ms, x)) = Append(Images(F, ms), F[x])
    BY ONLY <1>5, <1>10, <1>11, EachAppend
  <2>2. QED BY <1>4, <1>9, <2>1
<1>13. Images(F, t) = Append(Append(h, F[x]), F[y])
  <2>1. Images(F, Append(s, y)) = Append(Images(F, s), F[y])
    BY ONLY <1>10, <1>11, EachAppend
  <2>2. QED BY <1>9, <1>12, <2>1
<1>14. Images(F, TrimToLastCompaction(t)) = TrimToLastCompaction(Images(F, t))
  BY <1>1, <1>10, TrimFades
<1>15. Append(Append(rs, a), u) \in Seq(S)
  BY <1>2, <1>3
<1>16. QED BY <1>1, <1>8, <1>9, <1>13, <1>14, <1>15 DEF Matches

\* The round that reads a file, then the file.
LEMMA MatchReads ==
  ASSUME NEW rs, NEW ms, Matches(rs, ms), Good(BlockId, ms),
         NEW a, NEW u, NEW x, NEW y, RoundShown(a, u, x, y), NEW b, NEW v, NEW f, NEW g, RoundShown(b, v, f, g),
         ~Compacted(f), UsesOf(x) = ResultsOf(y), UsesOf(f) = ResultsOf(g)
  PROVE  Matches(Append(Append(Append(Append(rs, a), u), b), v),
                 TrimToLastCompaction(Append(Append(Append(Append(ms, x), y), f), g)))
<1>1. PICK rs1, s, t : rs1 = Append(Append(rs, a), u) /\ s = Append(Append(ms, x), y) /\ t = TrimToLastCompaction(s)
  OBVIOUS
<1>2. Matches(rs1, t)
  BY <1>1, MatchRound
<1>3. PICK C : C = Clean(BlockId)
  OBVIOUS
<1>4. /\ x \in C /\ y \in C /\ f \in C /\ g \in C /\ x.role = "assistant" /\ y.role = "user"
      /\ ~Compacted(f) /\ ~Compacted(g) /\ Opening \in C /\ ms \in Seq(C)
  BY <1>3, OpeningIs DEF RoundShown, SeenAs, RoundOf, Good
<1>5. Good(BlockId, s)
  BY <1>1, <1>3, <1>4, GoodExtend
<1>6. Good(BlockId, t)
  BY <1>1, <1>5, GoodTrim
<1>7. Matches(Append(Append(rs1, b), v), TrimToLastCompaction(Append(Append(t, f), g)))
  BY <1>2, <1>6, MatchRound
<1>8. s \in Seq(C) /\ t \in Seq(C)
  BY <1>3, <1>5, <1>6 DEF Good
<1>9. TrimToLastCompaction(Append(Append(s, f), g)) = Append(Append(t, f), g)
  <2>0. Opening \in C /\ s \in Seq(C) /\ f \in C /\ g \in C /\ ~Compacted(g)
    BY <1>4, <1>8
  <2>1. TrimToLastCompaction(Append(Append(s, f), g)) =
          IF Compacted(f) THEN Append(Append(<<Opening>>, f), g) ELSE Append(Append(TrimToLastCompaction(s), f), g)
    BY ONLY <2>0, AppendPair
  <2>2. QED BY <1>1, <1>4, <2>1
<1>10. TrimToLastCompaction(Append(Append(t, f), g)) = Append(Append(t, f), g)
  <2>0. Opening \in C /\ t \in Seq(C) /\ f \in C /\ g \in C /\ ~Compacted(g)
    BY <1>4, <1>8
  <2>1. TrimToLastCompaction(Append(Append(t, f), g)) =
          IF Compacted(f) THEN Append(Append(<<Opening>>, f), g) ELSE Append(Append(TrimToLastCompaction(t), f), g)
    BY ONLY <2>0, AppendPair
  <2>2. Headed(t)
    BY <1>1, <1>4, <1>8, HeadedTrim
  <2>3. TrimToLastCompaction(t) = t
    BY ONLY <1>4, <1>8, <2>2, TrimHeaded
  <2>4. QED BY <1>4, <2>1, <2>3
<1>11. QED BY <1>1, <1>7, <1>9, <1>10

-----------------------------------------------------------------------------
(* The run at work, and its rows.                                           *)

UseRow(r)    == Row("assistant", Response(r), r)
AnswerRow(r) == Row("user", Results(r), r)
MarkerRow(r) == Row("assistant", <<Filler>>, r)
ReadRow(r)   == Row("user", <<ReadRef(File)>>, r)

\* What run r has saved, when done is what it had saved before this round.
Saved(r, done) ==
  IF pc[r] = "saveResult" THEN Append(done, UseRow(r))
  ELSE IF pc[r] = "saveMarker" THEN Append(Append(done, UseRow(r)), AnswerRow(r))
  ELSE IF pc[r] = "saveRef" THEN Append(Append(Append(done, UseRow(r)), AnswerRow(r)), MarkerRow(r))
  ELSE done

MatchedAt(r, i, done) ==
  /\ FirstPrompt(rows, r, i) /\ done \in Seq(Stored) /\ OwnAfter(rows, r, i) = Saved(r, done)
  /\ Matches(SubSeq(rows, 1, i) \o done, mem[r])

Matched(r) == \E i, done : MatchedAt(r, i, done)

Single(s, r) == \A i, k \in DOMAIN s : s[i].run = r /\ s[k].run = r => i = k

MatchInv ==
  /\ \A r \in Runs : pc[r] \in {"none", "load"} => Single(rows, r)
  /\ \A r \in Runs : pc[r] \in {"saveMarker", "saveRef"} => round[r].kind = "reads"
  /\ \A r \in Runs : Writing(r) => Matched(r)

\* The rows of others change nothing for a run.
LEMMA MatchStays ==
  ASSUME RowsInv, NEW r \in Runs, Matched(r), pc'[r] = pc[r], round'[r] = round[r], mem'[r] = mem[r],
         rows' = rows \/ \E row \in Written : row.run # r /\ rows' = Append(rows, row)
  PROVE  Matched(r)'
<1>1. PICK i, done : MatchedAt(r, i, done)
  BY DEF Matched
<1>2. /\ FirstPrompt(rows, r, i) /\ done \in Seq(Stored) /\ OwnAfter(rows, r, i) = Saved(r, done)
      /\ Matches(SubSeq(rows, 1, i) \o done, mem[r])
  BY <1>1 DEF MatchedAt
<1>3. Saved(r, done)' = Saved(r, done)
  BY DEF Saved, UseRow, AnswerRow, MarkerRow, Response, Results
<1>4. FirstPrompt(rows', r, i) /\ SubSeq(rows', 1, i) = SubSeq(rows, 1, i) /\ OwnAfter(rows', r, i) = OwnAfter(rows, r, i)
  <2>1. CASE rows' = rows
    BY <1>2, <2>1
  <2>2. CASE \E row \in Written : row.run # r /\ rows' = Append(rows, row)
    <3>1. PICK row : row \in Written /\ row.run # r /\ rows' = Append(rows, row)
      BY <2>2
    <3>2. rows \in Seq(Written)
      BY DEF RowsInv
    <3>3. PICK t : t = rows'
      OBVIOUS
    <3>4. t = Append(rows, row)
      BY <3>1, <3>3
    <3>5. PICK S, s : S = Written /\ s = rows
      OBVIOUS
    <3>6. s \in Seq(S) /\ row \in S /\ t = Append(s, row) /\ FirstPrompt(s, r, i)
      BY <1>2, <3>1, <3>2, <3>4, <3>5
    <3>7. OneMore(t, s, row, r, i)
      BY ONLY <3>6, OwnAppend
    <3>8. QED BY <3>1, <3>3, <3>5, <3>7 DEF OneMore
  <2>3. QED BY <2>1, <2>2
<1>5. MatchedAt(r, i, done)'
  BY <1>2, <1>3, <1>4 DEF MatchedAt
<1>6. QED BY <1>5 DEF Matched

\* What the run itself saves is added to its rows.
LEMMA OwnSaves ==
  ASSUME RowsInv, NEW r \in Runs, NEW i, FirstPrompt(rows, r, i), NEW row \in Written, row.run = r, rows' = Append(rows, row)
  PROVE  FirstPrompt(rows', r, i) /\ SubSeq(rows', 1, i) = SubSeq(rows, 1, i) /\ OwnAfter(rows', r, i) = Append(OwnAfter(rows, r, i), row)
<1>1. rows \in Seq(Written)
  BY DEF RowsInv
<1>2. PICK t : t = rows' /\ t = Append(rows, row)
  OBVIOUS
<1>3. PICK S, s : S = Written /\ s = rows
  OBVIOUS
<1>4. s \in Seq(S) /\ row \in S /\ t = Append(s, row) /\ FirstPrompt(s, r, i)
  BY <1>1, <1>2, <1>3
<1>5. OneMore(t, s, row, r, i)
  BY ONLY <1>4, OwnAppend
<1>6. QED BY <1>2, <1>3, <1>5 DEF OneMore

\* The turn gets under way.
LEMMA LoadMatches ==
  ASSUME RowsInv, Control, DOMAIN mem = Runs, NEW r \in Runs, Single(rows, r), LoadHistory(r), pc'[r] = "model"
  PROVE  Matched(r)'
<1>1. PICK i : i = SelectInSeq(rows, LAMBDA row : IsPromptOf(r, row))
  OBVIOUS
<1>2. rows \in Seq(Written) /\ rows \in Seq(Stored) /\ rows' = rows
  BY WrittenStored DEF RowsInv, LoadHistory
<1>3. /\ i = 0 => Go(r, "load", "finally")
      /\ i # 0 => mem' = [mem EXCEPT ![r] = History(SubSeq(rows, 1, i), DOMAIN FileSize, FALSE)]
  BY <1>1 DEF LoadHistory
<1>4. i # 0
  BY <1>3 DEF Go, Control
<1>5. FirstPrompt(rows, r, i)
  <2>1. Searched(rows, r, i)
    BY <1>1 DEF SelectInSeq, Searched
  <2>2. PICK S, s : S = Written /\ s = rows
    OBVIOUS
  <2>3. s \in Seq(S) /\ Searched(s, r, i)
    BY <1>2, <2>1, <2>2
  <2>4. i # 0 => FirstPrompt(s, r, i)
    BY ONLY <2>3, FirstPromptIs
  <2>5. QED BY <1>4, <2>2, <2>4
<1>6. i \in DOMAIN rows /\ rows[i].run = r
  BY <1>2, <1>5 DEF FirstPrompt, IsPromptOf
<1>7. OwnAfter(rows, r, i) = <<>>
  <2>1. \A j \in DOMAIN rows : rows[j].run = r => j = i
    BY <1>6 DEF Single
  <2> HIDE DEF Written
  <2>2. QED BY <1>2, <2>1, OwnNothing
<1>8. PICK t : t = SubSeq(rows, 1, i)
  OBVIOUS
<1>9. t \in Seq(Stored) /\ t \o <<>> = t
  <2>1. i \in 1..Len(rows)
    BY <1>5 DEF FirstPrompt
  <2>2. QED BY <1>2, <1>8, <2>1
<1>10. mem'[r] = History(t, DOMAIN FileSize, FALSE)
  BY <1>3, <1>4, <1>8
<1>11. Matches(t, mem'[r])
  <2>1. PICK S : S = Stored
    OBVIOUS
  <2>2. OwnRows(BlockId, S) /\ t \in Seq(S)
    BY <1>9, <2>1, OwnStored
  <2>3. Images(MessageFade(BlockId), History(t, DOMAIN FileSize, FALSE)) = Shown(BlockId, S, t)
    BY ONLY <2>2, HistoryShown
  <2>4. QED BY <1>10, <2>1, <2>2, <2>3 DEF Matches
<1>12. Saved(r, <<>>)' = <<>>
  BY DEF Saved
<1>13. <<>> \in Seq(Stored)
  OBVIOUS
<1>14. MatchedAt(r, i, <<>>)'
  BY <1>2, <1>5, <1>7, <1>8, <1>9, <1>11, <1>12, <1>13 DEF MatchedAt
<1>15. QED BY <1>14 DEF Matched

LEMMA ConcatAppends ==
  ASSUME NEW S, NEW s \in Seq(S), NEW t \in Seq(S), NEW a \in S
  PROVE  s \o Append(t, a) = Append(s \o t, a) /\ Append(t, a) \in Seq(S) /\ s \o t \in Seq(S)
  OBVIOUS

LEMMA ExtendedIs ==
  ASSUME RowsInv, NEW r \in Runs, NEW ms, ms = mem[r], Good(BlockId, ms),
         NEW x, x = Msg("assistant", Response(r)), NEW y, y = Msg("user", Results(r)),
         NEW f, f = Msg("assistant", <<Filler>>), NEW g, g = Msg("user", <<Block("file", <<File>>)>>)
  PROVE  Extended(r) = TrimToLastCompaction(IF round[r].kind = "reads" THEN Append(Append(Append(Append(ms, x), y), f), g)
                                            ELSE Append(Append(ms, x), y))
<1>1. PICK C : C = Clean(BlockId)
  OBVIOUS
<1>2. x \in C /\ y \in C /\ f \in C /\ g \in C /\ ms \in Seq(C)
  BY <1>1, RoundMessages, FillerMessage, FileMessage DEF Good
<1>3. PICK s, t : s = ms \o <<x, y>> /\ t = s \o <<f, g>>
  OBVIOUS
<1>4. s = Append(Append(ms, x), y) /\ s \in Seq(C) /\ s \o <<>> = s
  BY <1>2, <1>3, AppendTwo
<1>5. t = Append(Append(s, f), g)
  <2>1. s \in Seq(C) /\ f \in C /\ g \in C
    BY <1>2, <1>4
  <2>2. s \o <<f, g>> = Append(Append(s, f), g)
    BY ONLY <2>1, AppendTwo
  <2>3. QED BY <1>3, <2>2
<1>6. Extended(r) = TrimToLastCompaction(s \o (IF round[r].kind = "reads" THEN <<f, g>> ELSE <<>>))
  BY <1>3 DEF Extended
<1>7. CASE round[r].kind = "reads"
  BY <1>3, <1>4, <1>5, <1>6, <1>7
<1>8. CASE round[r].kind # "reads"
  BY <1>4, <1>6, <1>8
<1>9. QED BY <1>7, <1>8

LEMMA MatchSaves ==
  ASSUME RowsInv, NEW r \in Runs, NEW i, NEW done, MatchedAt(r, i, done), NEW row \in Written, row.run = r,
         rows' = Append(rows, row), NEW more \in Seq(Stored), Saved(r, more)' = Append(Saved(r, done), row),
         Matches(SubSeq(rows, 1, i) \o more, mem'[r])
  PROVE  Matched(r)'
<1>1. FirstPrompt(rows, r, i) /\ OwnAfter(rows, r, i) = Saved(r, done)
  BY DEF MatchedAt
<1>2. FirstPrompt(rows', r, i) /\ SubSeq(rows', 1, i) = SubSeq(rows, 1, i) /\ OwnAfter(rows', r, i) = Append(OwnAfter(rows, r, i), row)
  BY <1>1, OwnSaves
<1>3. MatchedAt(r, i, more)'
  BY <1>1, <1>2 DEF MatchedAt
<1>4. QED BY <1>3 DEF Matched

\* One of a round's rows that is not its last.
LEMMA MatchPart ==
  ASSUME RowsInv, Control, NEW r \in Runs, MatchInv, Writing(r), SaveUse(r) \/ SaveMarker(r) \/ (SaveResult(r) /\ round[r].kind = "reads")
  PROVE  Matched(r)'
<1>1. PICK i, done : MatchedAt(r, i, done)
  BY DEF MatchInv, Matched
<1>2. done \in Seq(Stored) /\ Matches(SubSeq(rows, 1, i) \o done, mem[r])
  BY <1>1 DEF MatchedAt
<1>3. mem' = mem /\ round' = round
  BY DEF SaveUse, SaveMarker, SaveResult
<1>4. UseRow(r)' = UseRow(r) /\ AnswerRow(r)' = AnswerRow(r) /\ MarkerRow(r)' = MarkerRow(r)
  BY <1>3 DEF UseRow, AnswerRow, MarkerRow, Response, Results
<1>5. CASE SaveUse(r)
  <2>1. pc[r] = "saveUse" /\ pc'[r] = "saveResult" /\ rows' = Append(rows, UseRow(r))
    BY <1>5 DEF SaveUse, Go, Save, UseRow, Row, Control
  <2>2. Saved(r, done)' = Append(Saved(r, done), UseRow(r))
    BY <1>4, <2>1 DEF Saved
  <2>3. UseRow(r) \in Written /\ UseRow(r).run = r
    BY RoundRows, RowFields DEF RoundShown, SeenAs, UseRow
  <2>4. QED BY <1>1, <1>2, <1>3, <2>1, <2>2, <2>3, MatchSaves
<1>6. CASE SaveMarker(r)
  <2>1. pc[r] = "saveMarker" /\ pc'[r] = "saveRef" /\ rows' = Append(rows, MarkerRow(r))
    BY <1>6 DEF SaveMarker, Go, Save, MarkerRow, Row, Control
  <2>2. Saved(r, done)' = Append(Saved(r, done), MarkerRow(r))
    BY <1>4, <2>1 DEF Saved
  <2>3. MarkerRow(r) \in Written /\ MarkerRow(r).run = r
    BY FileRows, RowFields DEF RoundShown, SeenAs, MarkerRow
  <2>4. QED BY <1>1, <1>2, <1>3, <2>1, <2>2, <2>3, MatchSaves
<1>7. CASE SaveResult(r) /\ round[r].kind = "reads"
  <2>1. pc[r] = "saveResult" /\ pc'[r] = "saveMarker" /\ rows' = Append(rows, AnswerRow(r))
    BY <1>7 DEF SaveResult, Go, Save, AnswerRow, Row, Control
  <2>2. Saved(r, done)' = Append(Saved(r, done), AnswerRow(r))
    BY <1>4, <2>1 DEF Saved
  <2>3. AnswerRow(r) \in Written /\ AnswerRow(r).run = r
    BY RoundRows, RowFields DEF RoundShown, SeenAs, AnswerRow
  <2>4. QED BY <1>1, <1>2, <1>3, <2>1, <2>2, <2>3, MatchSaves
<1>8. QED BY <1>5, <1>6, <1>7

\* The last row of a round.
LEMMA MatchWhole ==
  ASSUME RowsInv, Control, DOMAIN mem = Runs, NEW r \in Runs, MatchInv, Writing(r), Good(BlockId, mem[r]),
         SaveRef(r) \/ (SaveResult(r) /\ round[r].kind # "reads")
  PROVE  Matched(r)'
<1>1. PICK i, done : MatchedAt(r, i, done)
  BY DEF MatchInv, Matched
<1>2. done \in Seq(Stored) /\ Matches(SubSeq(rows, 1, i) \o done, mem[r]) /\ FirstPrompt(rows, r, i)
  BY <1>1 DEF MatchedAt
<1>3. PICK base, rs, ms : base = SubSeq(rows, 1, i) /\ rs = base \o done /\ ms = mem[r]
  OBVIOUS
<1>4. PICK a, u, b, v : a = UseRow(r) /\ u = AnswerRow(r) /\ b = MarkerRow(r) /\ v = ReadRow(r)
  OBVIOUS
<1>5. PICK x, y, f, g : /\ x = Msg("assistant", Response(r)) /\ y = Msg("user", Results(r))
                        /\ f = Msg("assistant", <<Filler>>) /\ g = Msg("user", <<Block("file", <<File>>)>>)
  OBVIOUS
<1>6. RoundShown(a, u, x, y) /\ u.run = r
  BY <1>4, <1>5, RoundRows, RowFields DEF UseRow, AnswerRow
<1>7. RoundShown(b, v, f, g) /\ v.run = r
  BY <1>4, <1>5, FileRows, RowFields DEF MarkerRow, ReadRow
<1>8. PICK S : S = Stored
  OBVIOUS
<1>9. a \in S /\ u \in S /\ b \in S /\ v \in S /\ u \in Written /\ v \in Written
  BY <1>6, <1>7, <1>8 DEF RoundShown, SeenAs
<1>10. base \in Seq(S) /\ done \in Seq(S)
  <2>1. rows \in Seq(S)
    BY <1>8, WrittenStored DEF RowsInv
  <2>2. i \in 1..Len(rows)
    BY <1>2 DEF FirstPrompt
  <2>3. QED BY <1>2, <1>3, <1>8, <2>1, <2>2
<1>11. PICK one, two : one = Append(Append(done, a), u) /\ two = Append(Append(one, b), v)
  OBVIOUS
<1>12. base \o one = Append(Append(rs, a), u) /\ one \in Seq(S)
  <2>1. PICK d : d = Append(done, a)
    OBVIOUS
  <2>2. base \o d = Append(base \o done, a) /\ d \in Seq(S)
    BY <1>9, <1>10, <2>1, ConcatAppends
  <2>3. base \o Append(d, u) = Append(base \o d, u) /\ Append(d, u) \in Seq(S)
    BY <1>9, <1>10, <2>2, ConcatAppends
  <2>4. QED BY <1>3, <1>11, <2>1, <2>2, <2>3
<1>13. base \o two = Append(Append(base \o one, b), v) /\ two \in Seq(S)
  <2>1. PICK d : d = Append(one, b)
    OBVIOUS
  <2>2. base \o d = Append(base \o one, b) /\ d \in Seq(S)
    <3>1. base \in Seq(S) /\ one \in Seq(S) /\ b \in S
      BY <1>9, <1>10, <1>12
    <3>2. QED BY ONLY <2>1, <3>1, ConcatAppends
  <2>3. base \o Append(d, v) = Append(base \o d, v) /\ Append(d, v) \in Seq(S)
    <3>1. base \in Seq(S) /\ d \in Seq(S) /\ v \in S
      BY <1>9, <1>10, <2>2
    <3>2. QED BY ONLY <3>1, ConcatAppends
  <2>4. QED BY <1>11, <2>1, <2>2, <2>3
<1>14. Extended(r) = TrimToLastCompaction(IF round[r].kind = "reads" THEN Append(Append(Append(Append(ms, x), y), f), g)
                                          ELSE Append(Append(ms, x), y))
  <2>1. RowsInv /\ r \in Runs /\ ms = mem[r] /\ Good(BlockId, ms)
    BY <1>3
  <2>2. QED BY ONLY <1>5, <2>1, ExtendedIs
<1>15. mem'[r] = Extended(r)
  BY DEF SaveRef, SaveResult, NextCall
<1>16. CASE SaveResult(r) /\ round[r].kind # "reads"
  <2>1. pc[r] = "saveResult" /\ pc'[r] = "model" /\ rows' = Append(rows, u)
    BY <1>4, <1>16 DEF SaveResult, Go, Save, AnswerRow, Row, Control
  <2>2. Saved(r, one)' = Append(Saved(r, done), u)
    BY <1>4, <1>11, <2>1 DEF Saved
  <2>3. Matches(base \o one, mem'[r])
    <3>1. Matches(Append(Append(rs, a), u), TrimToLastCompaction(Append(Append(ms, x), y)))
      BY <1>2, <1>3, <1>6, MatchRound
    <3>2. QED BY <1>12, <1>14, <1>15, <1>16, <3>1
  <2>4. QED BY <1>1, <1>3, <1>6, <1>8, <1>9, <1>12, <2>1, <2>2, <2>3, MatchSaves
<1>17. CASE SaveRef(r)
  <2>1. pc[r] = "saveRef" /\ pc'[r] = "model" /\ rows' = Append(rows, v) /\ round[r].kind = "reads"
    BY <1>4, <1>17 DEF SaveRef, Go, Save, ReadRow, Row, Control, MatchInv
  <2>2. Saved(r, two)' = Append(Saved(r, done), v)
    BY <1>4, <1>11, <2>1 DEF Saved
  <2>3. Matches(base \o two, mem'[r])
    <3>1. ~Compacted(f) /\ UsesOf(x) = ResultsOf(y) /\ UsesOf(f) = ResultsOf(g)
      <4>1. UsesOf(x) = ResultsOf(y)
        BY <1>5, RoundMessages
      <4>2. UsesOf(f) = {} /\ ResultsOf(g) = {}
        BY <1>5, FillerMessage, FileMessage
      <4>3. f.blocks = <<Filler>>
        BY <1>5 DEF Msg
      <4>4. ToSet(<<Filler>>) = {Filler} /\ Filler.type = "filler"
        BY SingleBlock, FillerBlock
      <4>5. ~Compacted(f)
        BY <4>3, <4>4 DEF Compacted, Has
      <4>6. QED BY <4>1, <4>2, <4>5
    <3>2. Matches(Append(Append(Append(Append(rs, a), u), b), v),
                  TrimToLastCompaction(Append(Append(Append(Append(ms, x), y), f), g)))
      BY <1>2, <1>3, <1>6, <1>7, <3>1, MatchReads
    <3>3. QED BY <1>12, <1>13, <1>14, <1>15, <2>1, <3>2
  <2>4. QED BY <1>1, <1>3, <1>7, <1>8, <1>9, <1>13, <2>1, <2>2, <2>3, MatchSaves
<1>18. QED BY <1>16, <1>17

\* The model asks for tools: the round begins.
LEMMA MatchCall == ASSUME Control, NEW r \in Runs, Matched(r), CallTools(r) PROVE Matched(r)'
<1>1. PICK i, done : MatchedAt(r, i, done)
  BY DEF Matched
<1>2. rows' = rows /\ mem' = mem /\ pc[r] = "model" /\ pc'[r] = "saveUse"
  BY DEF CallTools, Go, Control
<1>3. Saved(r, done)' = done /\ Saved(r, done) = done
  BY <1>2 DEF Saved
<1>4. MatchedAt(r, i, done)'
  BY <1>1, <1>2, <1>3 DEF MatchedAt
<1>5. QED BY <1>4 DEF Matched

\* A step of a run leaves the others alone.
LEMMA ExecuteAlone ==
  ASSUME RowsInv, Control, DOMAIN mem = Runs, NEW r \in Runs, Execute(r), NEW q \in Runs, q # r
  PROVE  pc'[q] = pc[q] /\ round'[q] = round[q] /\ mem'[q] = mem[q]
<1>1. pc'[q] = pc[q]
  BY ExecuteMoves
<1>2. round' = round \/ \E x : round' = [round EXCEPT ![r] = x]
  BY DEF Execute, Claim, LoadHistory, Stop, LeaseLost, ModelFails, Answer, CallTools, SaveUse, SaveResult, SaveMarker,
         SaveRef, RoundFails, Terminate, Finish, ExecutorDies, Leave
<1>3. mem' = mem \/ \E x : mem' = [mem EXCEPT ![r] = x]
  BY DEF Execute, Claim, LoadHistory, Stop, LeaseLost, ModelFails, Answer, CallTools, SaveUse, SaveResult, SaveMarker,
         SaveRef, RoundFails, Terminate, Finish, ExecutorDies, Leave, NextCall
<1>4. QED BY <1>1, <1>2, <1>3 DEF RowsInv

\* Where the steps of a run lead it.
LEMMA ExecuteLeads ==
  ASSUME Control, NEW r \in Runs, Execute(r)
  PROVE  /\ pc'[r] \in {"none", "load"} => Claim(r)
         /\ Writing(r)' => \/ LoadHistory(r) /\ pc'[r] = "model"
                           \/ CallTools(r) \/ SaveUse(r) \/ SaveResult(r) \/ SaveMarker(r) \/ SaveRef(r)
<1>1. CASE Claim(r)
  BY <1>1 DEF Claim, Go, Control, Writing, Saving
<1>2. CASE LoadHistory(r)
  <2>1. pc[r] = "load" /\ (pc' = [pc EXCEPT ![r] = "model"] \/ pc' = [pc EXCEPT ![r] = "finally"])
    BY <1>2 DEF LoadHistory, Go
  <2>2. QED BY <1>2, <2>1 DEF Control, Writing, Saving
<1>3. CASE CallTools(r) \/ SaveUse(r) \/ SaveResult(r) \/ SaveMarker(r) \/ SaveRef(r)
  <2>1. \E p \in {"model"} \cup Saving : pc' = [pc EXCEPT ![r] = p]
    BY <1>3 DEF CallTools, SaveUse, SaveResult, SaveMarker, SaveRef, Go, Saving
  <2>2. pc'[r] \notin {"none", "load"}
    BY <2>1 DEF Control, Saving
  <2>3. QED BY <1>3, <2>2
<1>4. CASE LeaseLost(r) \/ ModelFails(r) \/ Stop(r) \/ Answer(r) \/ RoundFails(r) \/ Terminate(r) \/ Finish(r) \/ ExecutorDies(r)
  <2>1. \E p \in {"finally", "finish", "over"} : pc' = [pc EXCEPT ![r] = p]
    BY <1>4 DEF LeaseLost, ModelFails, Stop, Answer, RoundFails, Terminate, Finish, ExecutorDies, Go, Leave
  <2>2. QED BY <2>1 DEF Control, Writing, Saving
<1>5. QED BY <1>1, <1>2, <1>3, <1>4 DEF Execute

LEMMA MatchExecute ==
  ASSUME RowsInv, Control, DOMAIN mem = Runs, MatchInv, MemInv, NEW r \in Runs, Execute(r)
  PROVE  /\ Writing(r)' => Matched(r)'
         /\ pc'[r] \in {"saveMarker", "saveRef"} => round'[r].kind = "reads"
<1>1. Writing(r) => Matched(r) /\ Good(BlockId, mem[r])
  BY DEF MatchInv, MemInv
<1>2. SUFFICES ASSUME Writing(r)' PROVE Matched(r)' /\ (pc'[r] \in {"saveMarker", "saveRef"} => round'[r].kind = "reads")
  BY DEF Writing, Saving
<1>3. CASE LoadHistory(r) /\ pc'[r] = "model"
  <2>1. Single(rows, r)
    BY <1>3 DEF LoadHistory, Go, MatchInv
  <2>2. QED BY <1>3, <2>1, LoadMatches
<1>4. CASE CallTools(r)
  <2>1. pc[r] = "model" /\ pc'[r] = "saveUse" /\ Writing(r)
    BY <1>4 DEF CallTools, Go, Control, Writing
  <2>2. QED BY <1>1, <1>4, <2>1, MatchCall
<1>5. CASE SaveUse(r) \/ SaveMarker(r)
  <2>1. Writing(r) /\ round' = round
    BY <1>5 DEF SaveUse, SaveMarker, Go, Writing, Saving
  <2>2. pc'[r] = "saveResult" \/ (pc[r] = "saveMarker" /\ pc'[r] = "saveRef")
    BY <1>5 DEF SaveUse, SaveMarker, Go, Control
  <2>3. QED BY <1>5, <2>1, <2>2, MatchPart DEF MatchInv
<1>6. CASE SaveResult(r)
  <2>1. Writing(r) /\ round' = round
    BY <1>6 DEF SaveResult, Go, Writing, Saving
  <2>2. round[r].kind # "reads" => pc'[r] = "model"
    BY <1>6 DEF SaveResult, Go, Control
  <2>3. CASE round[r].kind = "reads"
    BY <1>6, <2>1, <2>3, MatchPart
  <2>4. CASE round[r].kind # "reads"
    BY <1>1, <1>6, <2>1, <2>2, <2>4, MatchWhole
  <2>5. QED BY <2>3, <2>4
<1>7. CASE SaveRef(r)
  <2>1. Writing(r) /\ pc'[r] = "model"
    BY <1>7 DEF SaveRef, Go, Writing, Saving, Control
  <2>2. QED BY <1>1, <1>7, <2>1, MatchWhole
<1>8. QED BY <1>2, <1>3, <1>4, <1>5, <1>6, <1>7, ExecuteLeads

LEMMA SingleAppend ==
  ASSUME NEW S, NEW s \in Seq(S), NEW row \in S, NEW t, t = Append(s, row), NEW r,
         (row.run # r /\ Single(s, r)) \/ (\A i \in DOMAIN s : s[i].run # r)
  PROVE  Single(t, r)
<1>1. /\ DOMAIN t = 1..(Len(s) + 1) /\ DOMAIN s = 1..Len(s) /\ Len(s) \in Nat
      /\ t[Len(s) + 1] = row /\ \A i \in 1..Len(s) : t[i] = s[i]
  BY AppendRows
<1>2. \A i \in DOMAIN t : i = Len(s) + 1 \/ (i \in DOMAIN s /\ t[i] = s[i])
  BY <1>1
<1>3. QED BY <1>1, <1>2 DEF Single

\* A run has saved nothing but its prompt when it loads its history, and nothing before it is launched.
LEMMA SingleStep ==
  ASSUME RowsInv, PhaseInv, TurnInv, Control, MatchInv, ~env.purges, [Next]_vars, NEW q \in Runs, pc'[q] \in {"none", "load"}
  PROVE  Single(rows', q)
<1>1. rows \in Seq(Written)
  BY DEF RowsInv
<1>2. ASSUME pc[q] \in {"none", "load"} PROVE Single(rows, q)
  BY <1>2 DEF MatchInv
<1>3. ASSUME NEW row \in Written, rows' = Append(rows, row),
             (row.run # q /\ Single(rows, q)) \/ (\A i \in DOMAIN rows : rows[i].run # q)
      PROVE  Single(rows', q)
  <2>1. PICK S, s, t : S = Written /\ s = rows /\ t = rows'
    OBVIOUS
  <2>2. s \in Seq(S) /\ row \in S /\ t = Append(s, row) /\ ((row.run # q /\ Single(s, q)) \/ (\A i \in DOMAIN s : s[i].run # q))
    BY <1>1, <1>3, <2>1
  <2>3. Single(t, q)
    BY ONLY <2>2, SingleAppend
  <2>4. QED BY <2>1, <2>3
<1>4. ASSUME NEW r \in Runs, Execute(r) PROVE Single(rows', q)
  <2>1. CASE q = r
    <3>1. Claim(r)
      BY <1>4, <2>1, ExecuteLeads
    <3>2. rows' = rows /\ pc[r] = "none"
      BY <3>1 DEF Claim, Go
    <3>3. QED BY <1>2, <2>1, <3>2
  <2>2. CASE q # r
    <3>1. pc[q] \in {"none", "load"}
      BY <1>4, <2>2, ExecuteMoves
    <3>2. CASE rows' = rows
      BY <1>2, <3>1, <3>2
    <3>3. CASE \E row \in Written : row.run = r /\ rows' = Append(rows, row)
      BY <1>2, <1>3, <2>2, <3>1, <3>3
    <3>4. QED BY <1>4, <3>2, <3>3, ExecuteAppends DEF Appends
  <2>3. QED BY <2>1, <2>2
<1>5. ASSUME NEW r \in Runs, Start(r) PROVE Single(rows', q)
  <2>1. pc[q] \in {"none", "load"}
    BY <1>5 DEF Start, CreateQueued, PersistUserMessage, Dispatch, FailQueued, DeleteMessage, CancelQueued, LauncherDies, execVars
  <2>2. CASE rows' = rows
    BY <1>2, <2>1, <2>2
  <2>3. CASE launch[r] = "persist" /\ rows' = Append(rows, PromptRow(r))
    <3>1. PromptRow(r) \in Written /\ PromptRow(r).run = r
      BY PromptRowLoose
    <3>2. \A i \in DOMAIN rows : rows[i].run # r
      BY <2>3 DEF TurnInv
    <3>3. QED BY <1>2, <1>3, <2>1, <2>3, <3>1, <3>2
  <2>4. QED BY <1>5, <2>2, <2>3, StartAppends
<1>6. ASSUME NEW r \in Runs, Repair(r) PROVE Single(rows', q)
  <2>1. pc[q] \in {"none", "load"}
    BY <1>6 DEF Repair, Sweep, SweepReadsTail, SweepSaves, SweepDies, execVars
  <2>2. PICK row : row = Row("assistant", Terminator, NoRun)
    OBVIOUS
  <2>3. row \in Written /\ row.run # q
    BY <2>2, RunsAssumption DEF Row, Written, Repairs
  <2>4. rows' = rows \/ rows' = Append(rows, row)
    BY <1>6, <2>2, RepairAppends
  <2>5. QED BY <1>2, <1>3, <2>1, <2>3, <2>4
<1>7. CASE Purge
  BY <1>7 DEF Purge
<1>8. CASE UNCHANGED vars
  BY <1>2, <1>8 DEF vars, execVars
<1>9. QED BY <1>4, <1>5, <1>6, <1>7, <1>8 DEF Next

LEMMA MatchStep ==
  ASSUME RowsInv, PhaseInv, TurnInv, Control, DOMAIN mem = Runs, MemInv, MatchInv, ~env.purges, [Next]_vars
  PROVE  MatchInv'
<1> SUFFICES ASSUME NEW q \in Runs
             PROVE  /\ Writing(q)' => Matched(q)'
                    /\ pc'[q] \in {"saveMarker", "saveRef"} => round'[q].kind = "reads"
  BY SingleStep DEF MatchInv
<1>1. ASSUME pc'[q] = pc[q], round'[q] = round[q], mem'[q] = mem[q],
             Writing(q) => rows' = rows \/ \E row \in Written : row.run # q /\ rows' = Append(rows, row)
      PROVE  (Writing(q)' => Matched(q)') /\ (pc'[q] \in {"saveMarker", "saveRef"} => round'[q].kind = "reads")
  <2>1. Writing(q)' => Writing(q)
    BY <1>1 DEF Writing
  <2>2. Writing(q) => Matched(q)
    BY DEF MatchInv
  <2>3. Writing(q)' => Matched(q)'
    BY <1>1, <2>1, <2>2, MatchStays
  <2>4. QED BY <1>1, <2>3 DEF MatchInv
<1>2. ASSUME NEW r \in Runs, Execute(r)
      PROVE  (Writing(q)' => Matched(q)') /\ (pc'[q] \in {"saveMarker", "saveRef"} => round'[q].kind = "reads")
  <2>1. CASE q = r
    BY <1>2, <2>1, MatchExecute
  <2>2. CASE q # r
    <3>1. pc'[q] = pc[q] /\ round'[q] = round[q] /\ mem'[q] = mem[q]
      BY <1>2, <2>2, ExecuteAlone
    <3>2. rows' = rows \/ \E row \in Written : row.run = r /\ rows' = Append(rows, row)
      BY <1>2, ExecuteAppends DEF Appends
    <3>3. QED BY <1>1, <2>2, <3>1, <3>2
  <2>3. QED BY <2>1, <2>2
<1>3. ASSUME NEW r \in Runs, Start(r)
      PROVE  (Writing(q)' => Matched(q)') /\ (pc'[q] \in {"saveMarker", "saveRef"} => round'[q].kind = "reads")
  <2>1. UNCHANGED <<pc, mem, round>>
    BY <1>3 DEF Start, CreateQueued, PersistUserMessage, Dispatch, FailQueued, DeleteMessage, CancelQueued, LauncherDies, execVars
  <2>2. CASE rows' = rows
    BY <1>1, <2>1, <2>2
  <2>3. CASE launch[r] = "persist" /\ rows' = Append(rows, PromptRow(r))
    <3>1. PromptRow(r) \in Written /\ PromptRow(r).run = r
      BY PromptRowLoose
    <3>2. pc[r] = "none"
      BY <2>3 DEF PhaseInv
    <3>3. Writing(q) => q # r
      BY <3>2 DEF Writing, Saving
    <3>4. QED BY <1>1, <2>1, <2>3, <3>1, <3>3
  <2>4. QED BY <1>3, <2>2, <2>3, StartAppends
<1>4. ASSUME NEW r \in Runs, Repair(r)
      PROVE  (Writing(q)' => Matched(q)') /\ (pc'[q] \in {"saveMarker", "saveRef"} => round'[q].kind = "reads")
  <2>1. UNCHANGED <<pc, mem, round>>
    BY <1>4 DEF Repair, Sweep, SweepReadsTail, SweepSaves, SweepDies, execVars
  <2>2. PICK row : row = Row("assistant", Terminator, NoRun)
    OBVIOUS
  <2>3. row \in Written /\ row.run # q
    BY <2>2, RunsAssumption DEF Row, Written, Repairs
  <2>4. rows' = rows \/ rows' = Append(rows, row)
    BY <1>4, <2>2, RepairAppends
  <2>5. QED BY <1>1, <2>1, <2>3, <2>4
<1>5. CASE Purge
  BY <1>5 DEF Purge
<1>6. CASE UNCHANGED vars
  BY <1>1, <1>6 DEF vars, execVars
<1>7. QED BY <1>2, <1>3, <1>4, <1>5, <1>6 DEF Next

\* No start is taken back, and a sweep saves behind a result.
LEMMA LossStep == ASSUME PhaseInv, RootInv, ~lost, ~env.purges, [Next]_vars PROVE ~lost'
<1>1. ASSUME NEW r \in Runs, Start(r) PROVE ~lost'
  <2>1. ~DeleteMessage(r)
    BY DEF PhaseInv, DeleteMessage, Launch
  <2>2. QED BY <1>1, <2>1 DEF Start, CreateQueued, PersistUserMessage, Dispatch, FailQueued, CancelQueued, LauncherDies
<1>2. ASSUME NEW r \in Runs, Execute(r) PROVE ~lost'
  BY <1>2 DEF Execute, Claim, LoadHistory, Stop, LeaseLost, ModelFails, Answer, CallTools, SaveUse, SaveResult, SaveMarker,
         SaveRef, RoundFails, Terminate, Finish, ExecutorDies
<1>3. ASSUME NEW r \in Runs, Repair(r) PROVE ~lost'
  <2>1. CASE SweepSaves(r)
    <3>1. HasResult(rows)
      BY <2>1 DEF SweepSaves, RootInv
    <3>2. rows # <<>>
      BY <3>1 DEF HasResult
    <3>3. QED BY <2>1, <3>2 DEF SweepSaves
  <2>2. QED BY <1>3, <2>1 DEF Repair, Sweep, SweepReadsTail, SweepDies
<1>4. CASE Purge \/ UNCHANGED vars
  BY <1>4 DEF Purge, vars
<1>5. QED BY <1>1, <1>2, <1>3, <1>4 DEF Next

\* Where no process is swept alive, no start fails and nothing is purged.
Matching == Orderly /\ ~env.purges => ~lost /\ MatchInv

LEMMA InitMatching == Init => Matching
  BY DEF Init, Matching, MatchInv, Single, Writing, Saving

LEMMA NextMatching == Inv /\ Acceptable /\ Matching /\ [Next]_vars => Matching'
<1> SUFFICES ASSUME Inv, Acceptable, Matching, [Next]_vars, (Orderly /\ ~env.purges)' PROVE ~lost' /\ MatchInv'
  BY DEF Matching
<1>1. Orderly /\ ~env.purges
  BY EnvStays DEF Orderly
<1>2. RowsInv /\ PhaseInv /\ TurnInv /\ ~lost /\ MatchInv /\ Control /\ DOMAIN mem = Runs /\ Sound
  BY <1>1 DEF Inv, Matching, Acceptable
<1>3. RootInv /\ MemInv
  BY <1>1, <1>2 DEF Sound
<1>4. QED BY <1>1, <1>2, <1>3, LossStep, MatchStep

\* Fading, as the property has it.
LEMMA FadedIs ==
  ASSUME NEW Id, NEW ms \in Seq(Messages(Id))
  PROVE  [i \in DOMAIN ms |-> Msg(ms[i].role,
            [j \in DOMAIN ms[i].blocks |-> IF ms[i].blocks[j].type = "file" THEN Block("stub", ms[i].blocks[j].id)
                                           ELSE ms[i].blocks[j]])] = Images(MessageFade(Id), ms)
<1>1. ASSUME NEW k \in DOMAIN ms
      PROVE  MessageFade(Id)[ms[k]] = Msg(ms[k].role,
               [j \in DOMAIN ms[k].blocks |-> IF ms[k].blocks[j].type = "file" THEN Block("stub", ms[k].blocks[j].id)
                                              ELSE ms[k].blocks[j]])
  <2>1. PICK m, n : m = ms[k] /\ m \in Messages(Id) /\ n = MessageFade(Id)[m]
    OBVIOUS
  <2>2. n = Msg(m.role, Images(BlockFade(Id), m.blocks))
    BY <2>1, MessageFades
  <2>3. \A j \in DOMAIN m.blocks : m.blocks[j] \in Blocks(Id)
    BY <2>1 DEF Messages
  <2>4. Images(BlockFade(Id), m.blocks) = [j \in DOMAIN m.blocks |-> IF m.blocks[j].type = "file" THEN Block("stub", m.blocks[j].id)
                                                                  ELSE m.blocks[j]]
    BY <2>3 DEF Images, BlockFade
  <2>5. QED BY <2>1, <2>2, <2>4
<1>2. QED BY <1>1 DEF Images

(* What a run sends does not drift from what it saves: whatever its rounds  *)
(* read or compact, and whoever dies or is swept meanwhile.                 *)
THEOREM MemoryFollowsRows == Spec => []MemoryMatchesRows
<1>1. RowsInv /\ Acceptable /\ Matching => MemoryMatchesRows
  <2> DEFINE Faded(ms) == [i \in DOMAIN ms |-> Msg(ms[i].role,
                             [j \in DOMAIN ms[i].blocks |->
                                IF ms[i].blocks[j].type = "file" THEN Block("stub", ms[i].blocks[j].id)
                                ELSE ms[i].blocks[j]])]
  <2> SUFFICES ASSUME RowsInv, Acceptable, Matching, NEW r \in Runs, pc[r] = "model", Orderly, ~env.purges
               PROVE  LET i   == SelectInSeq(rows, LAMBDA row : IsPromptOf(r, row))
                          own == SelectAt(rows, {j \in DOMAIN rows : j > i /\ rows[j].run = r})
                      IN Faded(History(SubSeq(rows, 1, i) \o own, {}, FALSE)) = Faded(mem[r])
    BY DEF MemoryMatchesRows
  <2>0. PICK k, own : k = SelectInSeq(rows, LAMBDA row : IsPromptOf(r, row))
                      /\ own = SelectAt(rows, {j \in DOMAIN rows : j > k /\ rows[j].run = r})
    OBVIOUS
  <2>1. Matched(r) /\ Good(BlockId, mem[r])
    BY DEF Matching, MatchInv, Writing, Acceptable, Sound, MemInv, Orderly
  <2>2. PICK i, done : MatchedAt(r, i, done)
    BY <2>1 DEF Matched
  <2>3. FirstPrompt(rows, r, i) /\ OwnAfter(rows, r, i) = done /\ Matches(SubSeq(rows, 1, i) \o done, mem[r])
    BY <2>2 DEF MatchedAt, Saved
  <2>4. k = i
    <3>1. Searched(rows, r, k)
      BY <2>0 DEF SelectInSeq, Searched
    <3>2. PICK S, s : S = Written /\ s = rows
      OBVIOUS
    <3>3. s \in Seq(S) /\ Searched(s, r, k) /\ FirstPrompt(s, r, i)
      BY <2>3, <3>1, <3>2 DEF RowsInv
    <3>4. QED BY ONLY <3>3, FirstPromptIs
  <2>5. own = done
    BY <2>0, <2>3, <2>4 DEF OwnAfter
  <2>6. PICK rs, h : rs = SubSeq(rows, 1, i) \o done /\ h = History(rs, {}, FALSE)
    OBVIOUS
  <2>7. Images(MessageFade(BlockId), h) = Images(MessageFade(BlockId), mem[r]) /\ h \in Seq(Messages(BlockId))
    <3>1. PICK S, none : S = Stored /\ none = {}
      OBVIOUS
    <3>2. OwnRows(BlockId, S) /\ rs \in Seq(S) /\ Shown(BlockId, S, rs) = Images(MessageFade(BlockId), mem[r])
      BY <2>3, <2>6, <3>1, OwnStored DEF Matches
    <3>3. /\ Images(MessageFade(BlockId), History(rs, none, FALSE)) = Shown(BlockId, S, rs)
          /\ History(rs, none, FALSE) \in Seq(Messages(BlockId))
      BY ONLY <3>2, HistoryShown
    <3>4. QED BY <2>6, <3>1, <3>2, <3>3
  <2>8. PICK ms : ms = mem[r] /\ ms \in Seq(Messages(BlockId))
    BY <2>1, FadedClean DEF Good
  <2>9. Faded(h) = Images(MessageFade(BlockId), h) /\ Faded(ms) = Images(MessageFade(BlockId), ms)
    BY <2>7, <2>8, FadedIs
  <2> HIDE DEF Faded
  <2>10. Faded(History(SubSeq(rows, 1, k) \o own, {}, FALSE)) = Faded(mem[r])
    BY <2>4, <2>5, <2>6, <2>7, <2>8, <2>9
  <2>11. QED BY <2>0, <2>10
<1>2. Acceptable => RowsInv
  BY DEF Acceptable
<1>3. QED BY <1>1, <1>2, InitMatching, NextMatching, InitAcceptable, NextAcceptable, InitInv, NextInv, PTL DEF Spec
=============================================================================
