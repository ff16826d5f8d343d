--------------------------- MODULE HistoryPipeline ---------------------------
(***************************************************************************)
(* From stored rows to a model request: the pure functions runTurn applies  *)
(* to the messages of a conversation before it calls the API. A message is  *)
(* a role and a sequence of blocks; a block is its type and an id: the      *)
(* tool_use_id of a use or a result, the file of a reference, whatever      *)
(* tells two texts apart. Contents, cache marks and titles are left out.    *)
(***************************************************************************)
EXTENDS Integers, SequencesExt

CONSTANTS FileSize,      \* bytes (or pages) of each data-room file
          FileBudget,    \* REHYDRATE_MAX_BYTES (or the page budget)
          WindowPrompts, \* FILE_WINDOW_PROMPTS
          Compacts       \* the model accepts compaction blocks

ASSUME FileAssumption   == FileBudget \in Nat /\ \A f \in DOMAIN FileSize : FileSize[f] \in Nat
ASSUME WindowAssumption == WindowPrompts \in Nat
ASSUME ModelAssumption  == Compacts \in BOOLEAN

Block(type, id)   == [type |-> type, id |-> id]
Msg(role, blocks) == [role |-> role, blocks |-> blocks]
Filler            == Block("filler", <<>>)   \* a synthetic text
ReadRef(f)        == Block("readRef", <<f>>)
UploadRef(f)      == Block("uploadRef", <<f>>)

Ids(m, type)  == {b.id : b \in {c \in ToSet(m.blocks) : c.type = type}}
Has(m, type)  == \E b \in ToSet(m.blocks) : b.type = type
Only(m, type) == \A b \in ToSet(m.blocks) : b.type = type

\* The elements of s at the positions in J, in order.
SelectAt(s, J) ==
  LET taken[i \in 0..Len(s)] ==
        IF i = 0 THEN <<>>
        ELSE IF i \in J THEN Append(taken[i - 1], s[i]) ELSE taken[i - 1]
  IN taken[Len(s)]

-----------------------------------------------------------------------------
(* A compaction block with a summary hides all that precedes it; one with  *)
(* null content ("nullCompaction") is a failed compaction and hides nothing. *)

LastCompactionIndex(ms) == SelectLastInSeq(ms, LAMBDA m : m.role = "assistant" /\ Has(m, "compaction"))

TrimFrom_Next(i) == i + 1
TrimFrom(i) == i

TrimToLastCompaction(ms) ==
  LET i == LastCompactionIndex(ms)
  IN IF i = 0 THEN ms ELSE <<Msg("user", <<Filler>>)>> \o SubSeq(ms, TrimFrom(i), Len(ms))

-----------------------------------------------------------------------------
(* Data-room references: only the last one of a file counts, for so many   *)
(* prompts, the newest first while the budget lasts. The others become     *)
(* short texts ("stub"), and so does a file that cannot be read.           *)

IsRef(b) == b.type \in {"readRef", "uploadRef"}

IsPrompt(m) == m.role = "user" /\ m.blocks # <<>> /\ ~Only(m, "result") /\ ~Only(m, "readRef")

PromptsAfter(ms, row) == {p \in DOMAIN ms : p > row /\ IsPrompt(ms[p])}

RefPositions(ms) ==
  UNION {{<<row, col>> : col \in {c \in DOMAIN ms[row].blocks : IsRef(ms[row].blocks[c])}} :
           row \in {r \in DOMAIN ms : ms[r].role = "user"}}

Before(p, q) == p[1] < q[1] \/ (p[1] = q[1] /\ p[2] < q[2])
FileAt(ms, p) == ms[p[1]].blocks[p[2]].id[1]

LastRefs(ms) ==
  LET refs == RefPositions(ms)
  IN {p \in refs : \A q \in refs : FileAt(ms, q) = FileAt(ms, p) => ~Before(p, q)}

FitsBudget_Alone(used, size) == size <= FileBudget
FitsBudget(used, size) == used + size <= FileBudget

\* The references to load: the newest first, skipping what does not fit.
RefsToLoad(ms) ==
  LET inWindow == {p \in LastRefs(ms) : Cardinality(PromptsAfter(ms, p[1])) < WindowPrompts}
      n        == Cardinality(inWindow)
      newestFirst == CHOOSE s \in [1..n -> inWindow] : \A i, j \in 1..n : i < j => Before(s[j], s[i])
      taken[k \in 0..n] ==
        IF k = 0 THEN [used |-> 0, load |-> {}]
        ELSE LET p    == newestFirst[k]
                 size == FileSize[FileAt(ms, p)]
                 acc  == taken[k - 1]
             IN IF FitsBudget(acc.used, size)
                THEN [used |-> acc.used + size, load |-> acc.load \cup {p}]
                ELSE acc
  IN taken[n].load

\* readable: the files whose content can be loaded now.
RehydrateDataRoomRefs(ms, readable) ==
  LET load == RefsToLoad(ms)
      swap(row, col) ==
        LET b == ms[row].blocks[col] IN
        IF ~IsRef(b) \/ ms[row].role # "user" THEN b
        ELSE IF <<row, col>> \in load /\ b.id[1] \in readable THEN Block("file", b.id)
        ELSE Block("stub", b.id)
  IN [row \in DOMAIN ms |->
        Msg(ms[row].role, [col \in DOMAIN ms[row].blocks |-> swap(row, col)])]

-----------------------------------------------------------------------------
(* The three sanitizers.                                                   *)

DropOrphanServerToolResults(ms) ==
  [i \in DOMAIN ms |->
     LET bs == ms[i].blocks
     IN Msg(ms[i].role,
            SelectAt(bs, {j \in DOMAIN bs : bs[j].type = "srvResult" =>
                            \E k \in 1..(j - 1) : bs[k] = Block("srvUse", bs[j].id)}))]

\* Ids of m's blocks of a type, if m is a message of that role.
IdsIf(m, role, type) == IF m.role = role THEN Ids(m, type) ELSE {}

\* The blocks of m that stay when these uses are answered and these asked.
Kept_WholeRow(m, answered, asked) ==
  IF Ids(m, "use") \subseteq answered /\ Ids(m, "result") \subseteq asked THEN m.blocks ELSE <<>>
Kept(m, answered, asked) ==
  SelectAt(m.blocks,
    {j \in DOMAIN m.blocks : LET b == m.blocks[j] IN
       /\ m.role = "assistant" /\ b.type = "use" => b.id \in answered
       /\ m.role = "user" /\ b.type = "result"   => b.id \in asked})

\* A use is compared with the next message as stored, a result with the
\* previous message as kept; a message that loses all its blocks is left out.
SanitizeMessage(ms, out, i) ==
  LET m        == ms[i]
      answered == IF i < Len(ms) THEN IdsIf(ms[i + 1], "user", "result") ELSE {}
      asked    == IF out = <<>> THEN {} ELSE IdsIf(Last(out), "assistant", "use")
      kept     == Kept(m, answered, asked)
  IN IF kept = <<>> /\ m.blocks # <<>> THEN out ELSE Append(out, Msg(m.role, kept))

SanitizeToolPairs(ms) ==
  LET out[i \in 0..Len(ms)] == IF i = 0 THEN <<>> ELSE SanitizeMessage(ms, out[i - 1], i)
  IN out[Len(ms)]

CannotMerge_NoSeparator(prev, curr) == FALSE
CannotMerge(prev, curr) ==
  /\ prev.role = "user"
  /\ \/ Has(prev, "result") /\ ~Only(curr, "result")
     \/ Has(curr, "result") /\ ~Only(prev, "result")

MergeMessage(out, m) ==
  IF out = <<>> \/ Last(out).role # m.role THEN Append(out, m)
  ELSE IF CannotMerge(Last(out), m) THEN out \o <<Msg("assistant", <<Filler>>), m>>
  ELSE Append(Front(out), Msg(m.role, Last(out).blocks \o m.blocks))

MergeConsecutiveRoles(ms) ==
  LET out[i \in 0..Len(ms)] == IF i = 0 THEN <<>> ELSE MergeMessage(out[i - 1], ms[i])
  IN out[Len(ms)]

-----------------------------------------------------------------------------
\* The summary of the conversation this one continues, unless compacted.
WithSeedSummary(ms) ==
  LET i == SelectInSeq(ms, LAMBDA m : m.role = "user")
  IN IF LastCompactionIndex(ms) # 0 \/ i = 0 THEN ms
     ELSE [ms EXCEPT ![i].blocks = <<Filler>> \o @]

\* What runTurn makes of the rows up to its own user row.
History(rows, readable, seeded) ==
  LET ms == MergeConsecutiveRoles(SanitizeToolPairs(DropOrphanServerToolResults(
              RehydrateDataRoomRefs(TrimToLastCompaction(rows), readable))))
  IN IF seeded THEN WithSeedSummary(ms) ELSE ms

\* The forced write-up: the last call gets an instruction after the history.
WithWriteUpInstruction(ms) ==
  IF ms = <<>> \/ Last(ms).role # "user" THEN Append(ms, Msg("user", <<Filler>>))
  ELSE IF Has(Last(ms), "result")
  THEN ms \o <<Msg("assistant", <<Filler>>), Msg("user", <<Filler>>)>>
  ELSE Append(Front(ms), Msg("user", Append(Last(ms).blocks, Filler)))

\* A model without compaction gets the summaries as texts.
ShapeMessages(ms) ==
  LET shape(m) ==
        LET kept  == SelectAt(m.blocks, {j \in DOMAIN m.blocks : m.blocks[j].type # "nullCompaction"})
            texts == [i \in DOMAIN kept |->
                        IF kept[i].type = "compaction" THEN Filler ELSE kept[i]]
        IN IF ~Has(m, "compaction") /\ ~Has(m, "nullCompaction") THEN m
           ELSE Msg(m.role, IF texts = <<>> THEN <<Filler>> ELSE texts)
  IN IF Compacts THEN ms ELSE [i \in DOMAIN ms |-> shape(ms[i])]

\* The messages of one API call.
Request(ms, writeUp) == ShapeMessages(IF writeUp THEN WithWriteUpInstruction(ms) ELSE ms)

-----------------------------------------------------------------------------
(* What the API requires of a request, as the comments of ai.service.ts     *)
(* have it: roles alternate from a user message to a user message, every    *)
(* client tool_use is answered in the next message and every tool_result    *)
(* answers the previous one, a message with results holds nothing else, a   *)
(* server tool's result follows its use, and no reference is left.          *)

Alternates(ms) ==
  /\ ms # <<>> /\ ms[1].role = "user" /\ Last(ms).role = "user"
  /\ \A i \in 1..(Len(ms) - 1) : ms[i].role # ms[i + 1].role

PairsMatch(ms) ==
  \A i \in DOMAIN ms :
    /\ Has(ms[i], "use") => i < Len(ms) /\ Ids(ms[i], "use") = Ids(ms[i + 1], "result")
    /\ Has(ms[i], "result") => /\ i > 1 /\ Ids(ms[i], "result") = Ids(ms[i - 1], "use")
                               /\ Only(ms[i], "result")

ServerPairsMatch(ms) ==
  \A i \in DOMAIN ms : LET bs == ms[i].blocks IN
    \A j \in DOMAIN bs : bs[j].type = "srvResult" =>
      \E k \in 1..(j - 1) : bs[k] = Block("srvUse", bs[j].id)

BlocksAccepted(ms) ==
  \A m \in ToSet(ms) : \A b \in ToSet(m.blocks) :
    ~IsRef(b) /\ (~Compacts => b.type \notin {"compaction", "nullCompaction"})

WellFormed(ms) == Alternates(ms) /\ PairsMatch(ms) /\ ServerPairsMatch(ms) /\ BlocksAccepted(ms)
=============================================================================
