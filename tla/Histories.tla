------------------------------- MODULE Histories -------------------------------
(***************************************************************************)
(* Every history of at most MaxRows rows. A history starts with a prompt    *)
(* and grows by any row the program (or an earlier version of it) can have  *)
(* stored, in any order: answers, tool rounds whose second row is missing,  *)
(* late, partial or doubled, terminators, file pointers, compactions, and   *)
(* server results that lost their use. The properties say what the pipeline *)
(* makes of it.                                                             *)
(***************************************************************************)
EXTENDS HistoryPipeline

CONSTANTS MaxRows

Files == DOMAIN FileSize

VARIABLES history, readable, seeded
historyVars == <<history, readable, seeded>>

Fresh == Len(history) + 1
Text == Block("text", <<Fresh>>)
Use(k) == Block("use", <<Fresh, k>>)
Srv(type) == Block(type, <<Fresh>>)

PromptBlocks(text) == {<<text>>} \cup {<<UploadRef(f), text>> : f \in Files}

AssistantBlocks ==
  {<<Text>>, <<Use(1)>>, <<Text, Use(1), Use(2)>>,
   <<Block("compaction", <<>>), Text>>, <<Block("compaction", <<>>), Use(1)>>,
   <<Block("nullCompaction", <<>>)>>,
   <<Srv("srvUse"), Srv("srvResult"), Text>>, <<Srv("srvResult"), Text>>}

\* Results of some of the uses of one earlier row.
ResultBlocks ==
  UNION {{SetToSeq({Block("result", id) : id \in ids}) :
            ids \in (SUBSET Ids(history[i], "use")) \ {{}}} : i \in DOMAIN history}

UserBlocks == PromptBlocks(Text) \cup ResultBlocks \cup {<<ReadRef(f)>> : f \in Files}

FirstRow == /\ history \in {<<Msg("user", bs)>> : bs \in PromptBlocks(Block("text", <<1>>))}
            /\ readable \in SUBSET Files
            /\ seeded \in BOOLEAN

Store(role, rows) == \E bs \in rows : history' = Append(history, Msg(role, bs))

NextRow == /\ Len(history) < MaxRows
           /\ Store("assistant", AssistantBlocks) \/ Store("user", UserBlocks)
           /\ UNCHANGED <<readable, seeded>>

Growth == FirstRow /\ [][NextRow]_historyVars

-----------------------------------------------------------------------------
\* runTurn loads a history that ends with the run's prompt.
Asked  == Append(history, Msg("user", <<Text>>))
Loaded == History(Asked, readable, seeded)

\* Sequences one after the other.
Joined(ss) ==
  LET joined[i \in 0..Len(ss)] == IF i = 0 THEN <<>> ELSE joined[i - 1] \o ss[i] IN joined[Len(ss)]

\* What files of these ids weigh together.
SizeOf(ids) ==
  LET sum[i \in 0..Len(ids)] == IF i = 0 THEN 0 ELSE sum[i - 1] + FileSize[ids[i][1]] IN sum[Len(ids)]

\* The ids of the blocks of these types, in order: of a message, and of all of them.
IdsOf(bs, types)  == Joined([i \in DOMAIN bs |-> IF bs[i].type \in types THEN <<bs[i].id>> ELSE <<>>])
AllIds(ms, types) == Joined([i \in DOMAIN ms |-> IdsOf(ms[i].blocks, types)])

(* Whatever the rows look like, the API accepts the request: the first call *)
(* of a turn and a forced write-up alike.                                  *)
RequestAccepted == \A writeUp \in BOOLEAN : WellFormed(Request(Loaded, writeUp))

(* Repairing the history loses no word of it: every text from the last      *)
(* compaction on is in the request, once and in its place, and where a file *)
(* pointer was there is the file or a stub.                                *)
NothingLost ==
  LET kept == TrimToLastCompaction(Asked) IN
  /\ AllIds(Loaded, {"text"}) = AllIds(kept, {"text"})
  /\ AllIds(Loaded, {"file", "stub"}) = AllIds(kept, {"readRef", "uploadRef"})

(* A tool round that is whole in the rows reaches the model: a use and its  *)
(* result are dropped only when one of them has no partner next to it.     *)
WholeRoundsKept ==
  \A i \in 1..(Len(Asked) - 1) :
    i >= LastCompactionIndex(Asked) /\ Asked[i].role = "assistant" /\ Asked[i + 1].role = "user" =>
      \A id \in Ids(Asked[i], "use") \cap Ids(Asked[i + 1], "result") :
        \E m \in ToSet(Loaded) : id \in Ids(m, "use")

(* The files loaded into one request stay within the budget, each is loaded *)
(* once, and never from before the last compaction; a file that would fit   *)
(* is left out only for newer ones.                                        *)
FilesInBudget ==
  LET files   == AllIds(Loaded, {"file"})
      trimmed == TrimToLastCompaction(Asked)
  IN /\ SizeOf(files) <= FileBudget
     /\ IsInjective(files)
     /\ Files \subseteq readable => \A p \in LastRefs(trimmed) :
          LET f     == FileAt(trimmed, p)
              newer == {q \in LastRefs(trimmed) : Before(p, q)}
          IN /\ Cardinality(PromptsAfter(trimmed, p[1])) < WindowPrompts
             /\ newer = {} /\ FileSize[f] <= FileBudget
             => <<f>> \in ToSet(files)
=============================================================================
