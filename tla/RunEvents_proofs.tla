--------------------------- MODULE RunEvents_proofs ---------------------------
(***************************************************************************)
(* RunEvents for any subscribers and any number of pieces, with failing    *)
(* INSERTs or without, and with zombie executors or without.               *)
(*                                                                         *)
(* Rows have numbers, the answer has pieces, and three parties disagree on *)
(* where they stand: the writer (wseq), the closer (maxRead) and each      *)
(* subscriber (cursor). The argument keeps a ghost map p, the number of    *)
(* pieces in the rows up to n as the writer numbers them, and two ghost    *)
(* bounds: the log is 1..m, and its first w rows are the executor's.       *)
(* Whatever is in the log, in the chain or received is then a stretch of   *)
(* the answer between two values of p, and a subscriber that read up to c  *)
(* has the pieces 1..p[min(c, w)].                                         *)
(***************************************************************************)
EXTENDS RunEvents, FiniteSetTheorems, SequenceTheorems, TLAPS

-----------------------------------------------------------------------------
(* Numbers.                                                                *)

\* Every nonempty set of numbers has a least one: the induction the proofs need,
\* from the well-founded inclusion of finite sets.
LEMMA LeastNumber ==
  ASSUME NEW T \in SUBSET Nat, T # {}
  PROVE  \E n \in T : \A m \in T : n <= m
<1> DEFINE R == StrictSubsetOrdering(Nat)
           S == FiniteSubsetsOf(Nat)
           C == {1..n : n \in T}
<1>1. IsWellFoundedOn(R, S)
  BY FS_StrictSubsetOrderingWellFounded
<1>2. C \subseteq S /\ C # {}
  <2>1. \A n \in T : n \in Int /\ 1 \in Int /\ 1..n \in SUBSET Nat
    OBVIOUS
  <2>2. \A n \in T : IsFiniteSet(1..n)
    BY <2>1, FS_Interval
  <2>3. QED BY <2>1, <2>2, Zenon DEF FiniteSubsetsOf
<1>3. \E x \in C : \A y \in C : ~(<<y, x>> \in R)
  <2> HIDE DEF R, S, C
  <2> QED BY <1>1, <1>2, WFMin
<1>4. PICK n \in T : \A m \in T : <<1..m, 1..n>> \notin R
  BY <1>3
<1>5. ASSUME NEW m \in T, m < n PROVE FALSE
  <2>1. 1..m \in SUBSET Nat /\ 1..n \in SUBSET Nat /\ 1..m \subseteq 1..n
    BY <1>5
  <2>2. n \in 1..n /\ n \notin 1..m
    BY <1>5
  <2>3. <<1..m, 1..n>> \in R
    BY <2>1, <2>2, Zenon DEF StrictSubsetOrdering
  <2>4. QED BY <2>3, <1>4
<1>6. QED BY <1>5

\* The maximum of a bounded set of numbers.
LEMMA MaxFacts ==
  ASSUME NEW k \in Nat, NEW S \in SUBSET (0..k), S # {}
  PROVE  Max(S) \in S /\ \A x \in S : x <= Max(S)
  <1> DEFINE T == {k - x : x \in S}
  <1>1. T \in SUBSET Nat /\ T # {}
    <2>1. \A x \in S : x \in Nat /\ k - x \in Nat
      OBVIOUS
    <2>2. QED BY <2>1
  <1>2. PICK n \in T : \A m \in T : n <= m
    BY <1>1, LeastNumber
  <1>3. PICK x \in S : n = k - x
    BY <1>2
  <1>4. \A y \in S : x >= y
    <2>1. \A y \in S : k - x <= k - y
      BY <1>2, <1>3
    <2>2. \A y \in S : y \in Nat
      OBVIOUS
    <2>3. QED BY <2>1, <2>2
  <1>5. QED BY <1>4 DEF Max

-----------------------------------------------------------------------------
(* Stretches of the answer: the pieces a+1 to b.                           *)
Span(a, b) == [i \in 1..(b - a) |-> a + i]

\* A stretch from a to b has b - a pieces, a + 1 first.
LEMMA SpanFacts ==
  ASSUME NEW a \in Nat, NEW b \in Nat, a <= b
  PROVE  /\ Span(a, b) \in Seq(Nat) /\ Len(Span(a, b)) = b - a
         /\ \A i \in 1..(b - a) : Span(a, b)[i] = a + i
         /\ Span(a, b) = <<>> <=> a = b
  <1>1. b - a \in Nat /\ Span(a, b) \in [1..(b - a) -> Nat]
    BY DEF Span
  <1>2. Span(a, b) \in Seq(Nat) /\ Len(Span(a, b)) = b - a
    <2>1. Span(a, b) \in Seq(Nat)
      BY <1>1, SeqDef
    <2>2. DOMAIN Span(a, b) = 1..(b - a) /\ DOMAIN Span(a, b) = 1..Len(Span(a, b))
      BY <2>1, LenProperties DEF Span
    <2>3. Len(Span(a, b)) \in Nat
      BY <2>1, LenProperties
    <2>4. QED BY <2>1, <2>2, <2>3, <1>1
  <1>3. \A i \in 1..(b - a) : Span(a, b)[i] = a + i
    BY DEF Span
  <1>4. Span(a, b) = <<>> <=> a = b
    BY <1>2, EmptySeq
  <1>5. QED BY <1>2, <1>3, <1>4

\* Two adjacent stretches are one.
LEMMA SpanConcat ==
  ASSUME NEW a \in Nat, NEW b \in Nat, NEW c \in Nat, a <= b, b <= c
  PROVE  Span(a, b) \o Span(b, c) = Span(a, c)
  <1> DEFINE s == Span(a, b)  t == Span(b, c)  u == Span(a, c)
  <1>1. /\ s \in Seq(Nat) /\ Len(s) = b - a /\ \A i \in 1..(b - a) : s[i] = a + i
        /\ t \in Seq(Nat) /\ Len(t) = c - b /\ \A i \in 1..(c - b) : t[i] = b + i
        /\ u \in Seq(Nat) /\ Len(u) = c - a /\ \A i \in 1..(c - a) : u[i] = a + i
    <2>1. a <= c
      OBVIOUS
    <2>2. s \in Seq(Nat) /\ Len(s) = b - a /\ \A i \in 1..(b - a) : s[i] = a + i
      BY SpanFacts
    <2>3. t \in Seq(Nat) /\ Len(t) = c - b /\ \A i \in 1..(c - b) : t[i] = b + i
      BY SpanFacts
    <2>4. u \in Seq(Nat) /\ Len(u) = c - a /\ \A i \in 1..(c - a) : u[i] = a + i
      BY <2>1, SpanFacts
    <2>5. QED BY <2>2, <2>3, <2>4
  <1> HIDE DEF s, t, u
  <1>2. /\ s \o t \in Seq(Nat) /\ Len(s \o t) = Len(s) + Len(t)
        /\ \A i \in 1..(Len(s) + Len(t)) :
             (s \o t)[i] = IF i <= Len(s) THEN s[i] ELSE t[i - Len(s)]
    BY <1>1, ConcatProperties
  <1>3. Len(s \o t) = Len(u)
    BY <1>1, <1>2
  <1>4. ASSUME NEW i \in 1..Len(s \o t) PROVE (s \o t)[i] = u[i]
    <2>1. i \in 1..(Len(s) + Len(t)) /\ i \in 1..(c - a)
      BY <1>4, <1>2, <1>1
    <2>2. CASE i <= b - a
      BY <2>1, <2>2, <1>1, <1>2
    <2>3. CASE ~(i <= b - a)
      <3>1. i - Len(s) \in 1..(c - b)
        BY <2>1, <2>3, <1>1
      <3>2. QED BY <3>1, <2>1, <2>3, <1>1, <1>2
    <2>4. QED BY <2>2, <2>3
  <1>5. s \o t = u
    BY <1>1, <1>2, <1>3, <1>4, SeqEqual
  <1>6. QED BY <1>5 DEF s, t, u

\* The next piece lengthens a stretch by one.
LEMMA SpanAppend ==
  ASSUME NEW a \in Nat, NEW b \in Nat, a <= b
  PROVE  Append(Span(a, b), b + 1) = Span(a, b + 1)
  <1>1. Span(b, b + 1) = <<b + 1>>
    <2>1. Span(b, b + 1) = [i \in 1..1 |-> b + i]
      BY DEF Span
    <2>2. QED BY <2>1
  <1>2. Span(a, b) \in Seq(Nat) /\ b + 1 \in Nat
    BY SpanFacts
  <1>3. Append(Span(a, b), b + 1) = Span(a, b) \o <<b + 1>>
    BY <1>2, AppendIsConcat
  <1>4. Span(a, b) \o Span(b, b + 1) = Span(a, b + 1)
    <2>1. b + 1 \in Nat /\ b <= b + 1
      OBVIOUS
    <2>2. QED BY <2>1, SpanConcat
  <1>5. QED BY <1>1, <1>3, <1>4

LEMMA SpanOne ==
  ASSUME NEW b \in Nat
  PROVE  Span(b, b + 1) = <<b + 1>>
  <1>1. Span(b, b + 1) = [i \in 1..1 |-> b + i]
    BY DEF Span
  <1>2. QED BY <1>1

LEMMA MinPair ==
  ASSUME NEW a \in Nat, NEW b \in Nat
  PROVE  /\ Min({a, b}) \in {a, b} /\ Min({a, b}) <= a /\ Min({a, b}) <= b
         /\ a <= b => Min({a, b}) = a
         /\ b <= a => Min({a, b}) = b
  <1>1. \E x \in {a, b} : \A y \in {a, b} : x <= y
    OBVIOUS
  <1>2. Min({a, b}) \in {a, b} /\ \A y \in {a, b} : Min({a, b}) <= y
    BY <1>1 DEF Min
  <1>3. QED BY <1>2
-----------------------------------------------------------------------------
Awaits(resume) == pc = "await" /\ next = resume

\* Rows the executor has written besides the pieces.
Extra == IF pc = "done" \/ Awaits("done") THEN 1
         ELSE IF pc \in {"finish", "ended", "dead"} \/ Awaits("finish") THEN 2 ELSE 0

ChainInv ==
  /\ failed => chain = <<>>
  /\ \A i \in DOMAIN chain :
       /\ chain[i].rows # <<>>
       /\ chain[i].first + Len(chain[i].rows) =
            IF i < Len(chain) THEN chain[i + 1].first ELSE wseq + 1

CountInv == wseq + Len(pending) <= produced + Extra

\* The run is the executor's from its claim on, and a closer's once it has ended.
StatusInv ==
  /\ status = "queued" => pc = "unclaimed"
  /\ status = "running" => pc \notin {"unclaimed", "ended"}
  /\ pc \in {"turn", "await", "error", "done", "finish"} => status \in {"running", "interrupted"}
  /\ status \in Active => closer = "none"
  /\ closer \in {"read", "insert"} => status \in {"cancelled", "failed", "interrupted"}
  /\ pc \in {"error", "done", "finish"} \/ Awaits("done") \/ Awaits("finish") => outcome \in Outcomes

LogInv == closer # "ended" => DOMAIN log \subseteq 1..wseq

Inserted(first, rows) ==
  /\ DOMAIN log \cap first..(first + Len(rows) - 1) = {}
  /\ DOMAIN log' = DOMAIN log \cup first..(first + Len(rows) - 1)
  /\ \A n \in DOMAIN log : log'[n] = log[n]
  /\ \A n \in first..(first + Len(rows) - 1) : log'[n] = rows[n - first + 1]

\* An INSERT that meets no row adds exactly its own.
LEMMA BatchInserted ==
  ASSUME NEW first \in Nat, NEW rows \in Seq(Row)
  PROVE  /\ Conflicts(Batch(first, rows)) <=> DOMAIN log \cap first..(first + Len(rows) - 1) # {}
         /\ ~Conflicts(Batch(first, rows)) /\ log' = WithBatch(Batch(first, rows))
              => Inserted(first, rows)
  <1> DEFINE b == Batch(first, rows)
  <1>1. /\ DOMAIN b = first..(first + Len(rows) - 1)
        /\ \A n \in DOMAIN b : b[n] = rows[n - first + 1]
    BY DEF Batch
  <1> HIDE DEF b
  <1>2. Conflicts(b) <=> DOMAIN log \cap first..(first + Len(rows) - 1) # {}
    BY <1>1 DEF Conflicts
  <1>3. ASSUME ~Conflicts(b), log' = WithBatch(b) PROVE Inserted(first, rows)
    <2>1. DOMAIN log' = DOMAIN log \cup DOMAIN b
      BY <1>3 DEF WithBatch
    <2>2. \A n \in DOMAIN log : log'[n] = log[n]
      BY <1>3 DEF WithBatch
    <2>3. \A n \in DOMAIN b : n \notin DOMAIN log /\ log'[n] = b[n]
      BY <1>3 DEF WithBatch, Conflicts
    <2>4. QED BY <2>1, <2>2, <2>3, <1>1 DEF Inserted
  <1>4. QED BY <1>2, <1>3 DEF b

AppendsHead(kept) ==
  \/ Inserted(Head(chain).first, Head(chain).rows) /\ chain' = kept /\ failed' = failed
  \/ Inserted(Head(chain).first, Head(chain).rows) /\ chain' = <<>> /\ failed'
  \/ log' = log /\ chain' = <<>> /\ failed'

\* What a nonempty chain of queued INSERTs looks like.
LEMMA ChainFacts ==
  ASSUME TypeOK, chain # <<>>
  PROVE  /\ Len(chain) \in Nat /\ Len(chain) >= 1 /\ DOMAIN chain = 1..Len(chain)
         /\ Head(chain) = chain[1]
         /\ \A i \in 1..Len(chain) : /\ chain[i].first \in 1..wseq
                                     /\ chain[i].rows \in Seq(Row)
         /\ DOMAIN Tail(chain) = 1..(Len(chain) - 1) /\ Len(Tail(chain)) = Len(chain) - 1
         /\ \A i \in 1..(Len(chain) - 1) : Tail(chain)[i] = chain[i + 1]
  <1> DEFINE B == [first : 1..wseq, rows : Seq(Row)]
  <1>1. chain \in Seq(B)
    BY DEF TypeOK
  <1> HIDE DEF B
  <1>2. Len(chain) \in Nat \ {0} /\ DOMAIN chain = 1..Len(chain)
    BY <1>1, LenProperties, EmptySeq
  <1>3. \A i \in 1..Len(chain) : chain[i] \in B
    BY <1>1, ElementOfSeq
  <1>4. /\ Tail(chain) \in Seq(B) /\ Len(Tail(chain)) = Len(chain) - 1
        /\ \A i \in 1..Len(Tail(chain)) : Tail(chain)[i] = chain[i + 1]
    BY <1>1, HeadTailProperties
  <1>5. DOMAIN Tail(chain) = 1..Len(Tail(chain))
    BY <1>4, LenProperties
  <1>6. Head(chain) = chain[1]
    BY <1>1 DEF Head
  <1>7. QED BY <1>2, <1>3, <1>4, <1>5, <1>6 DEF B

\* The head of the chain is inserted and taken off, or the chain is rejected.
LEMMA AppendBatchShape ==
  ASSUME TypeOK, AppendBatch
  PROVE  /\ chain # <<>> /\ AppendsHead(Tail(chain))
         /\ UNCHANGED <<status, forgotten, produced, pending, wseq, execVars, closerVars, subVars>>
  <1>1. chain # <<>>
    BY DEF AppendBatch
  <1>2. Head(chain).first \in Nat /\ Head(chain).rows \in Seq(Row)
    <2>1. wseq \in Nat
      BY DEF TypeOK
    <2>2. QED BY <1>1, ChainFacts, <2>1
  <1>3. AppendsHead(Tail(chain))
    BY <1>2, BatchInserted DEF AppendBatch, AppendsHead
  <1>4. QED BY <1>1, <1>3 DEF AppendBatch

\* write(events) with at most one event: a text row for what is pending,
\* then the event.
Writes(events, rows, k) ==
  /\ rows \in Seq(Row) /\ Len(rows) = k + Len(events)
  /\ k \in {0, 1} /\ (k = 0 <=> pending = <<>>)
  /\ k = 1 => rows[1] = PieceRow("text", pending)
  /\ Len(events) = 1 => rows[k + 1] = events[1]
  /\ pending' = <<>> /\ failed' = failed /\ wseq' = wseq + k + Len(events)
  /\ chain' = IF failed \/ Len(rows) = 0 THEN chain
              ELSE Append(chain, [first |-> wseq + 1, rows |-> rows])

\* write() numbers at most one text row and one event.
LEMMA WriteShape ==
  ASSUME TypeOK, NEW events \in Seq(Row), Len(events) <= 1, Write(events)
  PROVE  \E rows, k : Writes(events, rows, k)
  <1> DEFINE text == IF pending = <<>> THEN <<>> ELSE <<PieceRow("text", pending)>>
             rows == text \o events
             k == IF pending = <<>> THEN 0 ELSE 1
  <1>1. text \in Seq(Row) /\ Len(text) = k /\ (k = 1 => text[1] = PieceRow("text", pending))
    <2>1. CASE pending = <<>>
      BY <2>1, EmptySeq
    <2>2. CASE pending # <<>>
      <3>1. PieceRow("text", pending) \in Row
        BY DEF TypeOK, PieceRow, Row
      <3>2. QED BY <2>2, <3>1
    <2>3. QED BY <2>1, <2>2
  <1>2. Len(events) \in Nat
    BY LenProperties
  <1>3. k \in {0, 1} /\ (k = 0 <=> pending = <<>>)
    OBVIOUS
  <1>4. /\ pending' = <<>> /\ failed' = failed /\ wseq' = wseq + Len(rows)
        /\ chain' = IF failed \/ rows = <<>> THEN chain
                    ELSE Append(chain, [first |-> wseq + 1, rows |-> rows])
    BY DEF Write, PendingAfterWrite
  <1> HIDE DEF text, k
  <1>5. /\ rows \in Seq(Row) /\ Len(rows) = k + Len(events)
        /\ \A i \in 1..(k + Len(events)) : rows[i] = IF i <= k THEN text[i] ELSE events[i - k]
    BY <1>1, ConcatProperties
  <1> HIDE DEF rows
  <1>6. rows = <<>> <=> Len(rows) = 0
    BY <1>5, EmptySeq
  <1>7. k = 1 => rows[1] = PieceRow("text", pending)
    BY <1>1, <1>2, <1>3, <1>5
  <1>8. Len(events) = 1 => rows[k + 1] = events[1]
    BY <1>2, <1>3, <1>5
  <1>9. wseq \in Nat
    BY DEF TypeOK
  <1>10. Writes(events, rows, k)
    BY <1>2, <1>3, <1>4, <1>5, <1>6, <1>7, <1>8, <1>9 DEF Writes
  <1>11. QED BY <1>10
-----------------------------------------------------------------------------
TableInv == TypeOK /\ StatusInv /\ ChainInv /\ CountInv /\ LogInv

\* A write keeps the batches of the chain adjacent and ends them at wseq.
LEMMA WritesKeepsChain ==
  ASSUME TableInv, NEW events \in Seq(Row), Len(events) \in {0, 1}, NEW rows, NEW k,
         Writes(events, rows, k)
  PROVE  /\ wseq' \in Nat /\ wseq <= wseq' /\ pending' \in Seq(Pieces) /\ Len(pending') = 0
         /\ chain' \in Seq([first : 1..wseq', rows : Seq(Row)])
         /\ failed' = failed
         /\ ChainInv'
         /\ wseq' <= produced + Extra + Len(events)
  <1> DEFINE B(w) == [first : 1..w, rows : Seq(Row)]
  <1>0. TypeOK /\ ChainInv /\ CountInv
    BY DEF TableInv
  <1>1. /\ wseq \in Nat /\ chain \in Seq(B(wseq)) /\ Len(chain) \in Nat
        /\ DOMAIN chain = 1..Len(chain) /\ pending \in Seq(Pieces) /\ Len(pending) \in Nat
        /\ produced \in Nat /\ Extra \in 0..2
    BY <1>0, LenProperties DEF TypeOK, Extra
  <1>2. /\ rows \in Seq(Row) /\ Len(rows) = k + Len(events) /\ k \in {0, 1}
        /\ wseq' = wseq + k + Len(events) /\ pending' = <<>> /\ failed' = failed
        /\ chain' = IF failed \/ Len(rows) = 0 THEN chain
                    ELSE Append(chain, [first |-> wseq + 1, rows |-> rows])
    BY DEF Writes
  <1>3. k <= Len(pending)
    BY <1>1, EmptySeq DEF Writes
  <1>4. wseq' \in Nat /\ wseq <= wseq' /\ wseq' <= produced + Extra + Len(events)
    BY <1>0, <1>1, <1>2, <1>3 DEF CountInv
  <1>5. pending' \in Seq(Pieces) /\ Len(pending') = 0
    BY <1>2, EmptySeq
  <1>6. chain \in Seq(B(wseq'))
    <2>1. B(wseq) \subseteq B(wseq')
      BY <1>1, <1>4
    <2>2. QED BY <2>1, <1>1, SeqMonotonic
  <1>7. CASE chain' = chain
    <2>1. failed \/ wseq' = wseq
      <3>1. CASE failed
        BY <3>1
      <3>2. CASE ~failed /\ Len(rows) = 0
        <4>1. k + Len(events) = 0 /\ k \in {0, 1}
          BY <3>2, <1>2
        <4>2. k = 0 /\ Len(events) = 0
          BY <4>1
        <4>3. QED BY <4>2, <1>1, <1>2
      <3>3. CASE ~failed /\ Len(rows) # 0
        <4>1. [first |-> wseq + 1, rows |-> rows] \in B(wseq')
          BY <1>1, <1>2, <3>3
        <4>2. Len(chain') = Len(chain) + 1
          BY <4>1, <1>2, <1>6, <3>3, AppendProperties
        <4>3. QED BY <4>2, <1>7, <1>1
      <3>4. QED BY <3>1, <3>2, <3>3
    <2>2. ChainInv'
      <3>1. CASE wseq' = wseq
        BY <3>1, <1>0, <1>2, <1>7 DEF ChainInv
      <3>2. CASE failed
        <4>1. chain' = <<>> /\ DOMAIN chain' = {}
          BY <3>2, <1>0, <1>7 DEF ChainInv
        <4>2. QED BY <4>1 DEF ChainInv
      <3>3. QED BY <2>1, <3>1, <3>2
    <2>3. QED BY <2>2, <1>2, <1>4, <1>5, <1>6, <1>7
  <1>8. CASE chain' # chain
    <2> DEFINE b == [first |-> wseq + 1, rows |-> rows]
    <2>1. ~failed /\ Len(rows) # 0 /\ chain' = Append(chain, b)
      BY <1>2, <1>8
    <2>2. b \in B(wseq') /\ b.first = wseq + 1 /\ b.rows = rows
      BY <1>1, <1>2, <2>1
    <2> HIDE DEF b, B
    <2>3. /\ chain' \in Seq(B(wseq')) /\ Len(chain') = Len(chain) + 1
          /\ \A i \in 1..Len(chain) : chain'[i] = chain[i]
          /\ chain'[Len(chain) + 1] = b
      BY <2>1, <2>2, <1>6, AppendProperties
    <2>4. DOMAIN chain' = 1..Len(chain')
      BY <2>3, LenProperties
    <2>5. ASSUME NEW i \in DOMAIN chain'
          PROVE  /\ chain'[i].rows # <<>>
                 /\ chain'[i].first + Len(chain'[i].rows) =
                      IF i < Len(chain') THEN chain'[i + 1].first ELSE wseq' + 1
      <3>1. CASE i = Len(chain) + 1
        <4>1. chain'[i] = b /\ ~(i < Len(chain'))
          BY <3>1, <2>3, <1>1
        <4>2. b.rows # <<>> /\ b.first + Len(b.rows) = wseq' + 1
          BY <2>2, <2>1, <1>2, <1>1, EmptySeq
        <4>3. QED BY <4>1, <4>2
      <3>2. CASE i < Len(chain)
        <4>1. i \in 1..Len(chain) /\ i + 1 \in 1..Len(chain) /\ i < Len(chain')
          BY <3>2, <2>3, <2>4, <1>1
        <4>2. chain'[i] = chain[i] /\ chain'[i + 1] = chain[i + 1]
          BY <4>1, <2>3
        <4>3. chain[i].rows # <<>> /\ chain[i].first + Len(chain[i].rows) = chain[i + 1].first
          BY <4>1, <3>2, <1>0, <1>1 DEF ChainInv
        <4>4. QED BY <4>1, <4>2, <4>3
      <3>3. CASE i = Len(chain)
        <4>1. i \in 1..Len(chain) /\ i < Len(chain') /\ i + 1 = Len(chain) + 1 /\ ~(i < Len(chain))
          BY <3>3, <2>3, <2>4, <1>1
        <4>2. chain'[i] = chain[i] /\ chain'[i + 1] = b
          BY <4>1, <2>3
        <4>3. chain[i].rows # <<>> /\ chain[i].first + Len(chain[i].rows) = wseq + 1
          BY <4>1, <1>0, <1>1 DEF ChainInv
        <4>4. QED BY <4>1, <4>2, <4>3, <2>2
      <3>4. QED BY <3>1, <3>2, <3>3, <2>3, <2>4, <1>1
    <2>6. ChainInv'
      BY <2>5, <2>1, <1>2 DEF ChainInv
    <2>7. QED BY <2>3, <2>6, <1>2, <1>4, <1>5 DEF B
  <1>9. QED BY <1>7, <1>8

LEMMA MaxSeqFacts ==
  ASSUME TypeOK
  PROVE  MaxSeq \in DOMAIN log \cup {0} /\ MaxSeq \in Nat /\ \A n \in DOMAIN log : n <= MaxSeq
  <1> DEFINE S == DOMAIN log \cup {0}  k == MaxPieces + 4
  <1>1. k \in Nat /\ S \in SUBSET (0..k) /\ S # {}
    BY PiecesAssumption DEF TypeOK
  <1>2. MaxSeq = Max(S)
    BY DEF MaxSeq
  <1> HIDE DEF S, k
  <1>3. Max(S) \in S /\ \A x \in S : x <= Max(S)
    BY <1>1, MaxFacts
  <1>4. QED BY <1>1, <1>2, <1>3 DEF S, k

LEMMA TableInvInit == Init => TableInv
  <1> SUFFICES ASSUME Init PROVE TableInv
    OBVIOUS
  <1>1. <<>> \in Seq(Pieces) /\ Len(<<>>) = 0 /\ <<>> \in Seq([first : 1..0, rows : Seq(Row)])
        /\ DOMAIN <<>> = {}
    BY EmptySeq
  <1>2. TypeOK
    <2>1. 0 \in 0..MaxPieces /\ 0 \in 0..(MaxPieces + 2) /\ 0 \in 0..(MaxPieces + 4) /\ 0 \in 0..2
      BY PiecesAssumption
    <2>2. /\ DOMAIN log \subseteq 1..(MaxPieces + 4) /\ \A n \in DOMAIN log : log[n] \in Row
          /\ chain \in Seq([first : 1..wseq, rows : Seq(Row)]) /\ pending \in Seq(Pieces)
      BY <1>1 DEF Init
    <2>3. /\ sub \in [Subscribers -> {"poll", "check", "tail", "closed"}]
          /\ cursor \in [Subscribers -> 0..(MaxPieces + 4)]
          /\ got \in [Subscribers -> Seq(Pieces)]
          /\ final \in [Subscribers -> Terminal \cup {None}]
      BY <1>1, <2>1 DEF Init
    <2>4. QED BY <2>1, <2>2, <2>3 DEF Init, TypeOK, Active
  <1>3. ChainInv /\ CountInv /\ LogInv /\ StatusInv
    BY <1>1 DEF Init, ChainInv, CountInv, LogInv, StatusInv, Extra, Awaits
  <1>4. QED BY <1>2, <1>3 DEF TableInv

\* An INSERT of the executor keeps the table invariants.
LEMMA AppendKeepsTable ==
  ASSUME TableInv, AppendBatch
  PROVE  TableInv'
  <1> DEFINE B == [first : 1..wseq, rows : Seq(Row)]
             hd == Head(chain)
             last == hd.first + Len(hd.rows) - 1
  <1>0. TypeOK /\ ChainInv /\ CountInv /\ LogInv
    BY DEF TableInv
  <1>1. /\ chain # <<>> /\ AppendsHead(Tail(chain))
        /\ UNCHANGED <<status, forgotten, produced, pending, wseq, pc, next, outcome,
                       closer, maxRead, swept, sub, cursor, got, final>>
    BY <1>0, AppendBatchShape DEF execVars, closerVars, subVars
  <1>2. /\ Len(chain) \in Nat /\ Len(chain) >= 1 /\ DOMAIN chain = 1..Len(chain)
        /\ hd = chain[1]
        /\ \A i \in 1..Len(chain) : chain[i].first \in 1..wseq /\ chain[i].rows \in Seq(Row)
        /\ DOMAIN Tail(chain) = 1..(Len(chain) - 1) /\ Len(Tail(chain)) = Len(chain) - 1
        /\ \A i \in 1..(Len(chain) - 1) : Tail(chain)[i] = chain[i + 1]
    BY <1>0, <1>1, ChainFacts
  <1>3. chain \in Seq(B) /\ Tail(chain) \in Seq(B) /\ <<>> \in Seq(B)
    BY <1>0, <1>1, HeadTailProperties, EmptySeq DEF TypeOK
  <1>4. wseq \in 0..(MaxPieces + 2)
    BY <1>0 DEF TypeOK
  <1>5. hd.first \in 1..wseq /\ hd.rows \in Seq(Row) /\ Len(hd.rows) \in Nat
        /\ last <= wseq /\ last \in Int
    <2>1. hd.first \in 1..wseq /\ hd.rows \in Seq(Row)
      BY <1>2
    <2>2. Len(hd.rows) \in Nat
      BY <2>1, LenProperties
    <2>3. hd.first + Len(hd.rows) = IF 1 < Len(chain) THEN chain[2].first ELSE wseq + 1
      BY <1>0, <1>2 DEF ChainInv
    <2>4. 1 < Len(chain) => chain[2].first \in 1..wseq
      BY <1>2
    <2>5. QED BY <2>1, <2>2, <2>3, <2>4, <1>4
  <1>6. \A n \in hd.first..last : hd.rows[n - hd.first + 1] \in Row
    <2>1. \A n \in hd.first..last : n - hd.first + 1 \in 1..Len(hd.rows)
      BY <1>5, <1>4
    <2>2. QED BY <2>1, <1>5, ElementOfSeq
  <1> HIDE DEF hd, last
  <1>7. /\ DOMAIN log' \subseteq DOMAIN log \cup 1..wseq
        /\ \A n \in DOMAIN log' : log'[n] \in Row
    <2>1. CASE log' = log
      BY <2>1, <1>0 DEF TypeOK
    <2>2. CASE Inserted(hd.first, hd.rows)
      <3>1. hd.first..(hd.first + Len(hd.rows) - 1) = hd.first..last
        BY DEF last
      <3>2. hd.first..last \subseteq 1..wseq
        BY <1>4, <1>5
      <3>3. /\ DOMAIN log' = DOMAIN log \cup hd.first..last
            /\ \A n \in DOMAIN log : log'[n] = log[n]
            /\ \A n \in hd.first..last : log'[n] = hd.rows[n - hd.first + 1]
        BY <2>2, <3>1 DEF Inserted
      <3>4. \A n \in DOMAIN log : log[n] \in Row
        BY <1>0 DEF TypeOK
      <3>5. QED BY <3>2, <3>3, <3>4, <1>6
    <2>3. QED BY <2>1, <2>2, <1>1 DEF AppendsHead, hd
  <1>8. failed' \in BOOLEAN /\ chain' \in Seq(B)
    BY <1>0, <1>1, <1>3 DEF AppendsHead, TypeOK
  <1>9. TypeOK'
    <2>1. DOMAIN log' \subseteq 1..(MaxPieces + 4)
      BY <1>0, <1>4, <1>7, PiecesAssumption DEF TypeOK
    <2>2. QED BY <2>1, <1>0, <1>1, <1>7, <1>8 DEF TypeOK
  <1>10. ChainInv'
    <2>1. CASE chain' = <<>>
      <3>1. DOMAIN chain' = {}
        BY <2>1, EmptySeq
      <3>2. QED BY <2>1, <3>1 DEF ChainInv
    <2>2. CASE chain' = Tail(chain) /\ failed' = failed
      <3>1. ~failed
        BY <1>0, <1>1 DEF ChainInv
      <3>2. ASSUME NEW i \in DOMAIN chain'
            PROVE  /\ chain'[i].rows # <<>>
                   /\ chain'[i].first + Len(chain'[i].rows) =
                        IF i < Len(chain') THEN chain'[i + 1].first ELSE wseq + 1
        <4>1. i \in 1..(Len(chain) - 1) /\ i + 1 \in DOMAIN chain /\ chain'[i] = chain[i + 1]
          BY <2>2, <3>2, <1>2
        <4>2. i < Len(chain') <=> i + 1 < Len(chain)
          BY <2>2, <1>2, <4>1
        <4>3. i < Len(chain') => chain'[i + 1] = chain[(i + 1) + 1]
          <5>1. i < Len(chain') => i + 1 \in 1..(Len(chain) - 1)
            BY <4>1, <4>2, <1>2
          <5>2. QED BY <5>1, <2>2, <1>2
        <4>4. /\ chain[i + 1].rows # <<>>
              /\ chain[i + 1].first + Len(chain[i + 1].rows) =
                   IF i + 1 < Len(chain) THEN chain[(i + 1) + 1].first ELSE wseq + 1
          BY <4>1, <1>0 DEF ChainInv
        <4>5. QED BY <4>1, <4>2, <4>3, <4>4
      <3>3. QED BY <3>1, <3>2, <2>2, <1>1 DEF ChainInv
    <2>3. QED BY <2>1, <2>2, <1>1 DEF AppendsHead
  <1>11. CountInv' /\ LogInv' /\ StatusInv'
    <2>1. Extra' = Extra
      BY <1>1 DEF Extra, Awaits
    <2>2. CountInv'
      BY <2>1, <1>0, <1>1 DEF CountInv
    <2>3. LogInv'
      BY <1>0, <1>1, <1>7 DEF LogInv
    <2>4. StatusInv'
      BY <1>1 DEF TableInv, StatusInv, Awaits
    <2>5. QED BY <2>2, <2>3, <2>4
  <1>12. QED BY <1>9, <1>10, <1>11 DEF TableInv

ExecTypes ==
  /\ pc \in {"unclaimed", "turn", "await", "error", "done", "finish", "ended", "dead"}
  /\ next \in {"turn", "done", "finish"} /\ outcome \in Outcomes \cup {None}

LEMMA CountArithmetic ==
  ASSUME NEW p \in Nat, NEW M \in Nat, NEW q \in 0..M, NEW x \in 0..2, NEW y \in 0..2,
         NEW w \in Nat, NEW e \in 0..1, w <= p + x + e, p + x + e <= q + y
  PROVE  w + 0 <= q + y /\ w \in 0..(M + 2)
  OBVIOUS

\* So does a write(), if it numbers no more rows than the count allows.
LEMMA WriteKeepsTable ==
  ASSUME TableInv, StatusInv', NEW events \in Seq(Row), NEW e \in 0..1, Len(events) = e, Write(events),
         UNCHANGED <<tableVars, closerVars, subVars>>,
         ExecTypes', produced' \in 0..MaxPieces,
         produced + Extra + e <= produced' + Extra'
  PROVE  TableInv'
  <1>0. TypeOK /\ ChainInv /\ CountInv /\ LogInv
    BY DEF TableInv
  <1>1. PICK rows, k : Writes(events, rows, k)
    <2>1. Len(events) <= 1
      OBVIOUS
    <2>2. QED BY <1>0, <2>1, WriteShape
  <1>2. /\ wseq' \in Nat /\ wseq <= wseq' /\ pending' \in Seq(Pieces) /\ Len(pending') = 0
        /\ chain' \in Seq([first : 1..wseq', rows : Seq(Row)])
        /\ failed' = failed
        /\ ChainInv'
        /\ wseq' <= produced + Extra + Len(events)
    <2>1. Len(events) \in {0, 1}
      OBVIOUS
    <2>2. QED BY <2>1, <1>1, WritesKeepsChain
  <1>3. /\ Extra \in 0..2 /\ Extra' \in 0..2 /\ produced \in Nat /\ produced' \in Nat
        /\ wseq \in Nat 
    BY <1>0, PiecesAssumption DEF Extra, TypeOK
  <1>4. CountInv' /\ wseq' \in 0..(MaxPieces + 2)
    <2>1. wseq' <= produced + Extra + e
      BY <1>2
    <2> DEFINE x == Extra  y == Extra'  l == Len(pending')
    <2>2. x \in 0..2 /\ y \in 0..2 /\ l = 0 /\ wseq' <= produced + x + e /\ wseq' \in Nat
          /\ produced + x + e <= produced' + y
      BY <1>2, <1>3, <2>1
    <2> HIDE DEF x, y, l
    <2>3. wseq' + l <= produced' + y /\ wseq' \in 0..(MaxPieces + 2)
      <3>1. /\ produced \in Nat /\ produced' \in 0..MaxPieces /\ MaxPieces \in Nat
            /\ x \in 0..2 /\ y \in 0..2 /\ l = 0 /\ wseq' \in Nat /\ e \in 0..1
            /\ wseq' <= produced + x + e /\ produced + x + e <= produced' + y
        BY <2>2, <1>3, PiecesAssumption
      <3>2. wseq' + 0 <= produced' + y /\ wseq' \in 0..(MaxPieces + 2)
        BY <3>1, CountArithmetic
      <3>3. QED BY <3>1, <3>2
    <2>4. QED BY <2>3 DEF x, y, l, CountInv
  <1>6. TypeOK'
    BY <1>0, <1>2, <1>4 DEF TypeOK, ExecTypes, tableVars, closerVars, subVars
  <1>7. LogInv'
    BY <1>0, <1>2, <1>3 DEF LogInv, tableVars, closerVars
  <1>8. QED BY <1>2, <1>4, <1>6, <1>7 DEF TableInv

LEMMA RowFacts ==
  /\ ErrorRow \in Row /\ \A s \in Terminal : DoneRow(s) \in Row
  /\ \A n \in Pieces : PieceRow("event", <<n>>) \in Row
  BY EmptySeq DEF ErrorRow, DoneRow, PieceRow, Row


\* The closer inserts error and done, or done alone, after the row it read last.
LEMMA CloserInsertsShape ==
  ASSUME TypeOK, StatusInv, CloserInserts
  PROVE  /\ \E rows \in Seq(Row) :
              /\ Len(rows) \in {1, 2}
              /\ rows[Len(rows)] = DoneRow(status) /\ (Len(rows) = 2 => rows[1] = ErrorRow)
              /\ log' = log \/ Inserted(maxRead + 1, rows)
         /\ closer = "insert" /\ closer' = "ended"
         /\ UNCHANGED <<status, forgotten, produced, writerVars, execVars, maxRead, swept, subVars>>
  <1> DEFINE rows == (IF status = "cancelled" THEN <<>> ELSE <<ErrorRow>>) \o <<DoneRow(status)>>
  <1>1. /\ closer = "insert" /\ closer' = "ended"
        /\ log' = IF Conflicts(Batch(maxRead + 1, rows)) THEN log
                  ELSE WithBatch(Batch(maxRead + 1, rows))
        /\ UNCHANGED <<status, forgotten, produced, writerVars, execVars, maxRead, swept, subVars>>
    BY DEF CloserInserts, FirstSeq
  <1>2. ErrorRow \in Row /\ DoneRow(status) \in Row
    <2>1. <<>> \in Seq(Pieces)
      BY EmptySeq
    <2>2. status \in Terminal
      BY <1>1 DEF StatusInv, Terminal, Outcomes
    <2>3. QED BY <2>1, <2>2 DEF ErrorRow, DoneRow, PieceRow, Row
  <1>3. /\ rows \in Seq(Row) /\ Len(rows) \in {1, 2} /\ rows[Len(rows)] = DoneRow(status)
        /\ (Len(rows) = 2 => rows[1] = ErrorRow)
    <2>1. CASE status = "cancelled"
      <3>1. rows = <<DoneRow(status)>>
        BY <2>1, <1>2, ConcatEmptySeq
      <3>2. QED BY <3>1, <1>2
    <2>2. CASE status # "cancelled"
      <3>1. rows = <<ErrorRow>> \o <<DoneRow(status)>>
        BY <2>2
      <3>2. /\ <<ErrorRow>> \in Seq(Row) /\ Len(<<ErrorRow>>) = 1
            /\ <<DoneRow(status)>> \in Seq(Row) /\ Len(<<DoneRow(status)>>) = 1
            /\ <<ErrorRow>>[1] = ErrorRow /\ <<DoneRow(status)>>[1] = DoneRow(status)
        BY <1>2
      <3>3. /\ rows \in Seq(Row) /\ Len(rows) = 2
            /\ \A i \in 1..2 : rows[i] = IF i <= 1 THEN <<ErrorRow>>[i] ELSE <<DoneRow(status)>>[i - 1]
        BY <3>1, <3>2, ConcatProperties
      <3>4. rows[1] = ErrorRow /\ rows[2] = DoneRow(status)
        BY <3>2, <3>3
      <3>5. QED BY <3>3, <3>4
    <2>3. QED BY <2>1, <2>2
  <1> HIDE DEF rows
  <1>4. log' = log \/ Inserted(maxRead + 1, rows)
    <2>1. maxRead + 1 \in Nat
      BY DEF TypeOK
    <2>2. QED BY <1>1, <1>3, <2>1, BatchInserted
  <1>5. QED BY <1>1, <1>3, <1>4

\* push() of an event, error or done.
LEMMA PushKeepsTable ==
  ASSUME TableInv, NEW row \in Row, NEW resume \in {"turn", "done", "finish"},
         PushAndAwait(row, resume), produced' \in 0..MaxPieces,
         pc \in {"turn", "error", "done"},
         resume # "turn" => outcome \in Outcomes,
         produced + Extra + 1 <= produced' + Extra'
  PROVE  TableInv'
  <1>1. /\ Write(<<row>>) /\ pc' = "await" /\ next' = resume /\ outcome' = outcome
        /\ UNCHANGED <<tableVars, closerVars, subVars>>
    BY DEF PushAndAwait
  <1>2. ExecTypes' /\ StatusInv'
    BY <1>1 DEF TableInv, TypeOK, ExecTypes, StatusInv, Awaits, tableVars, closerVars
  <1>3. <<row>> \in Seq(Row) /\ Len(<<row>>) = 1 /\ 1 \in 0..1
    OBVIOUS
  <1>4. QED BY <1>1, <1>2, <1>3, WriteKeepsTable

LEMMA PushesKeepTable ==
  ASSUME TableInv, PushEvent \/ PushError \/ PushDone
  PROVE  TableInv'
  <1>0. TypeOK /\ StatusInv /\ produced \in 0..MaxPieces /\ MaxPieces \in Nat
    BY PiecesAssumption DEF TableInv, TypeOK
  <1>1. CASE PushEvent
    <2>1. /\ pc = "turn" /\ produced < MaxPieces /\ produced' = produced + 1
          /\ PushAndAwait(PieceRow("event", <<produced + 1>>), "turn")
      BY <1>1 DEF PushEvent
    <2>2. Extra = 0 /\ Extra' = 0
      BY <2>1 DEF Extra, Awaits, PushAndAwait
    <2>3. produced + 1 \in Pieces
      BY <1>0, <2>1 DEF Pieces
    <2>4. PieceRow("event", <<produced + 1>>) \in Row /\ produced' \in 0..MaxPieces
      BY <1>0, <2>1, <2>3, RowFacts
    <2>5. produced + Extra + 1 <= produced' + Extra'
      BY <1>0, <2>1, <2>2
    <2>6. QED BY <2>1, <2>4, <2>5, PushKeepsTable
  <1>2. CASE PushError
    <2>1. pc = "error" /\ produced' = produced /\ PushAndAwait(ErrorRow, "done")
      BY <1>2 DEF PushError
    <2>2. Extra = 0 /\ Extra' = 1
      BY <2>1 DEF Extra, Awaits, PushAndAwait
    <2>3. outcome \in Outcomes
      BY <1>0, <2>1 DEF StatusInv
    <2>4. produced + Extra + 1 <= produced' + Extra' /\ produced' \in 0..MaxPieces
      BY <1>0, <2>1, <2>2
    <2>5. QED BY <2>1, <2>3, <2>4, RowFacts, PushKeepsTable
  <1>3. CASE PushDone
    <2>1. pc = "done" /\ produced' = produced /\ PushAndAwait(DoneRow(outcome), "finish")
      BY <1>3 DEF PushDone
    <2>2. Extra = 1 /\ Extra' = 2
      BY <2>1 DEF Extra, Awaits, PushAndAwait
    <2>3. outcome \in Outcomes /\ DoneRow(outcome) \in Row
      BY <1>0, <2>1, RowFacts DEF StatusInv, Terminal
    <2>4. produced + Extra + 1 <= produced' + Extra' /\ produced' \in 0..MaxPieces
      BY <1>0, <2>1, <2>2
    <2>5. QED BY <2>1, <2>3, <2>4, PushKeepsTable
  <1>4. QED BY <1>1, <1>2, <1>3

LEMMA FlushKeepsTable ==
  ASSUME TableInv, FlushTimer
  PROVE  TableInv'
  <1>1. Write(<<>>) /\ UNCHANGED <<tableVars, produced, execVars, closerVars, subVars>>
    BY DEF FlushTimer
  <1>2. TypeOK /\ StatusInv /\ produced \in 0..MaxPieces
    BY DEF TableInv, TypeOK
  <1>3. ExecTypes' /\ StatusInv' /\ Extra' = Extra /\ Extra \in 0..2
    BY <1>1, <1>2 DEF TypeOK, ExecTypes, StatusInv, Awaits, Extra, tableVars, closerVars, execVars
  <1>4. produced' = produced
    BY <1>1
  <1>5. <<>> \in Seq(Row) /\ Len(<<>>) = 0 /\ 0 \in 0..1
    BY EmptySeq
  <1>6. produced + Extra + 0 <= produced' + Extra' /\ produced' \in 0..MaxPieces
    BY <1>2, <1>3, <1>4
  <1>7. UNCHANGED <<tableVars, closerVars, subVars>>
    BY <1>1
  <1>8. QED BY <1>1, <1>3, <1>5, <1>6, <1>7, WriteKeepsTable

\* The closer's rows stay within the bound of the log.
LEMMA CloserKeepsTable ==
  ASSUME TableInv, CloserInserts
  PROVE  TableInv'
  <1>0. TypeOK /\ StatusInv /\ ChainInv /\ CountInv /\ LogInv
    BY DEF TableInv
  <1>1. /\ closer = "insert" /\ closer' = "ended"
        /\ UNCHANGED <<status, forgotten, produced, writerVars, execVars, maxRead, swept, subVars>>
    BY <1>0, CloserInsertsShape
  <1>2. PICK rows \in Seq(Row) : Len(rows) \in {1, 2} /\ (log' = log \/ Inserted(maxRead + 1, rows))
    BY <1>0, CloserInsertsShape
  <1>3. PICK l \in 1..2 : Len(rows) = l
    BY <1>2
  <1>4. maxRead \in 0..(MaxPieces + 2) /\ MaxPieces \in Nat
    BY <1>0, PiecesAssumption DEF TypeOK
  <1>5. DOMAIN log' \subseteq 1..(MaxPieces + 4) /\ \A n \in DOMAIN log' : log'[n] \in Row
    <2>1. CASE log' = log
      BY <2>1, <1>0 DEF TypeOK
    <2>2. CASE Inserted(maxRead + 1, rows)
      <3>1. /\ DOMAIN log' = DOMAIN log \cup (maxRead + 1)..(maxRead + 1 + l - 1)
            /\ \A n \in DOMAIN log : log'[n] = log[n]
            /\ \A n \in (maxRead + 1)..(maxRead + 1 + l - 1) :
                 log'[n] = rows[n - (maxRead + 1) + 1]
        BY <2>2, <1>3 DEF Inserted
      <3>2. \A n \in (maxRead + 1)..(maxRead + 1 + l - 1) :
              n \in 1..(MaxPieces + 4) /\ n - (maxRead + 1) + 1 \in 1..l
        BY <1>4
      <3>3. \A i \in 1..l : rows[i] \in Row
        BY <1>3, ElementOfSeq
      <3>4. QED BY <3>1, <3>2, <3>3, <1>0 DEF TypeOK
    <2>3. QED BY <1>2, <2>1, <2>2
  <1>6. TypeOK'
    BY <1>0, <1>1, <1>5 DEF TypeOK, writerVars, execVars, subVars
  <1>7. ChainInv' /\ CountInv' /\ LogInv' /\ StatusInv'
    BY <1>0, <1>1 DEF ChainInv, CountInv, LogInv, StatusInv, Extra, Awaits, writerVars, execVars
  <1>8. QED BY <1>6, <1>7 DEF TableInv

LEMMA PushTextKeepsTable ==
  ASSUME TableInv, PushText
  PROVE  TableInv'
  <1>0. TypeOK /\ StatusInv /\ ChainInv /\ CountInv /\ LogInv
    BY DEF TableInv
  <1>1. /\ pc = "turn" /\ ~failed /\ produced < MaxPieces /\ produced' = produced + 1
        /\ pending' = Append(pending, produced + 1)
        /\ UNCHANGED <<tableVars, chain, wseq, failed, execVars, closerVars, subVars>>
    BY DEF PushText
  <1>2. /\ produced \in Nat /\ MaxPieces \in Nat /\ wseq \in Nat
        /\ produced' \in 0..MaxPieces /\ produced + 1 \in Pieces
    BY <1>0, <1>1, PiecesAssumption DEF TypeOK, Pieces
  <1>3. pending \in Seq(Pieces) /\ Len(pending) \in Nat
    BY <1>0, LenProperties DEF TypeOK
  <1>4. pending' \in Seq(Pieces) /\ Len(pending') = Len(pending) + 1
    BY <1>1, <1>2, <1>3, AppendProperties
  <1>5. TypeOK'
    BY <1>0, <1>1, <1>2, <1>4 DEF TypeOK, tableVars, execVars, closerVars, subVars
  <1>6. CountInv'
    <2>1. Extra = 0 /\ Extra' = 0
      BY <1>1 DEF Extra, Awaits, execVars
    <2>2. wseq' = wseq
      BY <1>1
    <2>3. QED BY <2>1, <2>2, <1>0, <1>1, <1>2, <1>3, <1>4 DEF CountInv
  <1>7. StatusInv' /\ ChainInv' /\ LogInv'
    BY <1>0, <1>1 DEF StatusInv, ChainInv, LogInv, Awaits, tableVars, execVars, closerVars
  <1>8. QED BY <1>5, <1>6, <1>7 DEF TableInv

\* The steps of the executor that write nothing.
Moves == Claim \/ Resume \/ TurnEnds \/ LeaseLost \/ ClosingFails \/ Finish \/ ExecutorDies

\* The steps of the executor that write nothing leave the log alone and keep the order
\* of claim, turn, error, done and finish.
LEMMA MovesShape ==
  ASSUME TypeOK, StatusInv, Moves
  PROVE  /\ UNCHANGED <<log, forgotten, produced, writerVars, next, closerVars, subVars>>
         /\ ExecTypes' /\ StatusInv' /\ status' \in Active \cup Terminal
         /\ Extra \in 0..2 /\ Extra' \in 0..2 /\ Extra <= Extra'
  <1>1. CASE Claim
    BY <1>1 DEF Claim, TypeOK, ExecTypes, StatusInv, Awaits, Extra, Active, tableVars, writerVars, closerVars
  <1>2. CASE Resume
    BY <1>2 DEF Resume, TypeOK, ExecTypes, StatusInv, Awaits, Extra, tableVars, writerVars, closerVars
  <1>3. CASE TurnEnds
    <2>1. outcome' \in Outcomes
      BY <1>3 DEF TurnEnds
    <2>2. QED BY <1>3, <2>1 DEF TurnEnds, TypeOK, ExecTypes, StatusInv, Awaits, Extra, tableVars, writerVars, closerVars
  <1>4. CASE LeaseLost
    BY <1>4 DEF LeaseLost, TypeOK, ExecTypes, StatusInv, Awaits, Extra, tableVars, writerVars, closerVars
  <1>5. CASE ClosingFails
    BY <1>5 DEF ClosingFails, TypeOK, ExecTypes, StatusInv, Awaits, Extra, tableVars, writerVars, closerVars
  <1>6. CASE Finish
    <2>1. outcome \in Outcomes
      BY <1>6 DEF Finish, StatusInv
    <2>2. QED BY <1>6, <2>1 DEF Finish, FinishWhere, TypeOK, ExecTypes, StatusInv, Awaits, Extra, tableVars, writerVars, closerVars, Active, Terminal, Outcomes
  <1>7. CASE ExecutorDies
    BY <1>7 DEF ExecutorDies, TypeOK, ExecTypes, StatusInv, Awaits, Extra, tableVars, writerVars, closerVars
  <1>8. QED BY <1>1, <1>2, <1>3, <1>4, <1>5, <1>6, <1>7 DEF Moves

LEMMA MovesKeepTable ==
  ASSUME TableInv, Moves
  PROVE  TableInv'
  <1>0. TypeOK /\ StatusInv /\ ChainInv /\ CountInv /\ LogInv
    BY DEF TableInv
  <1>1. /\ UNCHANGED <<log, forgotten, produced, writerVars, next, closerVars, subVars>>
        /\ ExecTypes' /\ StatusInv' /\ status' \in Active \cup Terminal
        /\ Extra \in 0..2 /\ Extra' \in 0..2 /\ Extra <= Extra'
    BY <1>0, MovesShape
  <1>2. TypeOK'
    BY <1>0, <1>1 DEF TypeOK, ExecTypes, writerVars, closerVars, subVars
  <1>3. ChainInv' /\ LogInv'
    BY <1>0, <1>1 DEF ChainInv, LogInv, writerVars, closerVars
  <1>4. CountInv'
    <2>1. Len(pending) \in Nat /\ wseq \in Nat /\ produced \in Nat
      BY <1>0, LenProperties DEF TypeOK
    <2>2. wseq' = wseq /\ pending' = pending /\ produced' = produced
      BY <1>1 DEF writerVars
    <2>3. QED BY <1>0, <1>1, <2>1, <2>2 DEF CountInv
  <1>5. QED BY <1>1, <1>2, <1>3, <1>4 DEF TableInv

LEMMA ClosersKeepTable ==
  ASSUME TableInv, (\E s \in Terminal : Close(s)) \/ CloserReads \/ CloserDies \/ Forget
  PROVE  TableInv'
  <1>0. TypeOK /\ StatusInv /\ ChainInv /\ CountInv /\ LogInv
    BY DEF TableInv
  <1>1. UNCHANGED <<produced, writerVars, execVars, subVars>>
    BY DEF Close, CloserReads, CloserDies, Forget
  <1>2. ChainInv' /\ CountInv'
    BY <1>0, <1>1 DEF ChainInv, CountInv, Extra, Awaits, writerVars, execVars
  <1>3. CASE \E s \in Terminal : Close(s)
    <2>1. PICK s \in Terminal : Close(s)
      BY <1>3
    <2>2. /\ s \in {"cancelled", "failed", "interrupted"} /\ status \in Active
          /\ status = "running" => s = "interrupted"
      BY <2>1 DEF Close, MayClose, Active
    <2>3. TypeOK'
      BY <2>1, <1>0 DEF Close, SweepFinds, TypeOK, writerVars, execVars, subVars
    <2>4. StatusInv' /\ LogInv'
      BY <2>1, <2>2, <1>0 DEF Close, StatusInv, LogInv, Active, Awaits, writerVars, execVars
    <2>5. QED BY <2>3, <2>4, <1>2 DEF TableInv
  <1>4. CASE CloserReads
    <2>1. DOMAIN log \subseteq 1..wseq /\ wseq \in Nat
      BY <1>0, <1>4 DEF CloserReads, LogInv, TypeOK
    <2>2. MaxSeq \in 0..wseq
      <3>1. DOMAIN log \cup {0} \in SUBSET (0..wseq)
        BY <2>1
      <3>2. QED BY <3>1, <2>1, MaxFacts DEF MaxSeq
    <2>3. TypeOK'
      BY <2>1, <2>2, <1>0, <1>4, PiecesAssumption DEF CloserReads, TypeOK, tableVars, writerVars, execVars, subVars
    <2>4. StatusInv' /\ LogInv'
      BY <1>0, <1>4 DEF CloserReads, StatusInv, LogInv, Active, Awaits, tableVars, writerVars, execVars
    <2>5. QED BY <2>3, <2>4, <1>2 DEF TableInv
  <1>5. CASE CloserDies
    BY <1>0, <1>2, <1>5 DEF CloserDies, TableInv, TypeOK, StatusInv, LogInv, Active, Awaits, tableVars, writerVars, execVars, subVars
  <1>6. CASE Forget
    <2>1. forgotten' \in 0..2
      <3>1. forgotten \in 0..2
        BY <1>0 DEF TypeOK
      <3>2. {2, forgotten + 1} \in SUBSET (0..3)
        BY <3>1
      <3>3. /\ Min({2, forgotten + 1}) \in {2, forgotten + 1}
            /\ Min({2, forgotten + 1}) <= 2
        BY <3>1, <3>2, MinPair
      <3>4. QED BY <3>1, <3>3, <1>6 DEF Forget
    <2>2. log' = <<>> /\ DOMAIN log' = {}
      BY <1>6 DEF Forget
    <2>3. TypeOK'
      BY <1>0, <1>6, <2>1, <2>2 DEF Forget, TypeOK, writerVars, execVars, closerVars, subVars
    <2>4. StatusInv' /\ LogInv'
      BY <1>0, <1>6, <2>2 DEF Forget, StatusInv, LogInv, Active, Awaits, writerVars, execVars, closerVars
    <2>5. QED BY <2>3, <2>4, <1>2 DEF TableInv
  <1>7. QED BY <1>3, <1>4, <1>5, <1>6

\* Who checks the tail has read an ended status, and no ended status is left.
TailInv == \A u \in Subscribers : sub[u] = "tail" => status \in Terminal

LEMMA FollowKeepsTable ==
  ASSUME TableInv, TailInv, NEW u \in Subscribers, Follow(u)
  PROVE  TableInv'
  <1>0. TypeOK /\ StatusInv /\ ChainInv /\ CountInv /\ LogInv
    BY DEF TableInv
  <1>1. UNCHANGED <<tableVars, produced, writerVars, execVars, closerVars>>
    BY DEF Follow, Poll, EmptyPoll, StatusCheck, TailCheck
  <1>2. /\ sub' \in [Subscribers -> {"poll", "check", "tail", "closed"}]
        /\ cursor' \in [Subscribers -> 0..(MaxPieces + 4)]
        /\ got' \in [Subscribers -> Seq(Pieces)]
        /\ final' \in [Subscribers -> Terminal \cup {None}]
    <2>1. CASE Poll(u)
      <3>1. PICK n \in SeqsAfter(cursor[u]) :
              /\ cursor' = [cursor EXCEPT ![u] = n]
              /\ got' = [got EXCEPT ![u] = @ \o log[n].pieces]
              /\ IF log[n].type = "done"
                 THEN /\ sub' = [sub EXCEPT ![u] = "closed"]
                      /\ final' = [final EXCEPT ![u] = log[n].status]
                 ELSE UNCHANGED <<sub, final>>
        BY <2>1 DEF Poll
      <3>2. n \in 1..(MaxPieces + 4) /\ log[n] \in Row /\ n \in 0..(MaxPieces + 4)
        BY <1>0, PiecesAssumption DEF SeqsAfter, TypeOK
      <3>3. got[u] \o log[n].pieces \in Seq(Pieces)
        <4>1. got[u] \in Seq(Pieces) /\ log[n].pieces \in Seq(Pieces)
          BY <1>0, <3>2 DEF TypeOK, Row
        <4>2. QED BY <4>1, ConcatProperties
      <3>4. log[n].status \in Terminal \cup {None}
        BY <3>2 DEF Row
      <3>5. QED BY <1>0, <3>1, <3>2, <3>3, <3>4 DEF TypeOK
    <2>2. CASE EmptyPoll(u)
      BY <2>2, <1>0 DEF EmptyPoll, Step, TypeOK
    <2>3. CASE StatusCheck(u)
      BY <2>3, <1>0 DEF StatusCheck, Step, TypeOK
    <2>4. CASE TailCheck(u)
      BY <2>4, <1>0 DEF TailCheck, Step, TypeOK, TailInv
    <2>5. QED BY <2>1, <2>2, <2>3, <2>4 DEF Follow
  <1>3. TypeOK'
    BY <1>0, <1>1, <1>2 DEF TypeOK, tableVars, writerVars, execVars, closerVars
  <1>4. StatusInv' /\ ChainInv' /\ CountInv' /\ LogInv'
    BY <1>0, <1>1 DEF StatusInv, ChainInv, CountInv, LogInv, Extra, Awaits, tableVars, writerVars, execVars, closerVars
  <1>5. QED BY <1>3, <1>4 DEF TableInv

\* An ended run keeps its status, as every statement that stores one asks for an active row.
LEMMA StatusStep ==
  ASSUME TableInv, [Next]_vars
  PROVE  status \in Terminal => status' = status
  <1>1. ASSUME Claim \/ (\E s \in Terminal : Close(s)) PROVE status \notin Terminal
    BY <1>1 DEF Claim, Close, MayClose, Terminal, Outcomes
  <1>2. ASSUME Finish, status \in Terminal PROVE status' = status
    BY <1>2 DEF Finish, FinishWhere, Terminal, Outcomes
  <1>3. ASSUME \/ Writer \/ PushText \/ PushEvent \/ Resume \/ TurnEnds \/ LeaseLost \/ PushError \/ PushDone
               \/ ClosingFails \/ ExecutorDies \/ CloserReads \/ CloserInserts \/ CloserDies \/ Forget
               \/ (\E u \in Subscribers : Follow(u)) \/ UNCHANGED vars
        PROVE  status' = status
    BY <1>3 DEF Writer, FlushTimer, AppendBatch, PushText, PushEvent, Resume, TurnEnds, LeaseLost, PushError,
                PushDone, PushAndAwait, ClosingFails, ExecutorDies, CloserReads, CloserInserts, CloserDies,
                Forget, Follow, Poll, EmptyPoll, StatusCheck, TailCheck, vars, tableVars
  <1>4. QED BY <1>1, <1>2, <1>3 DEF Next, Executor, Closer

LEMMA TailStep ==
  ASSUME TableInv, TailInv, [Next]_vars
  PROVE  TailInv'
  <1>1. status \in Terminal => status' = status
    BY StatusStep
  <1>2. sub \in [Subscribers -> {"poll", "check", "tail", "closed"}]
        /\ status \in Active \cup Terminal
    BY DEF TableInv, TypeOK
  <1>3. CASE \E u \in Subscribers : Follow(u)
    <2>1. PICK u \in Subscribers : Follow(u)
      BY <1>3
    <2>2. CASE Poll(u)
      BY <2>2, <1>1, <1>2 DEF Poll, TailInv
    <2>3. CASE EmptyPoll(u)
      BY <2>3, <1>1, <1>2 DEF EmptyPoll, Step, TailInv
    <2>4. CASE StatusCheck(u)
      BY <2>4, <1>1, <1>2 DEF StatusCheck, Step, Ended, TailInv, tableVars
    <2>5. CASE TailCheck(u)
      BY <2>5, <1>1, <1>2 DEF TailCheck, Step, TailInv
    <2>6. QED BY <2>1, <2>2, <2>3, <2>4, <2>5 DEF Follow
  <1>4. CASE ~(\E u \in Subscribers : Follow(u))
    <2>1. UNCHANGED sub
      BY <1>4 DEF Next, Writer, Executor, Closer, FlushTimer, AppendBatch, Claim, PushText, PushEvent, Resume, TurnEnds,
                  LeaseLost, PushError, PushDone, PushAndAwait, ClosingFails, Finish, ExecutorDies, Close,
                  CloserReads, CloserInserts, CloserDies, Forget, vars, subVars
    <2>2. QED BY <2>1, <1>1 DEF TailInv
  <1>5. QED BY <1>3, <1>4

LEMMA TableStep ==
  ASSUME TableInv, TailInv, [Next]_vars
  PROVE  TableInv'
  <1>1. CASE FlushTimer
    BY <1>1, FlushKeepsTable
  <1>2. CASE AppendBatch
    BY <1>2, AppendKeepsTable
  <1>3. CASE PushText
    BY <1>3, PushTextKeepsTable
  <1>4. CASE PushEvent \/ PushError \/ PushDone
    BY <1>4, PushesKeepTable
  <1>5. CASE Moves
    BY <1>5, MovesKeepTable
  <1>6. CASE (\E s \in Terminal : Close(s)) \/ CloserReads \/ CloserDies \/ Forget
    BY <1>6, ClosersKeepTable
  <1>7. CASE CloserInserts
    BY <1>7, CloserKeepsTable
  <1>8. CASE \E u \in Subscribers : Follow(u)
    BY <1>8, FollowKeepsTable
  <1>9. CASE UNCHANGED vars
    BY <1>9 DEF vars, tableVars, writerVars, execVars, closerVars, subVars,
                TableInv, TypeOK, StatusInv, ChainInv, CountInv, LogInv, Awaits, Extra
  <1>10. QED BY <1>1, <1>2, <1>3, <1>4, <1>5, <1>6, <1>7, <1>8, <1>9 DEF Next, Writer, Executor, Closer, Moves

LEMMA TailInvInit == Init => TailInv
  BY DEF Init, TailInv

\* The state of the log, the writer, the closer and the subscribers is well typed; above
\* all, the rows of the log stay within the pieces of the turn and the four rows that close it.
THEOREM TypeCorrect == Spec => []TypeOK
  <1>1. TableInv /\ TailInv /\ [Next]_vars => (TableInv /\ TailInv)'
    BY TableStep, TailStep
  <1>2. TableInv => TypeOK
    BY DEF TableInv
  <1>3. QED BY TableInvInit, TailInvInit, <1>1, <1>2, PTL DEF Spec

-----------------------------------------------------------------------------
\* r is in the log at n, or on its way there.
Placed(n, r) ==
  \/ n \in DOMAIN log /\ log[n] = r
  \/ \E i \in DOMAIN chain : \E j \in DOMAIN chain[i].rows :
       chain[i].rows[j] = r /\ chain[i].first + j - 1 = n

Plain(r) == r.type # "done" /\ r.status = None

\* A write appends its batch at the end of the chain.
LEMMA WritesChain ==
  ASSUME TypeOK, NEW events, NEW rows, NEW k, Writes(events, rows, k)
  PROVE  /\ \A i \in DOMAIN chain' :
              \/ i \in DOMAIN chain /\ chain'[i] = chain[i]
              \/ chain'[i].first = wseq + 1 /\ chain'[i].rows = rows
         /\ chain # <<>> => chain' # <<>> /\ chain'[1] = chain[1]
         /\ chain = <<>> /\ ~failed => IF Len(rows) = 0 THEN chain' = <<>>
                                       ELSE chain' # <<>> /\ chain'[1].first = wseq + 1
  <1> DEFINE b == [first |-> wseq + 1, rows |-> rows]
             B == [first : Nat, rows : Seq(Row)]
             B1 == [first : 1..wseq, rows : Seq(Row)]
  <1>1. chain' = IF failed \/ Len(rows) = 0 THEN chain ELSE Append(chain, b)
    BY DEF Writes
  <1>2. wseq \in Nat /\ chain \in Seq(B1)
    BY DEF TypeOK
  <1>3. B1 \subseteq B
    BY <1>2
  <1>4. b \in B /\ b.rows = rows /\ b.first = wseq + 1
    BY <1>2 DEF Writes
  <1> HIDE DEF b, B, B1
  <1>5. chain \in Seq(B)
    BY <1>2, <1>3, SeqMonotonic
  <1>6. Len(chain) \in Nat /\ DOMAIN chain = 1..Len(chain) /\ (chain = <<>> <=> Len(chain) = 0)
    BY <1>5, LenProperties, EmptySeq
  <1>7. CASE failed \/ Len(rows) = 0
    BY <1>1, <1>7
  <1>8. CASE chain' = Append(chain, b) /\ Len(rows) # 0
    <2>1. /\ chain' \in Seq(B) /\ Len(chain') = Len(chain) + 1
          /\ \A i \in 1..Len(chain) : chain'[i] = chain[i]
          /\ chain'[Len(chain) + 1] = b
      BY <1>4, <1>5, <1>8, AppendProperties
    <2>2. DOMAIN chain' = 1..(Len(chain) + 1) /\ chain' # <<>>
      BY <2>1, <1>6, LenProperties, EmptySeq
    <2>3. \A i \in DOMAIN chain' :
              \/ i \in DOMAIN chain /\ chain'[i] = chain[i]
              \/ chain'[i].first = wseq + 1 /\ chain'[i].rows = rows
      BY <1>4, <1>6, <2>1, <2>2
    <2>4. chain # <<>> => chain'[1] = chain[1]
      BY <1>6, <2>1
    <2>5. chain = <<>> => chain'[1].first = wseq + 1
      BY <1>4, <1>6, <2>1
    <2>6. QED BY <1>8, <2>2, <2>3, <2>4, <2>5
  <1>9. QED BY <1>1, <1>7, <1>8

\* A write places its event at the last number.
LEMMA WriteRows ==
  ASSUME TableInv, NEW events \in Seq(Row), NEW e \in 0..1, Len(events) = e, Write(events), log' = log
  PROVE  \A n, r : Placed(n, r)' => Placed(n, r) \/ Plain(r) \/ (e = 1 /\ r = events[1] /\ n = wseq')
  <1>0. TypeOK
    BY DEF TableInv
  <1>1. PICK rows, k : Writes(events, rows, k)
    <2>1. Len(events) <= 1
      OBVIOUS
    <2>2. QED BY <1>0, <2>1, WriteShape
  <1>2. /\ rows \in Seq(Row) /\ Len(rows) = k + Len(events) /\ k \in {0, 1}
        /\ wseq' = wseq + k + Len(events)
        /\ (k = 1 => rows[1] = PieceRow("text", pending))
        /\ (Len(events) = 1 => rows[k + 1] = events[1])
        /\ chain' = IF failed \/ Len(rows) = 0 THEN chain
                    ELSE Append(chain, [first |-> wseq + 1, rows |-> rows])
    BY <1>1 DEF Writes
  <1>3. \A j \in DOMAIN rows : Plain(rows[j]) \/ (e = 1 /\ rows[j] = events[1] /\ wseq + 1 + j - 1 = wseq')
    <2>1. DOMAIN rows = 1..(k + e)
      BY <1>2, LenProperties
    <2>2. ASSUME NEW j \in 1..(k + e) PROVE (k = 1 /\ j = 1) \/ (e = 1 /\ j = k + 1)
      BY <1>2
    <2>3. k = 1 => Plain(rows[1])
      BY <1>2 DEF PieceRow, Plain
    <2>4. e = 1 => wseq + 1 + (k + 1) - 1 = wseq'
      <3>1. wseq \in Nat /\ k \in Nat /\ wseq' = wseq + k + e
        BY <1>0, <1>2 DEF TypeOK
      <3>2. QED BY <3>1
    <2>5. QED BY <1>2, <2>1, <2>2, <2>3, <2>4
  <1>4. \A i \in DOMAIN chain' :
          \/ i \in DOMAIN chain /\ chain'[i] = chain[i]
          \/ chain'[i].first = wseq + 1 /\ chain'[i].rows = rows
    BY <1>0, <1>1, WritesChain
  <1>5. ASSUME NEW n, NEW r, Placed(n, r)'
        PROVE  Placed(n, r) \/ Plain(r) \/ (e = 1 /\ r = events[1] /\ n = wseq')
    <2>1. CASE n \in DOMAIN log' /\ log'[n] = r
      BY <2>1 DEF Placed
    <2>2. CASE \E i \in DOMAIN chain' : \E j \in DOMAIN chain'[i].rows :
                 chain'[i].rows[j] = r /\ chain'[i].first + j - 1 = n
      <3>1. PICK i \in DOMAIN chain' : \E j \in DOMAIN chain'[i].rows :
                 chain'[i].rows[j] = r /\ chain'[i].first + j - 1 = n
        BY <2>2
      <3>2. PICK j \in DOMAIN chain'[i].rows : chain'[i].rows[j] = r /\ chain'[i].first + j - 1 = n
        BY <3>1
      <3>3. QED BY <3>2, <1>3, <1>4 DEF Placed
    <2>3. QED BY <1>5, <2>1, <2>2 DEF Placed
  <1>6. QED BY <1>5

\* An INSERT moves rows from the chain to the log, at their numbers.
LEMMA AppendRows ==
  ASSUME TypeOK, AppendBatch
  PROVE  /\ \A n, r : Placed(n, r)' => Placed(n, r)
         /\ \A n \in DOMAIN log : n \in DOMAIN log' /\ log'[n] = log[n]
  <1>1. chain # <<>> /\ AppendsHead(Tail(chain))
    BY AppendBatchShape
  <1>2. /\ Len(chain) \in Nat /\ Len(chain) >= 1 /\ DOMAIN chain = 1..Len(chain)
        /\ Head(chain) = chain[1]
        /\ \A i \in 1..Len(chain) : chain[i].first \in 1..wseq /\ chain[i].rows \in Seq(Row)
        /\ DOMAIN Tail(chain) = 1..(Len(chain) - 1)
        /\ \A i \in 1..(Len(chain) - 1) : Tail(chain)[i] = chain[i + 1]
    BY <1>1, ChainFacts
  <1>3. wseq \in Nat
    BY DEF TypeOK
  <1>4. \A i \in DOMAIN chain' : \E j \in DOMAIN chain : chain'[i] = chain[j]
    <2>1. CASE chain' = Tail(chain)
      <3>1. \A i \in 1..(Len(chain) - 1) : i + 1 \in 1..Len(chain)
        BY <1>2
      <3>2. QED BY <2>1, <3>1, <1>2
    <2>2. CASE chain' = <<>>
      BY <2>2, EmptySeq
    <2>3. QED BY <2>1, <2>2, <1>1 DEF AppendsHead
  <1>5. ASSUME NEW n \in DOMAIN log' PROVE Placed(n, log'[n])
    <2>1. CASE log' = log
      BY <2>1 DEF Placed
    <2>2. CASE Inserted(Head(chain).first, Head(chain).rows)
      <3> DEFINE h == chain[1].first  rs == chain[1].rows
      <3>1. h \in 1..wseq /\ rs \in Seq(Row) /\ Len(rs) \in Nat /\ DOMAIN rs = 1..Len(rs)
        BY <1>2, LenProperties
      <3>2. /\ DOMAIN log' = DOMAIN log \cup h..(h + Len(rs) - 1)
            /\ \A x \in DOMAIN log : log'[x] = log[x]
            /\ \A x \in h..(h + Len(rs) - 1) : log'[x] = rs[x - h + 1]
        BY <2>2, <1>2 DEF Inserted
      <3>3. \A x \in h..(h + Len(rs) - 1) : x - h + 1 \in DOMAIN rs /\ h + (x - h + 1) - 1 = x
        <4> DEFINE l == Len(rs)
        <4>1. h \in Nat /\ l \in Nat /\ DOMAIN rs = 1..l
          BY <3>1, <1>3
        <4> HIDE DEF h, rs, l
        <4>2. \A x \in h..(h + l - 1) : x - h + 1 \in 1..l /\ h + (x - h + 1) - 1 = x
          BY <4>1
        <4>3. QED BY <4>1, <4>2 DEF l
      <3>4. \A x \in h..(h + Len(rs) - 1) : \E j \in DOMAIN rs : rs[j] = log'[x] /\ h + j - 1 = x
        BY <3>2, <3>3
      <3>5. 1 \in DOMAIN chain
        BY <1>2
      <3>6. QED BY <3>2, <3>4, <3>5 DEF Placed
    <2>3. QED BY <2>1, <2>2, <1>1 DEF AppendsHead
  <1>6. \A n \in DOMAIN log : n \in DOMAIN log' /\ log'[n] = log[n]
    BY <1>1 DEF AppendsHead, Inserted
  <1>7. ASSUME NEW n, NEW r, Placed(n, r)' PROVE Placed(n, r)
    BY <1>4, <1>5, <1>7 DEF Placed
  <1>8. QED BY <1>6, <1>7

\* The closer's done row carries the status that the run has.
LEMMA CloserRows ==
  ASSUME TypeOK, StatusInv, CloserInserts
  PROVE  /\ \A n, r : Placed(n, r)' => Placed(n, r) \/ Plain(r) \/ r = DoneRow(status)
         /\ \A n \in DOMAIN log : n \in DOMAIN log' /\ log'[n] = log[n]
  <1>1. PICK rows \in Seq(Row) :
              /\ Len(rows) \in {1, 2}
              /\ rows[Len(rows)] = DoneRow(status) /\ (Len(rows) = 2 => rows[1] = ErrorRow)
              /\ log' = log \/ Inserted(maxRead + 1, rows)
    BY CloserInsertsShape
  <1>2. chain' = chain
    BY CloserInsertsShape DEF writerVars
  <1>3. PICK l \in 1..2 : Len(rows) = l
    BY <1>1
  <1>4. maxRead \in Nat
    BY DEF TypeOK
  <1>5. Plain(ErrorRow)
    BY DEF ErrorRow, PieceRow, Plain
  <1>6. \A n \in DOMAIN log' : \/ n \in DOMAIN log /\ log'[n] = log[n]
                               \/ log'[n] = DoneRow(status) \/ log'[n] = ErrorRow
    <2>1. CASE log' = log
      BY <2>1
    <2>2. CASE Inserted(maxRead + 1, rows)
      <3>1. /\ DOMAIN log' = DOMAIN log \cup (maxRead + 1)..(maxRead + 1 + l - 1)
            /\ \A n \in DOMAIN log : log'[n] = log[n]
            /\ \A n \in (maxRead + 1)..(maxRead + 1 + l - 1) :
                 log'[n] = rows[n - (maxRead + 1) + 1]
        BY <2>2, <1>3 DEF Inserted
      <3>2. \A n \in (maxRead + 1)..(maxRead + 1 + l - 1) :
              n - (maxRead + 1) + 1 = l \/ (l = 2 /\ n - (maxRead + 1) + 1 = 1)
        BY <1>4
      <3>3. QED BY <3>1, <3>2, <1>1, <1>3
    <2>3. QED BY <2>1, <2>2, <1>1
  <1>7. \A n \in DOMAIN log : n \in DOMAIN log' /\ log'[n] = log[n]
    BY <1>1 DEF Inserted
  <1>8. QED BY <1>2, <1>5, <1>6, <1>7 DEF Placed

\* Only PushDone and CloserInserts make a done row, and only Forget takes rows away.
LEMMA RowsStep ==
  ASSUME TableInv, [Next]_vars
  PROVE  /\ \A n, r : Placed(n, r)' =>
              \/ Placed(n, r) \/ Plain(r)
              \/ PushDone /\ r = DoneRow(outcome) /\ n = wseq'
              \/ CloserInserts /\ r = DoneRow(status)
         /\ ~Forget => \A n \in DOMAIN log : n \in DOMAIN log' /\ log'[n] = log[n]
  <1>0. TypeOK /\ StatusInv
    BY DEF TableInv
  <1>1. CASE FlushTimer
    <2>1. <<>> \in Seq(Row) /\ Len(<<>>) = 0 /\ 0 \in 0..1
      BY EmptySeq
    <2>2. Write(<<>>) /\ log' = log
      BY <1>1 DEF FlushTimer, tableVars
    <2>3. \A n, r : Placed(n, r)' => Placed(n, r) \/ Plain(r) \/ (0 = 1 /\ r = <<>>[1] /\ n = wseq')
      BY <2>1, <2>2, WriteRows
    <2>4. QED BY <2>2, <2>3
  <1>2. ASSUME NEW row \in Row, NEW resume, PushAndAwait(row, resume)
        PROVE  /\ \A n, r : Placed(n, r)' => Placed(n, r) \/ Plain(r) \/ (r = row /\ n = wseq')
               /\ \A n \in DOMAIN log : n \in DOMAIN log' /\ log'[n] = log[n]
    <2>1. <<row>> \in Seq(Row) /\ Len(<<row>>) = 1 /\ <<row>>[1] = row /\ 1 \in 0..1
      OBVIOUS
    <2>2. Write(<<row>>) /\ log' = log
      BY <1>2 DEF PushAndAwait, tableVars
    <2> DEFINE es == <<row>>
    <2>0. es \in Seq(Row) /\ Len(es) = 1 /\ es[1] = row /\ 1 \in 0..1 /\ Write(es)
      BY <2>1, <2>2
    <2> HIDE DEF es
    <2>3. \A n, r : Placed(n, r)' => Placed(n, r) \/ Plain(r) \/ (1 = 1 /\ r = es[1] /\ n = wseq')
      BY <2>0, <2>2, WriteRows
    <2>4. QED BY <2>0, <2>2, <2>3
  <1>3. CASE PushEvent
    <2>1. produced + 1 \in Pieces
      BY <1>0, <1>3, PiecesAssumption DEF PushEvent, TypeOK, Pieces
    <2>2. PieceRow("event", <<produced + 1>>) \in Row
      BY <2>1, RowFacts
    <2>3. Plain(PieceRow("event", <<produced + 1>>))
      BY DEF PieceRow, Plain
    <2>4. QED BY <1>2, <1>3, <2>2, <2>3 DEF PushEvent
  <1>4. CASE PushError
    <2>1. ErrorRow \in Row /\ Plain(ErrorRow)
      BY RowFacts DEF ErrorRow, PieceRow, Plain
    <2>2. QED BY <1>2, <1>4, <2>1 DEF PushError
  <1>5. CASE PushDone
    <2>1. DoneRow(outcome) \in Row
      BY <1>0, <1>5, RowFacts DEF StatusInv, PushDone, Terminal
    <2>2. QED BY <1>2, <1>5, <2>1 DEF PushDone
  <1>6. CASE AppendBatch
    BY <1>0, <1>6, AppendRows
  <1>7. CASE CloserInserts
    BY <1>0, <1>7, CloserRows
  <1>8. CASE Forget
    <2>1. DOMAIN log' = {} /\ chain' = chain
      BY <1>8 DEF Forget, writerVars
    <2>2. QED BY <2>1, <1>8 DEF Placed
  <1>9. CASE \/ PushText \/ Moves \/ (\E s \in Terminal : Close(s)) \/ CloserReads \/ CloserDies
             \/ (\E u \in Subscribers : Follow(u)) \/ UNCHANGED vars
    <2>1. log' = log /\ chain' = chain
      BY <1>9 DEF PushText, Moves, Claim, Resume, TurnEnds, LeaseLost, ClosingFails, Finish, ExecutorDies, Close,
                  CloserReads, CloserDies, Follow, Poll, EmptyPoll, StatusCheck, TailCheck, vars, tableVars, writerVars
    <2>2. QED BY <2>1 DEF Placed
  <1>10. QED BY <1>1, <1>3, <1>4, <1>5, <1>6, <1>7, <1>8, <1>9 DEF Next, Writer, Executor, Closer, Moves

\* A dead executor's rows stay in its chain.
LEMMA DeadRows ==
  ASSUME TypeOK, StatusInv, [Next]_vars, pc = "dead", NEW n \in DOMAIN log'
  PROVE  \/ n \in DOMAIN log /\ log[n] = log'[n]
         \/ Plain(log'[n])
         \/ CloserInserts /\ log'[n] = DoneRow(status)
  <1>1. CASE CloserInserts
    <2>1. PICK rows \in Seq(Row) :
              /\ Len(rows) \in {1, 2}
              /\ rows[Len(rows)] = DoneRow(status) /\ (Len(rows) = 2 => rows[1] = ErrorRow)
              /\ log' = log \/ Inserted(maxRead + 1, rows)
      BY <1>1, CloserInsertsShape
    <2>2. PICK l \in 1..2 : Len(rows) = l
      BY <2>1
    <2>3. maxRead \in Nat
      BY DEF TypeOK
    <2>4. CASE Inserted(maxRead + 1, rows) /\ n \notin DOMAIN log
      <3>1. /\ n \in (maxRead + 1)..(maxRead + 1 + l - 1)
            /\ log'[n] = rows[n - (maxRead + 1) + 1]
        BY <2>2, <2>4 DEF Inserted
      <3>2. n - (maxRead + 1) + 1 = l \/ (l = 2 /\ n - (maxRead + 1) + 1 = 1)
        BY <2>3, <3>1
      <3>3. Plain(ErrorRow)
        BY DEF ErrorRow, PieceRow, Plain
      <3>4. QED BY <3>1, <3>2, <3>3, <2>1, <2>2, <1>1
    <2>5. QED BY <2>1, <2>4 DEF Inserted
  <1>2. CASE Forget
    BY <1>2 DEF Forget
  <1>3. CASE ~CloserInserts /\ ~Forget
    <2>1. log' = log
      BY <1>3 DEF Next, Writer, Executor, Closer, FlushTimer, AppendBatch, Claim, PushText, PushEvent, Resume, TurnEnds,
                  LeaseLost, PushError, PushDone, PushAndAwait, ClosingFails, Finish, ExecutorDies, Close, CloserReads,
                  CloserDies, Follow, Poll, EmptyPoll, StatusCheck, TailCheck, vars, tableVars
    <2>2. QED BY <2>1
  <1>4. QED BY <1>1, <1>2, <1>3

\* The sweep found what lets the executor's outcome stand beside `interrupted`.
Excused == swept = "told" \/ (swept = "alive" /\ ~LeaseHolds)

\* Its executor has told its end, or is about to, or could not.
Past == pc \in {"dead", "finish", "ended"} \/ Awaits("finish")

\* The status a done row may carry: the run's, or the one its executor is about
\* to store, or would have stored if the run had not been swept.
DoneOK(s) ==
  /\ s \in Terminal
  /\ \/ status = s
     \/ status \in Terminal /\ outcome = s /\ Excused /\ Past
     \/ status = "running" /\ outcome = s /\ (pc \in {"dead", "finish"} \/ Awaits("finish"))

\* Who works on in a run that has ended was alive when it was swept. The rows of a
\* dead executor's chain stay where they are.
DoneInv ==
  /\ status \in Terminal /\ pc \notin {"unclaimed", "ended", "dead"} => Excused
  /\ \A n \in DOMAIN log : log[n].type = "done" => DoneOK(log[n].status)
  /\ pc # "dead" => \A n, r : Placed(n, r) /\ r.type = "done" => DoneOK(r.status)
  /\ \A u \in Subscribers : IF sub[u] = "closed" THEN DoneOK(final[u]) ELSE final[u] = None
  /\ status = "running" /\ (\E u \in Subscribers : sub[u] = "closed") => DoneLogged

\* The sweep of a running run.
LEMMA SweepExcuses ==
  ASSUME TableInv, NEW s \in Terminal, Close(s), status = "running"
  PROVE  /\ status' = "interrupted" /\ UNCHANGED <<log, chain, execVars, subVars>>
         /\ DoneLogged \/ pc # "dead" => Excused'
  <1>1. s = "interrupted" /\ (LeaseHolds => pc = "dead") /\ swept' = SweepFinds
    BY DEF Close, MayClose
  <1>2. QED BY <1>1 DEF Close, SweepFinds, Excused, writerVars

\* Once a done row may say s, it may say so for ever, but for a sweep that finds
\* neither the row nor an executor.
LEMMA DoneOKStep ==
  ASSUME TableInv, [Next]_vars, NEW s, DoneOK(s),
         status = "running" /\ (\E t \in Terminal : Close(t)) => DoneLogged \/ pc # "dead"
  PROVE  DoneOK(s)'
  <1>0. s \in Terminal /\ StatusInv
    BY DEF DoneOK, TableInv
  <1>1. CASE status = s
    <2>1. status' = status
      BY <1>0, <1>1, StatusStep DEF Terminal
    <2>2. QED BY <2>1, <1>0, <1>1 DEF DoneOK
  <1>2. CASE status \in Terminal /\ outcome = s /\ Excused /\ Past
    <2>1. status' = status
      BY <1>2, StatusStep
    <2>2. swept' = swept
      BY <1>2 DEF Next, Writer, Executor, Closer, FlushTimer, AppendBatch, Claim, PushText, PushEvent, Resume, TurnEnds,
                  LeaseLost, PushError, PushDone, PushAndAwait, ClosingFails, Finish, ExecutorDies, Close, MayClose, Terminal,
                  Outcomes, CloserReads, CloserInserts, CloserDies, Forget, Follow, Poll, EmptyPoll, StatusCheck, TailCheck,
                  vars, closerVars
    <2>3. outcome' = outcome /\ Past'
      BY <1>2 DEF Next, Writer, Executor, Closer, FlushTimer, AppendBatch, Claim, PushText, PushEvent, Resume, TurnEnds,
                  LeaseLost, PushError, PushDone, PushAndAwait, ClosingFails, Finish, ExecutorDies, Close, CloserReads,
                  CloserInserts, CloserDies, Forget, Follow, Poll, EmptyPoll, StatusCheck, TailCheck,
                  vars, execVars, Past, Awaits, Terminal, Outcomes
    <2>4. QED BY <1>0, <1>2, <2>1, <2>2, <2>3 DEF DoneOK, Excused
  <1>3. CASE /\ status = "running" /\ outcome = s
             /\ pc \in {"dead", "finish"} \/ Awaits("finish")
    <2>1. CASE Moves
      BY <1>0, <1>3, <2>1 DEF Moves, Claim, Resume, TurnEnds, LeaseLost, ClosingFails, Finish, FinishWhere, ExecutorDies,
               DoneOK, Awaits, tableVars, execVars
    <2>2. CASE \E t \in Terminal : Close(t)
      <3>1. PICK t \in Terminal : Close(t)
        BY <2>2
      <3>2. status' = "interrupted" /\ UNCHANGED execVars /\ Excused'
        BY <1>3, <2>2, <3>1, SweepExcuses
      <3>3. QED BY <1>0, <1>3, <3>2 DEF DoneOK, Past, Awaits, execVars, Terminal
    <2>3. ASSUME \/ Writer \/ PushText \/ PushEvent \/ PushError \/ PushDone
               \/ CloserReads \/ CloserInserts \/ CloserDies \/ Forget
               \/ (\E u \in Subscribers : Follow(u)) \/ UNCHANGED vars
          PROVE  UNCHANGED <<status, execVars>>
      BY <2>3, <1>3 DEF Writer, FlushTimer, AppendBatch, PushText, PushEvent, PushError, PushDone, Awaits,
                CloserReads, CloserInserts, CloserDies, execVars,
                Forget, Follow, Poll, EmptyPoll, StatusCheck, TailCheck, vars, tableVars
    <2>4. UNCHANGED <<status, execVars>> => DoneOK(s)'
      BY <1>0, <1>3 DEF DoneOK, Awaits, execVars
    <2>5. QED BY <2>1, <2>2, <2>3, <2>4 DEF Next, Executor, Closer, Moves
  <1>4. QED BY <1>1, <1>2, <1>3 DEF DoneOK

\* Nobody works on in an ended run but an executor swept alive.
LEMMA ExcusedStep ==
  ASSUME TableInv, DoneInv, [Next]_vars, (status \in Terminal)', (pc \notin {"unclaimed", "ended", "dead"})'
  PROVE  Excused'
  <1>0. StatusInv /\ TypeOK
    BY DEF TableInv
  <1>1. CASE \E s \in Terminal : Close(s)
    <2>1. PICK s \in Terminal : Close(s)
      BY <1>1
    <2>2. pc' = pc /\ status \in Active
      BY <2>1 DEF Close, MayClose, execVars, Active
    <2>3. status = "running"
      BY <1>0, <2>2 DEF StatusInv, Active
    <2>4. QED BY <2>1, <2>2, <2>3, SweepExcuses
  <1>2. CASE ~(\E s \in Terminal : Close(s))
    <2>1. swept' = swept
      BY <1>2 DEF Next, Writer, Executor, Closer, FlushTimer, AppendBatch, Claim, PushText, PushEvent, Resume, TurnEnds,
                  LeaseLost, PushError, PushDone, PushAndAwait, ClosingFails, Finish, ExecutorDies,
                  CloserReads, CloserInserts, CloserDies, Forget, Follow, Poll, EmptyPoll, StatusCheck, TailCheck,
                  vars, closerVars
    <2>2. pc \notin {"ended", "dead"} /\ (pc = "unclaimed" => status \notin Terminal \/ Claim)
      BY <1>2, <1>0 DEF Next, Writer, Executor, Closer, FlushTimer, AppendBatch, Claim, PushText, PushEvent, Resume, TurnEnds,
                  LeaseLost, PushError, PushDone, PushAndAwait, ClosingFails, Finish, ExecutorDies,
                  CloserReads, CloserInserts, CloserDies, Forget, Follow, Poll, EmptyPoll, StatusCheck, TailCheck,
                  vars, execVars
    <2>3. status \in Terminal /\ pc # "unclaimed"
      BY <1>2, <2>2 DEF Next, Writer, Executor, Closer, FlushTimer, AppendBatch, Claim, PushText, PushEvent, Resume, TurnEnds,
                  LeaseLost, PushError, PushDone, PushAndAwait, ClosingFails, Finish, ExecutorDies,
                  CloserReads, CloserInserts, CloserDies, Forget, Follow, Poll, EmptyPoll, StatusCheck, TailCheck,
                  vars, execVars, tableVars, Terminal, Outcomes
    <2>4. QED BY <2>1, <2>2, <2>3 DEF DoneInv, Excused
  <1>3. QED BY <1>1, <1>2

LEMMA DoneStep ==
  ASSUME TableInv, TailInv, DoneInv, [Next]_vars
  PROVE  DoneInv'
  <1>0. TypeOK /\ StatusInv
    BY DEF TableInv
  <1>1. \A s : DoneOK(s) /\ (DoneLogged \/ pc # "dead" \/ status # "running") => DoneOK(s)'
    BY DoneOKStep
  <1>2. ASSUME NEW n, NEW r, Placed(n, r)', r.type = "done",
               Placed(n, r) => DoneOK(r.status) /\ (DoneLogged \/ pc # "dead" \/ status # "running")
        PROVE  DoneOK(r.status)'
    <2>1. CASE Placed(n, r)
      BY <1>1, <1>2, <2>1
    <2>2. CASE PushDone /\ r = DoneRow(outcome)
      <3>1. pc = "done" /\ outcome \in Outcomes /\ status \in {"running", "interrupted"}
        BY <1>0, <2>2 DEF PushDone, StatusInv
      <3>2. /\ status' = status /\ outcome' = outcome /\ swept' = swept /\ pc' = "await" /\ next' = "finish"
        BY <2>2 DEF PushDone, PushAndAwait, tableVars, closerVars
      <3>3. status \in Terminal => Excused
        BY <3>1 DEF DoneInv
      <3>4. QED BY <2>2, <3>1, <3>2, <3>3 DEF DoneOK, DoneRow, Awaits, Terminal, Excused, Past
    <2>3. CASE CloserInserts /\ r = DoneRow(status)
      BY <1>0, <2>3 DEF CloserInserts, StatusInv, DoneOK, DoneRow, Terminal, Outcomes
    <2>4. QED BY <1>2, <2>1, <2>2, <2>3, RowsStep DEF Plain
  <1>3. ASSUME NEW u \in Subscribers
        PROVE  IF sub'[u] = "closed" THEN DoneOK(final[u])' ELSE final'[u] = None
    <2>0. /\ sub \in [Subscribers -> {"poll", "check", "tail", "closed"}]
          /\ final \in [Subscribers -> Terminal \cup {None}]
          /\ IF sub[u] = "closed" THEN DoneOK(final[u]) ELSE final[u] = None
          /\ sub[u] = "closed" => DoneLogged \/ status # "running"
      BY <1>0 DEF TypeOK, DoneInv
    <2>1. CASE sub'[u] = sub[u] /\ final'[u] = final[u]
      BY <1>1, <2>0, <2>1 DEF DoneOK, Awaits, Excused, Past
    <2>2. CASE Poll(u)
      <3>1. PICK n \in SeqsAfter(cursor[u]) :
                IF log[n].type = "done"
                 THEN /\ sub' = [sub EXCEPT ![u] = "closed"]
                      /\ final' = [final EXCEPT ![u] = log[n].status]
                 ELSE UNCHANGED <<sub, final>>
        BY <2>2 DEF Poll
      <3>2. n \in DOMAIN log
        BY DEF SeqsAfter
      <3>3. CASE log[n].type = "done"
        <4>1. PICK s : s = log[n].status
          OBVIOUS
        <4>2. DoneOK(s)'
          BY <3>2, <3>3, <4>1, <1>1 DEF DoneInv, DoneLogged
        <4>3. sub'[u] = "closed" /\ final'[u] = s
          BY <3>1, <3>3, <4>1, <2>0
        <4>4. QED BY <4>2, <4>3 DEF DoneOK, Awaits, Excused, Past
      <3>4. QED BY <3>1, <3>3, <2>1
    <2>3. CASE EmptyPoll(u) \/ StatusCheck(u)
      BY <2>0, <2>3 DEF EmptyPoll, StatusCheck, Step
    <2>4. CASE TailCheck(u)
      BY <2>0, <2>4 DEF TailCheck, Step, TailInv, DoneOK, tableVars
    <2>5. CASE \E v \in Subscribers : v # u /\ Follow(v)
      BY <2>0, <2>1, <2>5 DEF Follow, Poll, EmptyPoll, StatusCheck, TailCheck, Step
    <2>6. CASE ~(\E v \in Subscribers : Follow(v))
      <3>1. UNCHANGED <<sub, final>>
        BY <2>6 DEF Next, Writer, Executor, Closer, FlushTimer, AppendBatch, Claim, PushText, PushEvent, Resume, TurnEnds,
                  LeaseLost, PushError, PushDone, PushAndAwait, ClosingFails, Finish, ExecutorDies, Close,
                  CloserReads, CloserInserts, CloserDies, Forget, vars, subVars
      <3>2. QED BY <3>1, <2>1
    <2>7. QED BY <2>2, <2>3, <2>4, <2>5, <2>6 DEF Follow
  <1>4. ASSUME pc' # "dead", NEW n, NEW r, Placed(n, r)', r.type = "done" PROVE DoneOK(r.status)'
    <2>1. pc # "dead"
      BY <1>4 DEF Next, Writer, Executor, Closer, FlushTimer, AppendBatch, Claim, PushText, PushEvent, Resume, TurnEnds,
                  LeaseLost, PushError, PushDone, PushAndAwait, ClosingFails, Finish, ExecutorDies, Close, CloserReads,
                  CloserInserts, CloserDies, Forget, Follow, Poll, EmptyPoll, StatusCheck, TailCheck, vars, execVars
    <2>2. Placed(n, r) => DoneOK(r.status)
      BY <2>1, <1>4 DEF DoneInv
    <2>3. QED BY <1>2, <1>4, <2>1, <2>2
  <1>5. ASSUME NEW n \in DOMAIN log', log'[n].type = "done" PROVE DoneOK(log[n].status)'
    <2>1. PICK r : r = log'[n]
      OBVIOUS
    <2>2. Placed(n, r)' /\ r.type = "done"
      BY <1>5, <2>1 DEF Placed
    <2>3. CASE pc # "dead"
      <3>1. Placed(n, r) => DoneOK(r.status)
        BY <2>2, <2>3 DEF DoneInv
      <3>2. DoneOK(r.status)'
        BY <1>2, <2>2, <2>3, <3>1
      <3>3. QED BY <3>2, <2>1 DEF DoneOK, Awaits, Excused, Past
    <2>4. CASE pc = "dead"
      <3>1. \/ n \in DOMAIN log /\ log[n] = r
            \/ CloserInserts /\ r = DoneRow(status)
        BY <1>0, <1>5, <2>1, <2>2, <2>4, DeadRows DEF Plain
      <3>2. CASE n \in DOMAIN log /\ log[n] = r
        <4>1. DoneOK(r.status) /\ DoneLogged
          BY <2>2, <3>2 DEF DoneInv, DoneLogged
        <4>2. DoneOK(r.status)'
          BY <4>1, <1>1
        <4>3. QED BY <4>2, <2>1 DEF DoneOK, Awaits, Excused, Past
      <3>3. CASE CloserInserts /\ r = DoneRow(status)
        <4>1. DoneOK(r.status)'
          BY <1>0, <3>3 DEF CloserInserts, StatusInv, DoneOK, DoneRow, Terminal, Outcomes
        <4>2. QED BY <4>1, <2>1 DEF DoneOK, Awaits, Excused, Past
      <3>4. QED BY <3>1, <3>2, <3>3
    <2>5. QED BY <2>3, <2>4
  <1>6. ASSUME status' = "running", NEW u \in Subscribers, sub'[u] = "closed" PROVE DoneLogged'
    <2>1. status # "queued" => status = "running"
      BY <1>0, <1>6, StatusStep DEF TypeOK, Active, Terminal, Outcomes
    <2>2. ~Forget
      BY <2>1, <1>6 DEF Forget, Terminal, Outcomes
    <2>3. DoneLogged => DoneLogged'
      BY <2>2, RowsStep DEF DoneLogged
    <2>4. CASE sub[u] = "closed" /\ status = "running"
      BY <2>3, <2>4 DEF DoneInv
    <2>5. CASE status = "queued"
      <3>1. sub[u] # "closed"
        <4>1. ~DoneOK(final[u])
          BY <2>5 DEF DoneOK, Terminal, Outcomes
        <4>2. QED BY <4>1 DEF DoneInv
      <3>2. Claim \/ sub'[u] = sub[u] \/ status' = status
        BY StatusStep DEF Next, Writer, Executor, Closer, FlushTimer, AppendBatch, Claim, PushText, PushEvent, Resume, TurnEnds,
                  LeaseLost, PushError, PushDone, PushAndAwait, ClosingFails, Finish, ExecutorDies, Close, CloserReads,
                  CloserInserts, CloserDies, Forget, Follow, Poll, EmptyPoll, StatusCheck, TailCheck, vars, subVars, tableVars
      <3>3. QED BY <1>6, <2>5, <3>1, <3>2 DEF Claim, subVars
    <2>6. CASE sub[u] # "closed" /\ status = "running"
      <3>1. PICK v \in Subscribers : Follow(v)
        BY <1>6, <2>6 DEF Next, Writer, Executor, Closer, FlushTimer, AppendBatch, Claim, PushText, PushEvent, Resume, TurnEnds,
                  LeaseLost, PushError, PushDone, PushAndAwait, ClosingFails, Finish, ExecutorDies, Close, CloserReads,
                  CloserInserts, CloserDies, Forget, vars, subVars
      <3>2. sub \in [Subscribers -> {"poll", "check", "tail", "closed"}]
        BY <1>0 DEF TypeOK
      <3>3. v = u /\ ~EmptyPoll(v) /\ ~StatusCheck(v) /\ ~TailCheck(v)
        BY <1>6, <2>6, <3>1, <3>2 DEF Follow, Poll, EmptyPoll, StatusCheck, TailCheck, Step, TailInv, Terminal, Outcomes
      <3>4. Poll(u)
        BY <3>1, <3>3 DEF Follow
      <3>5. PICK n \in SeqsAfter(cursor[u]) : log[n].type = "done"
        BY <1>6, <2>6, <3>2, <3>4 DEF Poll
      <3>6. DoneLogged
        BY <3>5 DEF DoneLogged, SeqsAfter
      <3>7. QED BY <3>6, <2>3
    <2>7. QED BY <2>1, <2>4, <2>5, <2>6
  <1>7. status' \in Terminal /\ pc' \notin {"unclaimed", "ended", "dead"} => Excused'
    BY ExcusedStep
  <1>8. QED BY <1>3, <1>4, <1>5, <1>6, <1>7 DEF DoneInv

\* The status a subscriber was told, by a done row or by the streamer's read of the run,
\* is the run's. Any other is the executor's own outcome, and the run was swept with that
\* done row in the log, or, where leases do not hold, with its executor alive.
THEOREM DoneTellsStatus == Spec => []DoneNotContradicted
  <1>1. Init => DoneInv
    BY DEF Init, DoneInv, Placed, Terminal, Outcomes
  <1>2. TableInv /\ TailInv /\ DoneInv /\ [Next]_vars => (TableInv /\ TailInv /\ DoneInv)'
    BY TableStep, TailStep, DoneStep
  <1>3. DoneInv => DoneNotContradicted
    BY DEF DoneInv, DoneNotContradicted, DoneOK, Excused, Terminal, Outcomes
  <1>4. QED BY TableInvInit, TailInvInit, <1>1, <1>2, <1>3, PTL DEF Spec

-----------------------------------------------------------------------------
\* p[n] pieces are in the rows up to n, as the writer numbers them.
PieceMap(p) ==
  /\ p \in [Nat -> Nat] /\ p[0] = 0
  /\ \A a, b \in Nat : a <= b => p[a] <= p[b]
  /\ \A n \in Nat : wseq <= n => p[n] = p[wseq]
  /\ p[wseq] <= produced /\ pending = Span(p[wseq], produced)

ChainPieces(p) ==
  \A i \in DOMAIN chain : \A j \in DOMAIN chain[i].rows :
    chain[i].rows[j].pieces = Span(p[chain[i].first + j - 2], p[chain[i].first + j - 1])

LogPieces(p) == \A n \in DOMAIN log : log[n].pieces \in {<<>>, Span(p[n - 1], p[n])}

\* Pieces in their order, none of them from after the cursor.
InOrder(s) == \A i, j \in DOMAIN s : i < j => s[i] < s[j]
GotPieces(p) ==
  \A u \in Subscribers : InOrder(got[u]) /\ \A i \in DOMAIN got[u] : got[u][i] <= p[cursor[u]]

Stream(p) == PieceMap(p) /\ ChainPieces(p) /\ LogPieces(p) /\ GotPieces(p)

\* The rows of the chain have numbers that the writer has given out.
LEMMA ChainRange ==
  ASSUME TypeOK, ChainInv, NEW i \in DOMAIN chain, NEW j \in DOMAIN chain[i].rows
  PROVE  /\ chain[i].first \in 1..wseq /\ j \in Nat \ {0}
         /\ chain[i].first + j - 1 \in 1..wseq /\ chain[i].first + j - 2 \in 0..wseq
  <1>1. chain # <<>>
    BY EmptySeq
  <1>2. /\ Len(chain) \in Nat /\ DOMAIN chain = 1..Len(chain)
        /\ \A x \in 1..Len(chain) : chain[x].first \in 1..wseq /\ chain[x].rows \in Seq(Row)
    BY <1>1, ChainFacts
  <1>3. wseq \in Nat
    BY DEF TypeOK
  <1>4. chain[i].first + Len(chain[i].rows) <= wseq + 1
    <2>1. chain[i].first + Len(chain[i].rows) =
                  IF i < Len(chain) THEN chain[i + 1].first ELSE wseq + 1
      BY DEF ChainInv
    <2>2. i < Len(chain) => chain[i + 1].first \in 1..wseq
      <3>1. i < Len(chain) => i + 1 \in 1..Len(chain)
        BY <1>2
      <3>2. QED BY <3>1, <1>2
    <2>3. QED BY <2>1, <2>2, <1>3
  <1>5. j \in 1..Len(chain[i].rows) /\ Len(chain[i].rows) \in Nat
    BY <1>2, LenProperties
  <1> DEFINE f == chain[i].first  l == Len(chain[i].rows)
  <1>6. f \in 1..wseq /\ l \in Nat /\ f + l <= wseq + 1 /\ j \in 1..l
    BY <1>2, <1>4, <1>5
  <1> HIDE DEF f, l
  <1>7. f \in 1..wseq /\ j \in Nat \ {0} /\ f + j - 1 \in 1..wseq /\ f + j - 2 \in 0..wseq
    BY <1>3, <1>6
  <1>8. QED BY <1>7 DEF f

\* q goes on from p after w: to x with k rows, and to y with e more.
ExtendsMap(q, p, w, k, e, x, y) ==
  /\ q \in [Nat -> Nat]
  /\ \A n \in 0..w : q[n] = p[n]
  /\ \A n \in Nat : p[n] <= q[n]
  /\ \A a, b \in Nat : a <= b => q[a] <= q[b]
  /\ q[w + k] = x
  /\ \A n \in Nat : w + k + e <= n => q[n] = y

\* A map of pieces goes on with a text row up to x and an event up to y.
LEMMA MapExtended ==
  ASSUME NEW p \in [Nat -> Nat], NEW w \in Nat, NEW k \in 0..1, NEW e \in 0..1,
         NEW x \in Nat, NEW y \in Nat, p[w] <= x, x <= y, k = 0 => p[w] = x, e = 0 => y = x,
         \A a, b \in Nat : a <= b => p[a] <= p[b],
         \A n \in Nat : w <= n => p[n] = p[w]
  PROVE  \E q : ExtendsMap(q, p, w, k, e, x, y)
  <1> DEFINE q == [n \in Nat |-> IF n <= w THEN p[n] ELSE IF n <= w + k THEN x ELSE y]
  <1>1. /\ q \in [Nat -> Nat]
        /\ \A n \in Nat : q[n] = IF n <= w THEN p[n] ELSE IF n <= w + k THEN x ELSE y
    OBVIOUS
  <1> HIDE DEF q
  <1>2. \A n \in 0..w : q[n] = p[n]
    BY <1>1
  <1>3. \A n \in Nat : p[n] \in Nat
    OBVIOUS
  <1>4. \A n \in Nat : p[n] <= q[n]
    <2> SUFFICES ASSUME NEW n \in Nat PROVE p[n] <= q[n]
      OBVIOUS
    <2>1. n <= w => q[n] = p[n]
      BY <1>1
    <2>2. ~(n <= w) => q[n] \in {x, y} /\ p[n] = p[w]
      BY <1>1
    <2>3. QED BY <2>1, <2>2, <1>3
  <1>5. ASSUME NEW a \in Nat, NEW b \in Nat, a <= b PROVE q[a] <= q[b]
    <2>1. CASE b <= w
      <3>1. a <= w /\ q[a] = p[a] /\ q[b] = p[b]
        BY <2>1, <1>1, <1>5
      <3>2. QED BY <3>1, <1>5
    <2>2. CASE ~(b <= w) /\ a <= w
      <3>1. p[a] <= p[w] /\ q[a] = p[a]
        BY <2>2, <1>1
      <3>2. q[b] \in {x, y}
        BY <2>2, <1>1
      <3>3. QED BY <3>1, <3>2, <1>3
    <2>3. CASE ~(a <= w)
      <3>1. q[a] = (IF a <= w + k THEN x ELSE y) /\ q[b] = (IF b <= w + k THEN x ELSE y)
        BY <2>3, <1>1, <1>5
      <3>2. QED BY <3>1, <1>5
    <2>4. QED BY <2>1, <2>2, <2>3
  <1>6. q[w + k] = x
    <2>1. CASE k = 0
      BY <2>1, <1>1
    <2>2. CASE k = 1
      BY <2>2, <1>1
    <2>3. QED BY <2>1, <2>2
  <1>7. ASSUME NEW n \in Nat, w + k + e <= n PROVE q[n] = y
    <2>1. q[n] = IF n <= w THEN p[n] ELSE IF n <= w + k THEN x ELSE y
      BY <1>1
    <2>2. CASE n <= w
      <3>1. n = w /\ k = 0 /\ e = 0
        BY <1>7, <2>2
      <3>2. QED BY <2>1, <3>1
    <2>3. CASE ~(n <= w)
      <3>1. n <= w + k => e = 0
        BY <1>7, <2>3
      <3>2. QED BY <2>1, <2>3, <3>1
    <2>4. QED BY <2>2, <2>3
  <1>8. QED BY <1>1, <1>2, <1>4, <1>5, <1>6, <1>7 DEF ExtendsMap

\* A write of k text rows and e others, as far as their pieces go.
WritesPieces(rows, k, e) ==
  /\ k \in 0..1 /\ DOMAIN rows = 1..(k + e)
  /\ k = 0 <=> pending = <<>>
  /\ k = 1 => rows[1].pieces = pending
  /\ e = 1 => rows[k + 1].pieces = Span(produced, produced')
  /\ wseq' = wseq + k + e /\ pending' = <<>>
  /\ \A i \in DOMAIN chain' : \/ i \in DOMAIN chain /\ chain'[i] = chain[i]
                              \/ chain'[i].first = wseq + 1 /\ chain'[i].rows = rows
  /\ produced' \in Nat /\ produced <= produced' /\ (e = 0 => produced' = produced)

\* A write continues the map: the text row holds what was pending, the event the rest.
LEMMA PiecesExtended ==
  ASSUME TypeOK, ChainInv, NEW p, PieceMap(p), ChainPieces(p),
         NEW rows, NEW k \in 0..1, NEW e \in 0..1, WritesPieces(rows, k, e)
  PROVE  \E q : /\ PieceMap(q)' /\ ChainPieces(q)'
                /\ \A n \in 0..wseq : q[n] = p[n]
                /\ \A n \in Nat : p[n] <= q[n]
  <1>1. /\ wseq \in Nat /\ produced \in Nat
        /\ wseq' = wseq + k + e /\ pending' = <<>> /\ (k = 0 <=> pending = <<>>)
        /\ produced' \in Nat /\ produced <= produced' /\ (e = 0 => produced' = produced)
    BY DEF TypeOK, WritesPieces
  <1>2. /\ p \in [Nat -> Nat] /\ p[0] = 0
        /\ \A a, b \in Nat : a <= b => p[a] <= p[b]
        /\ \A n \in Nat : wseq <= n => p[n] = p[wseq]
        /\ p[wseq] \in Nat /\ p[wseq] <= produced /\ pending = Span(p[wseq], produced)
    BY <1>1 DEF PieceMap
  <1>3. k = 0 => p[wseq] = produced
    BY <1>1, <1>2, SpanFacts
  <1>4. PICK q \in [Nat -> Nat] :
          /\ \A n \in 0..wseq : q[n] = p[n]
          /\ \A n \in Nat : p[n] <= q[n]
          /\ \A a, b \in Nat : a <= b => q[a] <= q[b]
          /\ q[wseq + k] = produced
          /\ \A n \in Nat : wseq + k + e <= n => q[n] = produced'
    <2> DEFINE w == wseq  x == produced  y == produced'
    <2>1. /\ p \in [Nat -> Nat] /\ w \in Nat /\ x \in Nat /\ y \in Nat
          /\ p[w] <= x /\ x <= y /\ (k = 0 => p[w] = x) /\ (e = 0 => y = x)
          /\ \A a, b \in Nat : a <= b => p[a] <= p[b]
          /\ \A n \in Nat : w <= n => p[n] = p[w]
      BY <1>1, <1>2, <1>3
    <2> HIDE DEF w, x, y
    <2>2. \E q : ExtendsMap(q, p, w, k, e, x, y)
      BY <2>1, MapExtended
    <2>3. QED BY <2>2 DEF w, x, y, ExtendsMap
  <1>5. q[wseq] = p[wseq] /\ q[0] = 0 /\ q[wseq'] = produced'
        /\ \A n \in Nat : wseq' <= n => q[n] = q[wseq']
    <2>1. wseq \in 0..wseq /\ 0 \in 0..wseq /\ wseq' \in Nat /\ wseq' = wseq + k + e
      BY <1>1
    <2>2. QED BY <2>1, <1>2, <1>4
  <1>6. pending' = Span(q[wseq'], produced')
    <2> DEFINE y == produced'
    <2>1. y \in Nat
      BY <1>1
    <2> HIDE DEF y
    <2>2. Span(y, y) = <<>>
      BY <2>1, SpanFacts
    <2>3. QED BY <2>2, <1>1, <1>5 DEF y
  <1>7. PieceMap(q)'
    <2>1. q[wseq'] <= produced'
      BY <1>1, <1>5
    <2>2. QED BY <2>1, <1>4, <1>5, <1>6 DEF PieceMap
  <1>8. ASSUME NEW i \in DOMAIN chain', NEW j \in DOMAIN chain'[i].rows
         PROVE chain'[i].rows[j].pieces = Span(q[chain'[i].first + j - 2], q[chain'[i].first + j - 1])
    <2>1. CASE i \in DOMAIN chain /\ chain'[i] = chain[i]
      <3>1. chain[i].first + j - 1 \in 1..wseq /\ chain[i].first + j - 2 \in 0..wseq
        BY <2>1, ChainRange
      <3>2. chain[i].first + j - 1 \in 0..wseq
        BY <3>1
      <3>3. chain[i].rows[j].pieces = Span(p[chain[i].first + j - 2], p[chain[i].first + j - 1])
        BY <2>1 DEF ChainPieces
      <3>4. QED BY <2>1, <3>1, <3>2, <3>3, <1>4
    <2>2. CASE chain'[i].first = wseq + 1 /\ chain'[i].rows = rows
      <3>1. j \in 1..(k + e)
        BY <2>2 DEF WritesPieces
      <3>2. wseq + 1 + j - 2 = wseq + j - 1 /\ wseq + 1 + j - 1 = wseq + j
        <4>1. j \in Nat /\ wseq \in Nat
          BY <3>1, <1>1
        <4>2. QED BY <4>1
      <3>3. CASE k = 1 /\ j = 1
        <4>1. wseq + j - 1 = wseq /\ wseq + j = wseq + k
          BY <3>3, <1>1
        <4>2. rows[j].pieces = Span(p[wseq], produced)
          BY <3>3, <1>2 DEF WritesPieces
        <4>3. QED BY <2>2, <3>2, <4>1, <4>2, <1>4, <1>5
      <3>4. CASE e = 1 /\ j = k + 1
        <4>1. wseq + j - 1 = wseq + k /\ wseq + j = wseq'
          BY <3>4, <1>1
        <4>2. rows[j].pieces = Span(produced, produced')
          BY <3>4 DEF WritesPieces
        <4>3. QED BY <2>2, <3>2, <4>1, <4>2, <1>4, <1>5
      <3>5. QED BY <3>1, <3>3, <3>4
    <2>3. QED BY <2>1, <2>2 DEF WritesPieces
  <1>9. ChainPieces(q)'
    BY <1>8 DEF ChainPieces
  <1>10. QED BY <1>4, <1>7, <1>9

LEMMA WritePieces ==
  ASSUME TableInv, NEW p, PieceMap(p), ChainPieces(p),
         NEW events \in Seq(Row), NEW e \in 0..1, Len(events) = e, Write(events),
         produced' \in Nat, produced <= produced', e = 0 => produced' = produced,
         e = 1 => events[1].pieces = Span(produced, produced')
  PROVE  \E q : /\ PieceMap(q)' /\ ChainPieces(q)'
                /\ \A n \in 0..wseq : q[n] = p[n]
                /\ \A n \in Nat : p[n] <= q[n]
  <1>1. TypeOK /\ ChainInv
    BY DEF TableInv
  <1>2. PICK rows, k : Writes(events, rows, k)
    <2>1. Len(events) <= 1
      OBVIOUS
    <2>2. QED BY <1>1, <2>1, WriteShape
  <1>3. /\ k \in 0..1 /\ DOMAIN rows = 1..(k + e) /\ (k = 0 <=> pending = <<>>)
        /\ (k = 1 => rows[1].pieces = pending)
        /\ (e = 1 => rows[k + 1].pieces = Span(produced, produced'))
        /\ wseq' = wseq + k + e /\ pending' = <<>>
    BY <1>2, LenProperties DEF Writes, PieceRow
  <1>4. \A i \in DOMAIN chain' : \/ i \in DOMAIN chain /\ chain'[i] = chain[i]
                                 \/ chain'[i].first = wseq + 1 /\ chain'[i].rows = rows
    BY <1>1, <1>2, WritesChain
  <1>5. WritesPieces(rows, k, e)
    BY <1>3, <1>4 DEF WritesPieces
  <1>6. QED BY <1>1, <1>3, <1>5, PiecesExtended

WriteStep == FlushTimer \/ PushEvent \/ PushError \/ PushDone

LEMMA WriteStepPieces ==
  ASSUME TableInv, NEW p, PieceMap(p), ChainPieces(p), WriteStep
  PROVE  /\ \E q : /\ PieceMap(q)' /\ ChainPieces(q)'
                   /\ \A n \in 0..wseq : q[n] = p[n]
                   /\ \A n \in Nat : p[n] <= q[n]
         /\ UNCHANGED <<tableVars, closerVars, subVars>> /\ failed' = failed
  <1>0. TypeOK /\ StatusInv /\ produced \in Nat /\ produced + 1 \in Nat
    BY DEF TableInv, TypeOK
  <1>1. CASE FlushTimer
    <2>1. Write(<<>>) /\ produced' = produced /\ UNCHANGED <<tableVars, closerVars, subVars>>
      BY <1>1 DEF FlushTimer
    <2>2. <<>> \in Seq(Row) /\ Len(<<>>) = 0 /\ 0 \in 0..1
      BY EmptySeq
    <2>3. produced' \in Nat /\ produced <= produced' /\ (0 = 1 => <<>>[1].pieces = Span(produced, produced'))
      BY <2>1, <1>0
    <2>4. QED BY <2>1, <2>2, <2>3, WritePieces DEF Write
  <1>2. ASSUME NEW row \in Row, NEW resume, PushAndAwait(row, resume),
               produced' \in Nat, produced <= produced', row.pieces = Span(produced, produced')
        PROVE  /\ \E q : /\ PieceMap(q)' /\ ChainPieces(q)'
                         /\ \A n \in 0..wseq : q[n] = p[n]
                         /\ \A n \in Nat : p[n] <= q[n]
               /\ UNCHANGED <<tableVars, closerVars, subVars>> /\ failed' = failed
    <2>1. Write(<<row>>) /\ UNCHANGED <<tableVars, closerVars, subVars>>
      BY <1>2 DEF PushAndAwait
    <2>2. <<row>> \in Seq(Row) /\ Len(<<row>>) = 1 /\ 1 \in 0..1 /\ <<row>>[1] = row
      BY <1>2
    <2>3. 1 = 0 => produced' = produced
      OBVIOUS
    <2>4. <<row>>[1].pieces = Span(produced, produced')
      BY <1>2, <2>2
    <2>5. \E q : /\ PieceMap(q)' /\ ChainPieces(q)'
                 /\ \A n \in 0..wseq : q[n] = p[n]
                 /\ \A n \in Nat : p[n] <= q[n]
      BY <1>2, <2>1, <2>2, <2>3, <2>4, WritePieces
    <2>6. QED BY <2>1, <2>5 DEF Write
  <1>3. CASE PushEvent
    <2>1. produced + 1 \in Pieces /\ produced' = produced + 1
      BY <1>0, <1>3, PiecesAssumption DEF PushEvent, TypeOK, Pieces
    <2>2. PieceRow("event", <<produced + 1>>) \in Row
      BY <2>1, RowFacts
    <2>3. PieceRow("event", <<produced + 1>>).pieces = Span(produced, produced')
      BY <1>0, <2>1, SpanOne DEF PieceRow
    <2>4. produced' \in Nat /\ produced <= produced'
      BY <1>0, <2>1
    <2>5. QED BY <1>2, <1>3, <2>2, <2>3, <2>4 DEF PushEvent
  <1>4. Span(produced, produced) = <<>>
    BY <1>0, SpanFacts
  <1>5. CASE PushError
    <2>1. ErrorRow \in Row /\ ErrorRow.pieces = <<>>
      BY RowFacts DEF ErrorRow, PieceRow
    <2>2. produced' = produced
      BY <1>5 DEF PushError
    <2>3. QED BY <1>0, <1>2, <1>4, <1>5, <2>1, <2>2 DEF PushError
  <1>6. CASE PushDone
    <2>1. DoneRow(outcome) \in Row /\ DoneRow(outcome).pieces = <<>>
      BY <1>0, <1>6, RowFacts DEF StatusInv, PushDone, Terminal, DoneRow
    <2>2. produced' = produced
      BY <1>6 DEF PushDone
    <2>3. QED BY <1>0, <1>2, <1>4, <1>6, <2>1, <2>2 DEF PushDone
  <1>7. QED BY <1>1, <1>3, <1>5, <1>6 DEF WriteStep

\* What is in the log or was received stays described by the continued map.
LEMMA WriteStream ==
  ASSUME TableInv, NEW p, Stream(p), WriteStep
  PROVE  \E q : Stream(q)' /\ \A n \in 0..wseq : q[n] = p[n]
  <1>1. PICK q : /\ PieceMap(q)' /\ ChainPieces(q)'
                 /\ \A n \in 0..wseq : q[n] = p[n]
                 /\ \A n \in Nat : p[n] <= q[n]
    BY WriteStepPieces DEF Stream
  <1>2. UNCHANGED <<log, subVars>>
    BY WriteStepPieces DEF Stream, tableVars
  <1>3. /\ wseq \in Nat /\ DOMAIN log \subseteq Nat \ {0}
        /\ cursor \in [Subscribers -> Nat] /\ got \in [Subscribers -> Seq(Nat)]
    <2>1. wseq \in Nat /\ DOMAIN log \subseteq Nat \ {0} /\ cursor \in [Subscribers -> Nat]
      BY PiecesAssumption DEF TableInv, TypeOK
    <2>2. Pieces \subseteq Nat /\ got \in [Subscribers -> Seq(Pieces)]
      BY PiecesAssumption DEF TableInv, TypeOK, Pieces
    <2>3. QED BY <2>1, <2>2, SeqMonotonic
  <1>4. p \in [Nat -> Nat] /\ q \in [Nat -> Nat]
    BY <1>1 DEF Stream, PieceMap
  <1>5. LogPieces(q)'
    <2> SUFFICES ASSUME NEW n \in DOMAIN log PROVE log[n].pieces \in {<<>>, Span(q[n - 1], q[n])}
      BY <1>2 DEF LogPieces
    <2>1. log[n].pieces \in {<<>>, Span(p[n - 1], p[n])} /\ n \in Nat /\ n - 1 \in Nat
      BY <1>3 DEF Stream, LogPieces
    <2>2. CASE n <= wseq
      <3>1. q[n] = p[n] /\ q[n - 1] = p[n - 1]
        BY <2>1, <2>2, <1>1, <1>3
      <3>2. QED BY <2>1, <3>1
    <2>3. CASE ~(n <= wseq)
      <3>1. p[n] = p[wseq] /\ p[n - 1] = p[wseq] /\ p[wseq] \in Nat
        BY <2>1, <2>3, <1>3, <1>4 DEF Stream, PieceMap
      <3> DEFINE c == p[wseq]
      <3>2. c \in Nat
        BY <3>1
      <3> HIDE DEF c
      <3>4. Span(c, c) = <<>>
        BY <3>2, SpanFacts
      <3>5. Span(p[n - 1], p[n]) = <<>>
        BY <3>1, <3>4 DEF c
      <3>6. QED BY <2>1, <3>5
    <2>4. QED BY <2>2, <2>3
  <1>6. GotPieces(q)'
    <2> SUFFICES ASSUME NEW u \in Subscribers
                 PROVE  InOrder(got[u]) /\ \A i \in DOMAIN got[u] : got[u][i] <= q[cursor[u]]
      BY <1>2 DEF GotPieces, InOrder, subVars
    <2>1. InOrder(got[u]) /\ \A i \in DOMAIN got[u] : got[u][i] <= p[cursor[u]]
      BY DEF Stream, GotPieces
    <2>2. p[cursor[u]] <= q[cursor[u]] /\ p[cursor[u]] \in Nat /\ q[cursor[u]] \in Nat
      BY <1>1, <1>3, <1>4
    <2>3. \A i \in DOMAIN got[u] : got[u][i] \in Nat
      <3>1. got[u] \in Seq(Nat)
        BY <1>3
      <3>2. QED BY <3>1, ElementOfSeq, LenProperties
    <2>4. QED BY <2>1, <2>2, <2>3
  <1>7. QED BY <1>1, <1>5, <1>6 DEF Stream

LEMMA TextStream ==
  ASSUME TableInv, NEW p, Stream(p), PushText
  PROVE  Stream(p)'
  <1>1. /\ produced' = produced + 1 /\ pending' = Append(pending, produced + 1)
        /\ UNCHANGED <<tableVars, chain, wseq, failed, subVars>>
    BY DEF PushText
  <1>2. produced \in Nat /\ wseq \in Nat
    BY DEF TableInv, TypeOK
  <1>3. p[wseq] \in Nat /\ p[wseq] <= produced /\ pending = Span(p[wseq], produced)
    BY <1>2 DEF Stream, PieceMap
  <1>4. pending' = Span(p[wseq], produced + 1)
    BY <1>1, <1>2, <1>3, SpanAppend
  <1>5. PieceMap(p)'
    <2>1. wseq' = wseq /\ p[wseq] <= produced'
      BY <1>1, <1>2, <1>3
    <2>2. QED BY <2>1, <1>1, <1>4 DEF Stream, PieceMap
  <1>6. ChainPieces(p)' /\ LogPieces(p)' /\ GotPieces(p)'
    BY <1>1 DEF Stream, ChainPieces, LogPieces, GotPieces, InOrder, tableVars, subVars
  <1>7. QED BY <1>5, <1>6 DEF Stream

\* An INSERT of the executor leaves the map as it is.
LEMMA AppendStream ==
  ASSUME TableInv, NEW p, Stream(p), AppendBatch
  PROVE  Stream(p)'
  <1>0. TypeOK /\ wseq \in Nat
    BY DEF TableInv, TypeOK
  <1>1. /\ chain # <<>> /\ AppendsHead(Tail(chain))
        /\ UNCHANGED <<status, forgotten, produced, pending, wseq, execVars, closerVars, subVars>>
    BY <1>0, AppendBatchShape
  <1>2. /\ Len(chain) \in Nat /\ Len(chain) >= 1 /\ DOMAIN chain = 1..Len(chain)
        /\ Head(chain) = chain[1]
        /\ \A i \in 1..Len(chain) : chain[i].first \in 1..wseq /\ chain[i].rows \in Seq(Row)
        /\ DOMAIN Tail(chain) = 1..(Len(chain) - 1)
        /\ \A i \in 1..(Len(chain) - 1) : Tail(chain)[i] = chain[i + 1]
    BY <1>0, <1>1, ChainFacts
  <1>3. PieceMap(p)' /\ GotPieces(p)'
    BY <1>1 DEF Stream, PieceMap, GotPieces, InOrder, subVars
  <1>4. ChainPieces(p)'
    <2>1. CASE chain' = Tail(chain)
      <3>1. \A i \in 1..(Len(chain) - 1) : i + 1 \in 1..Len(chain)
        BY <1>2
      <3>2. QED BY <2>1, <3>1, <1>2 DEF Stream, ChainPieces
    <2>2. CASE chain' = <<>>
      BY <2>2, EmptySeq DEF ChainPieces
    <2>3. QED BY <2>1, <2>2, <1>1 DEF AppendsHead
  <1>5. LogPieces(p)'
    <2>1. CASE log' = log
      BY <2>1 DEF Stream, LogPieces
    <2>2. CASE Inserted(Head(chain).first, Head(chain).rows)
      <3> DEFINE h == chain[1].first  rs == chain[1].rows  l == Len(rs)
      <3>1. h \in 1..wseq /\ rs \in Seq(Row) /\ l \in Nat /\ DOMAIN rs = 1..l
        BY <1>2, LenProperties
      <3>2. /\ DOMAIN log' = DOMAIN log \cup h..(h + l - 1)
            /\ \A n \in DOMAIN log : log'[n] = log[n]
            /\ \A n \in h..(h + l - 1) : log'[n] = rs[n - h + 1]
        BY <2>2, <1>2 DEF Inserted
      <3>3. \A j \in DOMAIN rs : rs[j].pieces = Span(p[h + j - 2], p[h + j - 1])
        BY <1>2 DEF Stream, ChainPieces
      <3> HIDE DEF h, rs, l
      <3>4. ASSUME NEW n \in h..(h + l - 1) PROVE log'[n].pieces = Span(p[n - 1], p[n])
        <4>1. n - h + 1 \in 1..l /\ h + (n - h + 1) - 2 = n - 1 /\ h + (n - h + 1) - 1 = n
          BY <3>1, <1>0
        <4>2. rs[n - h + 1].pieces = Span(p[h + (n - h + 1) - 2], p[h + (n - h + 1) - 1])
          BY <4>1, <3>1, <3>3
        <4>3. QED BY <4>1, <4>2, <3>2
      <3>5. QED BY <3>2, <3>4 DEF Stream, LogPieces
    <2>3. QED BY <2>1, <2>2, <1>1 DEF AppendsHead
  <1>6. QED BY <1>3, <1>4, <1>5 DEF Stream

\* The closer's rows hold no pieces, and a deleted log holds no rows.
LEMMA CloserStream ==
  ASSUME TableInv, NEW p, Stream(p), CloserInserts \/ Forget
  PROVE  Stream(p)'
  <1>0. TypeOK /\ StatusInv
    BY DEF TableInv
  <1>1. UNCHANGED <<produced, writerVars, subVars>>
    BY <1>0, CloserInsertsShape DEF Forget
  <1>2. PieceMap(p)' /\ ChainPieces(p)' /\ GotPieces(p)'
    BY <1>1 DEF Stream, PieceMap, ChainPieces, GotPieces, InOrder, writerVars, subVars
  <1>3. CASE CloserInserts
    <2>1. PICK rows \in Seq(Row) :
              /\ Len(rows) \in {1, 2}
              /\ rows[Len(rows)] = DoneRow(status) /\ (Len(rows) = 2 => rows[1] = ErrorRow)
              /\ log' = log \/ Inserted(maxRead + 1, rows)
      BY <1>0, <1>3, CloserInsertsShape
    <2>2. PICK l \in 1..2 : Len(rows) = l
      BY <2>1
    <2>3. maxRead \in Nat
      BY <1>0 DEF TypeOK
    <2>4. DoneRow(status).pieces = <<>> /\ ErrorRow.pieces = <<>>
      BY DEF DoneRow, ErrorRow, PieceRow
    <2>5. CASE log' = log
      BY <2>5, <1>2 DEF Stream, LogPieces
    <2>6. CASE Inserted(maxRead + 1, rows)
      <3>1. /\ DOMAIN log' = DOMAIN log \cup (maxRead + 1)..(maxRead + 1 + l - 1)
            /\ \A n \in DOMAIN log : log'[n] = log[n]
            /\ \A n \in (maxRead + 1)..(maxRead + 1 + l - 1) :
                 log'[n] = rows[n - (maxRead + 1) + 1]
        BY <2>2, <2>6 DEF Inserted
      <3>2. \A n \in (maxRead + 1)..(maxRead + 1 + l - 1) :
              n - (maxRead + 1) + 1 = l \/ (l = 2 /\ n - (maxRead + 1) + 1 = 1)
        BY <2>3
      <3>3. \A n \in (maxRead + 1)..(maxRead + 1 + l - 1) : log'[n].pieces = <<>>
        BY <3>1, <3>2, <2>1, <2>2, <2>4
      <3>4. LogPieces(p)'
        BY <3>1, <3>3 DEF Stream, LogPieces
      <3>5. QED BY <3>4, <1>2 DEF Stream
    <2>7. QED BY <2>1, <2>5, <2>6
  <1>4. CASE Forget
    <2>1. DOMAIN log' = {}
      BY <1>4 DEF Forget
    <2>2. QED BY <2>1, <1>2 DEF Stream, LogPieces
  <1>5. QED BY <1>3, <1>4

\* A later stretch keeps a sequence of pieces in order.
LEMMA InOrderConcat ==
  ASSUME NEW s \in Seq(Nat), InOrder(s), NEW a \in Nat, NEW b \in Nat, a <= b,
         \A i \in DOMAIN s : s[i] <= a
  PROVE  LET t == s \o Span(a, b) IN InOrder(t) /\ \A i \in DOMAIN t : t[i] <= b
  <1> DEFINE r == Span(a, b)  t == s \o r  l == Len(s)  m == b - a
  <1>1. r \in Seq(Nat) /\ Len(r) = m /\ m \in Nat /\ \A i \in 1..m : r[i] = a + i
    <2>1. m \in Nat
      OBVIOUS
    <2>2. r \in Seq(Nat) /\ Len(r) = b - a /\ \A i \in 1..(b - a) : r[i] = a + i
      BY SpanFacts
    <2>3. QED BY <2>1, <2>2
  <1>2. l \in Nat /\ DOMAIN s = 1..l
    BY LenProperties
  <1>3. \A i \in 1..l : s[i] \in Nat /\ s[i] <= a
    BY <1>2, ElementOfSeq
  <1> HIDE DEF r, m, l
  <1>4. /\ t \in Seq(Nat) /\ Len(t) = l + m
        /\ \A i \in 1..(l + m) : t[i] = IF i <= l THEN s[i] ELSE r[i - l]
    BY <1>1, ConcatProperties DEF l
  <1> HIDE DEF t
  <1>5. DOMAIN t = 1..(l + m)
    BY <1>4, LenProperties
  <1>6. \A i \in 1..(l + m) : t[i] = IF i <= l THEN s[i] ELSE a + (i - l)
    <2> SUFFICES ASSUME NEW i \in 1..(l + m), ~(i <= l) PROVE r[i - l] = a + (i - l)
      BY <1>4
    <2>1. i - l \in 1..m
      BY <1>1, <1>2
    <2>2. QED BY <2>1, <1>1
  <1>7. ASSUME NEW i \in 1..(l + m) PROVE t[i] <= b
    <2>1. t[i] <= a \/ (t[i] = a + (i - l) /\ i - l \in 1..m)
      BY <1>1, <1>2, <1>3, <1>6
    <2>2. m = b - a
      BY DEF m
    <2>3. a <= b /\ t[i] \in Nat
      BY <1>2, <1>3, <1>6, <1>1
    <2>4. QED BY <2>1, <2>2, <2>3
  <1>8. ASSUME NEW i \in 1..(l + m), NEW j \in 1..(l + m), i < j PROVE t[i] < t[j]
    <2>1. CASE j <= l
      <3>1. i \in DOMAIN s /\ j \in DOMAIN s /\ t[i] = s[i] /\ t[j] = s[j]
        BY <2>1, <1>1, <1>2, <1>6, <1>8
      <3>2. QED BY <3>1, <1>8 DEF InOrder
    <2>2. CASE i <= l /\ ~(j <= l)
      <3>1. t[i] = s[i] /\ s[i] \in Nat /\ s[i] <= a /\ t[j] = a + (j - l)
        BY <2>2, <1>1, <1>2, <1>3, <1>6, <1>8
      <3>2. QED BY <3>1, <2>2, <1>1, <1>2
    <2>3. CASE ~(i <= l)
      <3>1. t[i] = a + (i - l) /\ t[j] = a + (j - l)
        BY <2>3, <1>1, <1>2, <1>6, <1>8
      <3>2. QED BY <3>1, <1>8, <1>1, <1>2
    <2>4. QED BY <2>1, <2>2, <2>3
  <1>9. InOrder(t) /\ \A i \in DOMAIN t : t[i] <= b
    BY <1>5, <1>7, <1>8 DEF InOrder
  <1>10. QED BY <1>9 DEF t, r

\* A poll hands over the next row above the cursor, hence later pieces.
LEMMA PollStream ==
  ASSUME TableInv, NEW p, Stream(p), NEW u \in Subscribers, Poll(u)
  PROVE  Stream(p)'
  <1>0. TypeOK
    BY DEF TableInv
  <1>1. UNCHANGED <<tableVars, produced, writerVars>>
    BY DEF Poll
  <1>2. PieceMap(p)' /\ ChainPieces(p)' /\ LogPieces(p)'
    BY <1>1 DEF Stream, PieceMap, ChainPieces, LogPieces, tableVars, writerVars
  <1>3. PICK n \in SeqsAfter(cursor[u]) : /\ cursor' = [cursor EXCEPT ![u] = n]
                                          /\ got' = [got EXCEPT ![u] = @ \o log[n].pieces]
    BY DEF Poll
  <1>4. /\ cursor \in [Subscribers -> Nat] /\ got \in [Subscribers -> Seq(Nat)]
        /\ n \in DOMAIN log /\ n \in Nat \ {0} /\ cursor[u] \in Nat /\ cursor[u] <= n - 1 /\ n - 1 \in Nat
    <2>1. cursor \in [Subscribers -> Nat] /\ DOMAIN log \subseteq Nat \ {0}
      BY <1>0, PiecesAssumption DEF TypeOK
    <2>2. Pieces \subseteq Nat /\ got \in [Subscribers -> Seq(Pieces)]
      BY <1>0, PiecesAssumption DEF TypeOK, Pieces
    <2>3. got \in [Subscribers -> Seq(Nat)]
      BY <2>2, SeqMonotonic
    <2>4. QED BY <2>1, <2>3 DEF SeqsAfter
  <1>5. /\ p[cursor[u]] \in Nat /\ p[n - 1] \in Nat /\ p[n] \in Nat
        /\ p[cursor[u]] <= p[n - 1] /\ p[n - 1] <= p[n]
    <2>1. n - 1 <= n
      BY <1>4
    <2>2. QED BY <2>1, <1>4 DEF Stream, PieceMap
  <1>6. got[u] \in Seq(Nat) /\ InOrder(got[u])
        /\ \A i \in DOMAIN got[u] : got[u][i] \in Nat /\ got[u][i] <= p[cursor[u]]
    <2>1. got[u] \in Seq(Nat)
      BY <1>4
    <2>2. \A i \in DOMAIN got[u] : got[u][i] \in Nat
      BY <2>1, ElementOfSeq, LenProperties
    <2>3. QED BY <2>1, <2>2 DEF Stream, GotPieces
  <1>7. got'[u] = got[u] \o log[n].pieces /\ cursor'[u] = n
    BY <1>3, <1>4
  <1>8. InOrder(got'[u]) /\ \A i \in DOMAIN got'[u] : got'[u][i] <= p[n]
    <2>1. CASE log[n].pieces = <<>>
      <3>1. got'[u] = got[u]
        BY <2>1, <1>6, <1>7, ConcatEmptySeq
      <3>2. QED BY <3>1, <1>5, <1>6
    <2>2. CASE log[n].pieces = Span(p[n - 1], p[n])
      <3>1. \A i \in DOMAIN got[u] : got[u][i] <= p[n - 1]
        BY <1>5, <1>6
      <3>2. QED BY <2>2, <3>1, <1>5, <1>6, <1>7, InOrderConcat
    <2>3. QED BY <2>1, <2>2, <1>4 DEF Stream, LogPieces
  <1>9. \A v \in Subscribers : v # u => got'[v] = got[v] /\ cursor'[v] = cursor[v]
    BY <1>3, <1>4
  <1>10. GotPieces(p)'
    BY <1>7, <1>8, <1>9 DEF Stream, GotPieces, InOrder
  <1>11. QED BY <1>2, <1>10 DEF Stream

LEMMA StreamStep ==
  ASSUME TableInv, NEW p, Stream(p), [Next]_vars
  PROVE  \E q : Stream(q)' /\ \A n \in 0..wseq : q[n] = p[n]
  <1>1. CASE WriteStep
    BY <1>1, WriteStream
  <1>2. CASE PushText \/ AppendBatch \/ CloserInserts \/ Forget
    BY <1>2, TextStream, AppendStream, CloserStream
  <1>3. CASE \E u \in Subscribers : Poll(u)
    BY <1>3, PollStream
  <1>4. CASE \/ Moves \/ (\E s \in Terminal : Close(s)) \/ CloserReads \/ CloserDies
             \/ (\E u \in Subscribers : EmptyPoll(u) \/ StatusCheck(u) \/ TailCheck(u)) \/ UNCHANGED vars
    <2>1. UNCHANGED <<log, produced, writerVars, cursor, got>>
      BY <1>4 DEF Moves, Claim, Resume, TurnEnds, LeaseLost, ClosingFails, Finish, ExecutorDies, Close,
                  CloserReads, CloserDies, EmptyPoll, StatusCheck, TailCheck, vars, tableVars, writerVars, subVars
    <2>2. Stream(p)'
      BY <2>1 DEF Stream, PieceMap, ChainPieces, LogPieces, GotPieces, InOrder, writerVars
    <2>3. QED BY <2>2
  <1>5. QED BY <1>1, <1>2, <1>3, <1>4 DEF Next, Writer, Executor, Closer, Follow, Moves, WriteStep

-----------------------------------------------------------------------------
\* Until the log is forgotten: it is 1..m, its first w rows are the executor's,
\* and the rest a closer's.
Log(p, w, m) ==
  /\ m \in Nat /\ w \in 0..m /\ w <= wseq /\ DOMAIN log = 1..m
  /\ \A n \in 1..w : log[n].pieces = Span(p[n - 1], p[n])
  /\ \A n \in (w + 1)..m : log[n].pieces = <<>> /\ log[n].status # "succeeded"
  /\ m = w \/ closer = "ended"
  /\ closer = "insert" => maxRead <= m

\* The chain goes on where the executor's rows end.
Queue(w) == ~failed => IF chain = <<>> THEN w = wseq ELSE chain[1].first = w + 1

Read(p, w, m) ==
  \A u \in Subscribers :
    /\ cursor[u] <= m
    /\ cursor[u] <= w => got[u] = Span(0, p[cursor[u]])
    /\ cursor[u] > w => got[u] = Span(0, p[w])

Frontier(p, w, m) == forgotten = 0 => Log(p, w, m) /\ Queue(w) /\ Read(p, w, m)

\* A write changes neither the log nor what the map says of it.
LEMMA WriteFrontier ==
  ASSUME TableInv, NEW p, Stream(p), NEW q, NEW w, NEW m, Frontier(p, w, m), WriteStep,
         \A n \in 0..wseq : q[n] = p[n], forgotten' = 0
  PROVE  Frontier(q, w, m)'
  <1>1. UNCHANGED <<tableVars, closerVars, subVars>> /\ failed' = failed
    BY WriteStepPieces DEF Stream
  <1>2. Log(p, w, m) /\ Queue(w) /\ Read(p, w, m) /\ wseq \in Nat
    BY <1>1 DEF Frontier, tableVars, TableInv, TypeOK
  <1>3. w \in 0..wseq /\ m \in Nat /\ w \in Nat
    BY <1>2 DEF Log
  <1>4. \A n \in 1..w : q[n] = p[n] /\ q[n - 1] = p[n - 1]
    <2>1. \A n \in 1..w : n \in 0..wseq /\ n - 1 \in 0..wseq
      BY <1>2, <1>3
    <2>2. QED BY <2>1
  <1>5. PICK events \in Seq(Row), e \in 0..1 : Len(events) = e /\ Write(events)
    <2>1. CASE FlushTimer
      <3>1. <<>> \in Seq(Row) /\ Len(<<>>) = 0 /\ 0 \in 0..1
        BY EmptySeq
      <3>2. QED BY <2>1, <3>1 DEF FlushTimer
    <2>2. ASSUME NEW row \in Row, Write(<<row>>)
          PROVE \E events \in Seq(Row), e \in 0..1 : Len(events) = e /\ Write(events)
      <3>1. <<row>> \in Seq(Row) /\ Len(<<row>>) = 1 /\ 1 \in 0..1
        OBVIOUS
      <3>2. QED BY <2>2, <3>1
    <2>3. CASE PushEvent
      <3>1. produced + 1 \in Pieces
        BY <2>3, PiecesAssumption DEF PushEvent, TableInv, TypeOK, Pieces
      <3>2. QED BY <2>2, <2>3, <3>1, RowFacts DEF PushEvent, PushAndAwait
    <2>4. CASE PushError
      BY <2>2, <2>4, RowFacts DEF PushError, PushAndAwait
    <2>5. CASE PushDone
      <3>1. DoneRow(outcome) \in Row
        BY <2>5, RowFacts DEF TableInv, StatusInv, PushDone, Terminal
      <3>2. QED BY <2>2, <2>5, <3>1 DEF PushDone, PushAndAwait
    <2>6. QED BY <2>1, <2>3, <2>4, <2>5 DEF WriteStep
  <1>6. PICK rows, k : Writes(events, rows, k)
    <2>1. Len(events) <= 1
      BY <1>5
    <2>2. QED BY <1>5, <2>1, WriteShape DEF TableInv
  <1>7. wseq <= wseq' /\ (Len(rows) = 0 => wseq' = wseq)
    <2>1. Len(rows) = k + e /\ k \in 0..1 /\ wseq' = wseq + k + e
      BY <1>5, <1>6 DEF Writes
    <2> HIDE <1>5
    <2>2. QED BY <2>1, <1>2
  <1>8. Queue(w)'
    <2>1. CASE chain = <<>> /\ ~failed
      <3>1. IF Len(rows) = 0 THEN chain' = <<>> ELSE chain' # <<>> /\ chain'[1].first = wseq + 1
        BY <2>1, <1>6, WritesChain DEF TableInv
      <3>2. w = wseq
        BY <2>1, <1>2 DEF Queue
      <3>3. QED BY <3>1, <3>2, <1>7 DEF Queue
    <2>2. CASE chain # <<>> /\ ~failed
      <3>1. chain' # <<>> /\ chain'[1] = chain[1]
        BY <2>2, <1>6, WritesChain DEF TableInv
      <3>2. QED BY <3>1, <2>2, <1>2 DEF Queue
    <2>3. CASE failed
      BY <2>3, <1>1 DEF Queue
    <2>4. QED BY <2>1, <2>2, <2>3
  <1>9. Log(q, w, m)'
    <2>1. w <= wseq'
      <3>1. wseq' \in Nat
        <4>1. k \in 0..1 /\ wseq' = wseq + k + e
          BY <1>5, <1>6 DEF Writes
        <4>2. QED BY <4>1, <1>2
      <3>2. QED BY <3>1, <1>2, <1>3, <1>7
    <2>2. QED BY <2>1, <1>1, <1>2, <1>4 DEF Log, tableVars, closerVars
  <1>10. Read(q, w, m)'
    <2>1. q[w] = p[w]
      BY <1>3
    <2>2. \A u \in Subscribers : cursor[u] <= w => q[cursor[u]] = p[cursor[u]]
      <3>1. cursor \in [Subscribers -> Nat]
        BY PiecesAssumption DEF TableInv, TypeOK
      <3>2. \A u \in Subscribers : cursor[u] <= w => cursor[u] \in 0..wseq
        BY <3>1, <1>2, <1>3
      <3>3. QED BY <3>2
    <2>3. QED BY <2>1, <2>2, <1>1, <1>2 DEF Read, subVars
  <1>11. QED BY <1>8, <1>9, <1>10 DEF Frontier

\* An INSERT of the executor succeeds only right after its own rows, and moves w.
LEMMA AppendFrontier ==
  ASSUME TableInv, NEW p, Stream(p), NEW w, NEW m, Frontier(p, w, m), AppendBatch, forgotten' = 0
  PROVE  \E w2, m2 : Frontier(p, w2, m2)'
  <1>0. TypeOK /\ ChainInv /\ wseq \in Nat
    BY DEF TableInv, TypeOK
  <1>1. /\ chain # <<>> /\ AppendsHead(Tail(chain))
        /\ UNCHANGED <<status, forgotten, produced, pending, wseq, execVars, closerVars, subVars>>
    BY <1>0, AppendBatchShape
  <1>2. Log(p, w, m) /\ Queue(w) /\ Read(p, w, m)
    BY <1>1 DEF Frontier
  <1>3. m \in Nat /\ w \in 0..m /\ w \in Nat /\ w <= wseq /\ DOMAIN log = 1..m
    BY <1>2 DEF Log
  <1>4. CASE log' = log /\ failed'
    <2>1. Log(p, w, m)' /\ Queue(w)' /\ Read(p, w, m)'
      BY <1>1, <1>2, <1>4 DEF Log, Queue, Read, subVars, closerVars
    <2>2. QED BY <2>1 DEF Frontier
  <1>5. CASE Inserted(Head(chain).first, Head(chain).rows)
    <2>1. ~failed
      BY <1>0, <1>1 DEF ChainInv
    <2>2. /\ Len(chain) \in Nat /\ Len(chain) >= 1 /\ DOMAIN chain = 1..Len(chain)
          /\ Head(chain) = chain[1]
          /\ \A i \in 1..Len(chain) : chain[i].first \in 1..wseq /\ chain[i].rows \in Seq(Row)
          /\ DOMAIN Tail(chain) = 1..(Len(chain) - 1) /\ Len(Tail(chain)) = Len(chain) - 1
          /\ \A i \in 1..(Len(chain) - 1) : Tail(chain)[i] = chain[i + 1]
      BY <1>0, <1>1, ChainFacts
    <2> DEFINE h == chain[1].first  rs == chain[1].rows  l == Len(rs)
    <2>3. h = w + 1 /\ rs \in Seq(Row) /\ l \in Nat /\ l # 0 /\ DOMAIN rs = 1..l
      <3>1. chain[1].first = w + 1
        BY <2>1, <1>1, <1>2 DEF Queue
      <3>2. rs \in Seq(Row) /\ rs # <<>>
        BY <2>2, <1>0 DEF ChainInv
      <3>3. QED BY <3>1, <3>2, LenProperties, EmptySeq
    <2>4. h + l = IF 1 < Len(chain) THEN chain[2].first ELSE wseq + 1
      BY <2>2, <1>0 DEF ChainInv
    <2>5. /\ DOMAIN log \cap h..(h + l - 1) = {}
          /\ DOMAIN log' = DOMAIN log \cup h..(h + l - 1)
          /\ \A n \in DOMAIN log : log'[n] = log[n]
          /\ \A n \in h..(h + l - 1) : log'[n] = rs[n - h + 1]
      BY <1>5, <2>2 DEF Inserted
    <2>6. \A j \in DOMAIN rs : rs[j].pieces = Span(p[h + j - 2], p[h + j - 1])
      BY <2>2 DEF Stream, ChainPieces
    <2>7. 1 < Len(chain) => chain[2].first \in 1..wseq
      BY <2>2
    <2> HIDE DEF h, rs, l
    <2>0. PICK v \in Nat : v = w + l
      BY <2>3, <1>3
    <2>8. h..(h + l - 1) = (w + 1)..v /\ v \in Nat /\ w + 1 \in h..(h + l - 1) /\ w < v
      BY <2>0, <2>3, <1>3
    <2>9. m = w
      <3>1. w + 1 \notin 1..m
        BY <2>5, <2>8, <1>3
      <3>2. QED BY <3>1, <1>3
    <2>10. DOMAIN log' = 1..v
      BY <2>3, <2>5, <2>8, <2>9, <1>3
    <2>11. \A n \in 1..v : log'[n].pieces = Span(p[n - 1], p[n])
      <3> SUFFICES ASSUME NEW n \in 1..v PROVE log'[n].pieces = Span(p[n - 1], p[n])
        OBVIOUS
      <3>1. CASE n <= w
        <4>1. n \in 1..w /\ n \in DOMAIN log
          BY <3>1, <1>3
        <4>2. QED BY <4>1, <2>5, <1>2 DEF Log
      <3>2. CASE ~(n <= w)
        <4>1. n \in h..(h + l - 1)
          <5>1. n \in (w + 1)..v
            BY <3>2, <1>3
          <5>2. QED BY <5>1, <2>8
        <4>2. n - h + 1 \in 1..l /\ h + (n - h + 1) - 2 = n - 1 /\ h + (n - h + 1) - 1 = n
          BY <4>1, <2>3, <2>8, <1>3
        <4>3. rs[n - h + 1].pieces = Span(p[h + (n - h + 1) - 2], p[h + (n - h + 1) - 1])
          BY <4>2, <2>3, <2>6
        <4>4. QED BY <4>1, <4>2, <4>3, <2>5
      <3>3. QED BY <3>1, <3>2
    <2>12. v <= wseq
      BY <2>0, <2>3, <2>4, <2>7, <1>0, <1>3
    <2>13. Log(p, v, v)'
      <3>1. v \in 0..v /\ (v + 1)..v = {} /\ w <= v
        BY <2>3, <2>8, <1>3
      <3>2. closer' = "insert" => maxRead' <= v
        <4>1. closer = "insert" => maxRead <= m /\ maxRead \in Nat
          BY <1>0, <1>2 DEF Log, TypeOK
        <4>2. QED BY <4>1, <3>1, <2>8, <2>9, <1>1, <1>3 DEF closerVars
      <3>3. v <= wseq'
        BY <2>12, <1>1
      <3>4. QED BY <3>1, <3>2, <3>3, <2>8, <2>10, <2>11 DEF Log
    <2>14. Queue(v)'
      <3>1. CASE failed'
        BY <3>1 DEF Queue
      <3>2. CASE chain' = Tail(chain)
        <4>1. CASE 1 < Len(chain)
          <5>1. chain' # <<>> /\ chain'[1] = chain[2]
            <6>1. 1 \in 1..(Len(chain) - 1)
              BY <4>1, <2>2
            <6>2. Tail(chain)[1] = chain[1 + 1] /\ 1 \in DOMAIN Tail(chain)
              BY <6>1, <2>2
            <6>3. chain' # <<>>
              BY <6>2, <3>2, EmptySeq
            <6>4. QED BY <6>2, <6>3, <3>2
          <5>2. chain[2].first = v + 1
            BY <4>1, <2>0, <2>3, <2>4, <1>3
          <5>3. QED BY <5>1, <5>2 DEF Queue
        <4>2. CASE Len(chain) = 1
          <5>1. chain' = <<>>
            <6>1. chain \in Seq([first : 1..wseq, rows : Seq(Row)])
              BY <1>0 DEF TypeOK
            <6> DEFINE B == [first : 1..wseq, rows : Seq(Row)]
            <6>2. chain \in Seq(B)
              BY <6>1
            <6> HIDE DEF B
            <6>3. Tail(chain) \in Seq(B) /\ Len(Tail(chain)) = 0
              BY <6>2, <4>2, <2>2, <1>1, HeadTailProperties
            <6>4. QED BY <6>3, <3>2, EmptySeq
          <5>2. v = wseq'
            BY <4>2, <2>0, <2>3, <2>4, <1>0, <1>1, <1>3
          <5>3. QED BY <5>1, <5>2 DEF Queue
        <4>3. QED BY <4>1, <4>2, <2>2
      <3>3. QED BY <3>1, <3>2, <1>1, <2>1, <1>4 DEF AppendsHead
    <2>15. Read(p, v, v)'
      <3> SUFFICES ASSUME NEW u \in Subscribers
                   PROVE  cursor[u] <= v /\ ~(cursor[u] > v) /\ got[u] = Span(0, p[cursor[u]])
        BY <1>1 DEF Read, subVars
      <3>1. cursor[u] \in Nat /\ cursor[u] <= w
        BY <1>0, <1>2, <2>9, PiecesAssumption DEF Read, TypeOK
      <3>2. got[u] = Span(0, p[cursor[u]])
        BY <3>1, <1>2 DEF Read
      <3>3. cursor[u] <= v
        BY <3>1, <2>8, <1>3
      <3>4. QED BY <3>1, <3>2, <3>3, <2>8
    <2>16. Frontier(p, v, v)'
      BY <2>13, <2>14, <2>15 DEF Frontier
    <2>17. QED BY <2>16
  <1>6. QED BY <1>1, <1>4, <1>5 DEF AppendsHead, Frontier

\* The highest row of a log without gaps.
LEMMA LogMaxSeq ==
  ASSUME NEW p, NEW w, NEW m, Log(p, w, m)
  PROVE  MaxSeq = m
  <1>1. m \in Nat /\ DOMAIN log = 1..m
    BY DEF Log
  <1>2. DOMAIN log \cup {0} = 0..m
    BY <1>1
  <1>3. 0..m \in SUBSET (0..m) /\ 0..m # {} /\ m \in 0..m
    BY <1>1
  <1>4. Max(0..m) \in 0..m /\ \A x \in 0..m : x <= Max(0..m)
    BY <1>1, <1>3, MaxFacts
  <1>5. Max(0..m) = m
    BY <1>1, <1>3, <1>4
  <1>6. QED BY <1>2, <1>5 DEF MaxSeq

\* The closer's INSERT succeeds only right after the executor's rows, and moves m alone.
LEMMA CloserFrontier ==
  ASSUME TableInv, NEW p, Stream(p), NEW w, NEW m, Frontier(p, w, m), CloserInserts, forgotten' = 0
  PROVE  \E m2 : Frontier(p, w, m2)'
  <1>0. TypeOK /\ StatusInv /\ maxRead \in Nat
    BY DEF TableInv, TypeOK
  <1>1. /\ closer = "insert" /\ closer' = "ended"
        /\ UNCHANGED <<status, forgotten, produced, writerVars, execVars, maxRead, swept, subVars>>
    BY <1>0, CloserInsertsShape
  <1>2. PICK rows \in Seq(Row) :
              /\ Len(rows) \in {1, 2}
              /\ rows[Len(rows)] = DoneRow(status) /\ (Len(rows) = 2 => rows[1] = ErrorRow)
              /\ log' = log \/ Inserted(maxRead + 1, rows)
    BY <1>0, CloserInsertsShape
  <1>3. PICK l \in 1..2 : Len(rows) = l
    BY <1>2
  <1>4. Log(p, w, m) /\ Queue(w) /\ Read(p, w, m)
    BY <1>1 DEF Frontier
  <1>5. m \in Nat /\ w \in 0..m /\ w <= wseq /\ DOMAIN log = 1..m /\ m = w /\ maxRead <= m
    BY <1>1, <1>4 DEF Log
  <1>6. Queue(w)'
    BY <1>1, <1>4 DEF Queue, writerVars
  <1>7. CASE log' = log
    <2>1. Log(p, w, m)' /\ Read(p, w, m)'
      BY <1>1, <1>4, <1>7 DEF Log, Read, writerVars, subVars
    <2>2. QED BY <2>1, <1>6 DEF Frontier
  <1>8. CASE Inserted(maxRead + 1, rows)
    <2>1. /\ DOMAIN log \cap (maxRead + 1)..(maxRead + 1 + l - 1) = {}
          /\ DOMAIN log' = DOMAIN log \cup (maxRead + 1)..(maxRead + 1 + l - 1)
          /\ \A n \in DOMAIN log : log'[n] = log[n]
          /\ \A n \in (maxRead + 1)..(maxRead + 1 + l - 1) :
                 log'[n] = rows[n - (maxRead + 1) + 1]
      BY <1>3, <1>8 DEF Inserted
    <2>2. maxRead = m
      <3>1. maxRead + 1 \in (maxRead + 1)..(maxRead + 1 + l - 1)
        BY <1>0
      <3>2. maxRead + 1 \notin 1..m
        BY <3>1, <2>1, <1>5
      <3>3. QED BY <3>2, <1>0, <1>5
    <2>3. PICK m2 \in Nat : m2 = m + l
      BY <1>5
    <2>4. (maxRead + 1)..(maxRead + 1 + l - 1) = (m + 1)..m2 /\ m < m2
      BY <2>2, <2>3, <1>5
    <2>5. DOMAIN log' = 1..m2 /\ w \in 0..m2
      <3>1. DOMAIN log' = (1..m) \cup ((m + 1)..m2)
        BY <2>1, <2>4, <1>5
      <3>2. m \in Nat /\ m2 \in Nat /\ m < m2 /\ w \in 0..m
        BY <2>4, <1>5
      <3>3. (1..m) \cup ((m + 1)..m2) = 1..m2 /\ w \in 0..m2
        BY <3>2
      <3>4. QED BY <3>1, <3>3
    <2>6. /\ DoneRow(status).pieces = <<>> /\ DoneRow(status).status # "succeeded"
          /\ ErrorRow.pieces = <<>> /\ ErrorRow.status # "succeeded"
      BY <1>0, <1>1, NoneAssumption DEF StatusInv, DoneRow, ErrorRow, PieceRow, Terminal, Outcomes
    <2>7. \A n \in (m + 1)..m2 : log'[n] \in {DoneRow(status), ErrorRow}
      <3>1. \A n \in (maxRead + 1)..(maxRead + 1 + l - 1) :
              n - (maxRead + 1) + 1 = l \/ (l = 2 /\ n - (maxRead + 1) + 1 = 1)
        BY <1>0
      <3>2. QED BY <3>1, <2>1, <2>4, <1>2, <1>3
    <2>8. \A n \in 1..w : log'[n].pieces = Span(p[n - 1], p[n])
      BY <2>1, <1>4, <1>5 DEF Log
    <2>9. (w + 1)..m2 = (m + 1)..m2
      BY <1>5
    <2>10. Log(p, w, m2)'
      BY <2>5, <2>6, <2>7, <2>8, <2>9, <1>1, <1>5 DEF Log, writerVars
    <2>11. Read(p, w, m2)'
      <3> SUFFICES ASSUME NEW u \in Subscribers PROVE cursor[u] <= m2
        BY <1>1, <1>4 DEF Read, subVars
      <3>1. cursor[u] \in Nat /\ cursor[u] <= m
        BY <1>0, <1>4, PiecesAssumption DEF Read, TypeOK
      <3>2. QED BY <3>1, <2>4, <1>5
    <2>12. QED BY <2>10, <2>11, <1>6 DEF Frontier
  <1>9. QED BY <1>2, <1>7, <1>8

LEMMA ReadFrontier ==
  ASSUME TableInv, NEW p, Stream(p), NEW w, NEW m, Frontier(p, w, m), CloserReads, forgotten' = 0
  PROVE  Frontier(p, w, m)'
  <1>1. /\ closer = "read" /\ closer' = "insert" /\ maxRead' = MaxSeq
        /\ UNCHANGED <<tableVars, produced, writerVars, execVars, subVars>>
    BY DEF CloserReads
  <1>2. Log(p, w, m) /\ Queue(w) /\ Read(p, w, m)
    BY <1>1 DEF Frontier, tableVars
  <1>3. MaxSeq = m /\ m \in Nat
    BY <1>2, LogMaxSeq DEF Log
  <1>4. Log(p, w, m)'
    BY <1>1, <1>2, <1>3 DEF Log, tableVars, writerVars
  <1>5. Queue(w)' /\ Read(p, w, m)'
    BY <1>1, <1>2 DEF Queue, Read, writerVars, subVars
  <1>6. QED BY <1>4, <1>5 DEF Frontier

\* A subscriber reads the row right after its cursor: a piece of the executor, or none.
LEMMA PollFrontier ==
  ASSUME TableInv, NEW p, Stream(p), NEW w, NEW m, Frontier(p, w, m),
         NEW u \in Subscribers, Poll(u), forgotten' = 0
  PROVE  Frontier(p, w, m)'
  <1>0. TypeOK
    BY DEF TableInv
  <1>1. UNCHANGED <<tableVars, produced, writerVars, closerVars>>
    BY DEF Poll
  <1>2. Log(p, w, m) /\ Queue(w) /\ Read(p, w, m)
    BY <1>1 DEF Frontier, tableVars
  <1>3. Log(p, w, m)' /\ Queue(w)'
    BY <1>1, <1>2 DEF Log, Queue, tableVars, writerVars, closerVars
  <1>4. PICK n \in SeqsAfter(cursor[u]) : /\ \A x \in SeqsAfter(cursor[u]) : n <= x
                                          /\ cursor' = [cursor EXCEPT ![u] = n]
                                          /\ got' = [got EXCEPT ![u] = @ \o log[n].pieces]
    BY DEF Poll
  <1>5. /\ m \in Nat /\ w \in 0..m /\ DOMAIN log = 1..m
        /\ cursor \in [Subscribers -> Nat] /\ cursor[u] \in Nat /\ cursor[u] <= m
    BY <1>0, <1>2, PiecesAssumption DEF Log, Read, TypeOK
  <1>6. n = cursor[u] + 1 /\ n \in 1..m
    <2>1. n \in 1..m /\ n > cursor[u]
      BY <1>5 DEF SeqsAfter
    <2>2. cursor[u] + 1 \in 1..m
      BY <2>1, <1>5
    <2>3. cursor[u] + 1 \in SeqsAfter(cursor[u])
      BY <2>2, <1>5 DEF SeqsAfter
    <2>4. n <= cursor[u] + 1
      BY <2>3, <1>4
    <2>5. QED BY <2>1, <2>4, <1>5
  <1>7. got'[u] = got[u] \o log[n].pieces /\ cursor'[u] = n
    BY <1>0, <1>4 DEF TypeOK
  <1>8. p \in [Nat -> Nat] /\ p[0] = 0 /\ \A a, b \in Nat : a <= b => p[a] <= p[b]
    BY DEF Stream, PieceMap
  <1>9. CASE n <= w
    <2>1. got[u] = Span(0, p[cursor[u]]) /\ cursor[u] = n - 1 /\ n \in 1..w
      <3>1. cursor[u] <= w /\ cursor[u] = n - 1 /\ n \in 1..w
        BY <1>5, <1>6, <1>9
      <3>2. QED BY <3>1, <1>2 DEF Read
    <2>2. log[n].pieces = Span(p[n - 1], p[n])
      BY <2>1, <1>2 DEF Log
    <2>3. p[n - 1] \in Nat /\ p[n] \in Nat /\ 0 <= p[n - 1] /\ p[n - 1] <= p[n]
      <3>1. n - 1 \in Nat /\ n \in Nat /\ n - 1 <= n
        BY <1>6
      <3>2. QED BY <3>1, <1>8
    <2>4. Span(0, p[n - 1]) \o Span(p[n - 1], p[n]) = Span(0, p[n])
      <3> DEFINE a == p[n - 1]  b == p[n]
      <3>1. a \in Nat /\ b \in Nat /\ 0 <= a /\ a <= b /\ 0 \in Nat
        BY <2>3
      <3> HIDE DEF a, b
      <3>2. Span(0, a) \o Span(a, b) = Span(0, b)
        BY <3>1, SpanConcat
      <3>3. QED BY <3>2 DEF a, b
    <2>5. got'[u] = Span(0, p[n])
      BY <2>1, <2>2, <2>4, <1>7
    <2>6. Read(p, w, m)'
      BY <2>5, <1>2, <1>4, <1>5, <1>6, <1>7, <1>9 DEF Read
    <2>7. QED BY <2>6, <1>3 DEF Frontier
  <1>10. CASE ~(n <= w)
    <2>1. cursor[u] >= w /\ n \in (w + 1)..m /\ n > w
      BY <1>5, <1>6, <1>10
    <2>2. got[u] = Span(0, p[w])
      <3>1. cursor[u] = w \/ cursor[u] > w
        BY <2>1, <1>5
      <3>2. CASE cursor[u] = w
        BY <3>2, <1>2, <1>5 DEF Read
      <3>3. CASE cursor[u] > w
        BY <3>3, <1>2 DEF Read
      <3>4. QED BY <3>1, <3>2, <3>3
    <2>3. log[n].pieces = <<>>
      BY <2>1, <1>2 DEF Log
    <2>4. got'[u] = got[u]
      <3>1. got[u] \in Seq(Pieces)
        BY <1>0 DEF TypeOK
      <3>2. QED BY <3>1, <2>3, <1>7, ConcatEmptySeq
    <2>5. Read(p, w, m)'
      BY <2>1, <2>2, <2>4, <1>2, <1>4, <1>5, <1>6, <1>7, <1>10 DEF Read
    <2>6. QED BY <2>5, <1>3 DEF Frontier
  <1>11. QED BY <1>9, <1>10

\* What is forgotten, and what failed, remains so.
LEMMA ForgottenStep ==
  ASSUME TableInv, [Next]_vars
  PROVE  /\ forgotten' = 0 => forgotten = 0 /\ ~Forget
         /\ forgotten' = 1 => forgotten = 1 \/ (forgotten = 0 /\ Forget)
         /\ ~Forget => forgotten' = forgotten
         /\ failed => failed'
  <1>0. forgotten \in 0..2
    BY DEF TableInv, TypeOK
  <1>1. CASE Forget
    <2>1. CASE forgotten = 0
      <3>1. forgotten' = 1
        BY <1>1, <2>1, MinPair DEF Forget
      <3>2. QED BY <1>1, <2>1, <3>1 DEF Forget, writerVars
    <2>2. CASE forgotten \in {1, 2}
      <3>1. forgotten' = 2
        BY <1>1, <2>2, MinPair DEF Forget
      <3>2. QED BY <1>1, <2>2, <3>1 DEF Forget, writerVars
    <2>3. QED BY <1>0, <2>1, <2>2
  <1>2. CASE ~Forget
    <2>1. forgotten' = forgotten /\ (failed => failed')
      <3>1. CASE WriteStep
        BY <3>1 DEF WriteStep, FlushTimer, PushEvent, PushError, PushDone, PushAndAwait, Write, tableVars
      <3>2. CASE AppendBatch
        BY <3>2 DEF AppendBatch, TableInv, ChainInv
      <3>3. CASE PushText \/ Moves \/ UNCHANGED vars
        BY <3>3 DEF PushText, Moves, Claim, Resume, TurnEnds, LeaseLost, ClosingFails, Finish, ExecutorDies,
                  vars, tableVars, writerVars
      <3>4. CASE (\E s \in Terminal : Close(s)) \/ CloserReads \/ CloserInserts \/ CloserDies
        BY <3>4 DEF Close, CloserReads, CloserInserts, CloserDies, tableVars, writerVars
      <3>5. CASE \E u \in Subscribers : Follow(u)
        <4>1. UNCHANGED <<tableVars, produced, writerVars, execVars, closerVars>>
          BY <3>5 DEF Follow, Poll, EmptyPoll, StatusCheck, TailCheck
        <4>2. QED BY <4>1 DEF tableVars, writerVars
      <3>6. QED BY <3>1, <3>2, <3>3, <3>4, <3>5, <1>2 DEF Next, Writer, Executor, Closer, Moves, WriteStep
    <2>2. QED BY <2>1, <1>2
  <1>3. QED BY <1>1, <1>2

LEMMA FrontierStep ==
  ASSUME TableInv, NEW p, Stream(p), NEW q, Stream(q)', \A n \in 0..wseq : q[n] = p[n],
         NEW w, NEW m, Frontier(p, w, m), [Next]_vars
  PROVE  \E q2, w2, m2 : Stream(q2)' /\ Frontier(q2, w2, m2)'
  <1>0. CASE forgotten' # 0
    <2>1. Frontier(q, w, m)'
      BY <1>0 DEF Frontier
    <2>2. QED BY <2>1
  <1>1. ASSUME forgotten' = 0 PROVE ~Forget
    BY <1>1, ForgottenStep
  <1>2. CASE forgotten' = 0 /\ WriteStep
    BY <1>2, WriteFrontier
  <1>3. CASE forgotten' = 0 /\ AppendBatch
    BY <1>3, AppendFrontier, AppendStream
  <1>4. CASE forgotten' = 0 /\ CloserInserts
    BY <1>4, CloserFrontier, CloserStream
  <1>5. CASE forgotten' = 0 /\ \E u \in Subscribers : Poll(u)
    BY <1>5, PollFrontier, PollStream
  <1>6. CASE /\ forgotten' = 0
             /\ \/ PushText \/ Moves \/ CloserReads \/ CloserDies \/ (\E s \in Terminal : Close(s))
                \/ (\E u \in Subscribers : EmptyPoll(u) \/ StatusCheck(u) \/ TailCheck(u)) \/ UNCHANGED vars
    <2>1. Stream(p)'
      <3>1. CASE PushText
        BY <3>1, TextStream
      <3>2. CASE ~PushText
        <4>1. UNCHANGED <<log, produced, writerVars, cursor, got>>
          BY <1>6, <3>2 DEF Moves, Claim, Resume, TurnEnds, LeaseLost, ClosingFails, Finish, ExecutorDies, Close,
                  CloserReads, CloserDies, EmptyPoll, StatusCheck, TailCheck, vars, tableVars, writerVars, subVars
        <4>2. QED BY <4>1 DEF Stream, PieceMap, ChainPieces, LogPieces, GotPieces, InOrder, writerVars
      <3>3. QED BY <3>1, <3>2
    <2>2. CASE CloserReads
      BY <1>6, <2>1, <2>2, ReadFrontier
    <2>3. CASE ~CloserReads
      <3>1. /\ UNCHANGED <<forgotten, log, chain, wseq, failed, cursor, got>>
            /\ closer' = "insert" => closer = "insert" /\ maxRead' = maxRead
            /\ closer = "ended" => closer' = "ended"
        BY <1>6, <2>3 DEF TableInv, StatusInv, PushText, Moves, Claim, Resume, TurnEnds, LeaseLost, ClosingFails,
                  Finish, ExecutorDies, Close, MayClose, Active,
                  CloserDies, EmptyPoll, StatusCheck, TailCheck, vars, tableVars, writerVars, closerVars, subVars
      <3>2. Frontier(p, w, m)'
        BY <3>1 DEF Frontier, Log, Queue, Read
      <3>3. QED BY <2>1, <3>2
    <2>4. QED BY <2>2, <2>3
  <1>7. QED BY <1>0, <1>1, <1>2, <1>3, <1>4, <1>5, <1>6
        DEF Next, Writer, Executor, Closer, Follow, Moves, WriteStep

StreamInv == \E p, w, m : Stream(p) /\ Frontier(p, w, m)

LEMMA StreamInvStep ==
  ASSUME TableInv, StreamInv, [Next]_vars
  PROVE  StreamInv'
  <1>1. PICK p, w, m : Stream(p) /\ Frontier(p, w, m)
    BY DEF StreamInv
  <1>2. PICK q : Stream(q)' /\ \A n \in 0..wseq : q[n] = p[n]
    BY <1>1, StreamStep
  <1>3. PICK q2, w2, m2 : Stream(q2)' /\ Frontier(q2, w2, m2)'
    BY <1>1, <1>2, FrontierStep
  <1>4. QED BY <1>3 DEF StreamInv

LEMMA StreamInvInit == Init => StreamInv
  <1> SUFFICES ASSUME Init PROVE StreamInv
    OBVIOUS
  <1> DEFINE p == [n \in Nat |-> 0]
  <1>1. p \in [Nat -> Nat] /\ \A n \in Nat : p[n] = 0
    OBVIOUS
  <1>2. DOMAIN log = {} /\ DOMAIN chain = {} /\ \A u \in Subscribers : got[u] = <<>> /\ DOMAIN got[u] = {} /\ cursor[u] = 0
    BY EmptySeq DEF Init
  <1>3. Span(0, 0) = <<>>
    BY SpanFacts
  <1> HIDE DEF p
  <1>4. PieceMap(p)
    BY <1>1, <1>3 DEF PieceMap, Init
  <1>5. ChainPieces(p) /\ LogPieces(p) /\ GotPieces(p)
    BY <1>2 DEF ChainPieces, LogPieces, GotPieces, InOrder
  <1>6. Frontier(p, 0, 0)
    <2>1. 0 \in 0..0 /\ (0 + 1)..0 = {} /\ 1..0 = {} /\ ~(0 > 0) /\ 0 <= 0 /\ 0 \in Nat
      OBVIOUS
    <2>2. Log(p, 0, 0)
      BY <1>2, <2>1 DEF Log, Init
    <2>3. Queue(0) /\ Read(p, 0, 0)
      BY <1>1, <1>2, <1>3, <2>1 DEF Queue, Read, Init
    <2>4. QED BY <2>2, <2>3 DEF Frontier
  <1>7. QED BY <1>4, <1>5, <1>6 DEF StreamInv, Stream

\* The log has no gap, as long as it is the log of this run: the executor and a closer, who
\* both number rows on their own, never leave a number out.
THEOREM LogWithoutGaps == Spec => []LogGapless
  <1>1. TableInv /\ TailInv /\ StreamInv /\ [Next]_vars => (TableInv /\ TailInv /\ StreamInv)'
    BY TableStep, TailStep, StreamInvStep
  <1>2. StreamInv => LogGapless
    <2> SUFFICES ASSUME StreamInv, forgotten = 0 PROVE DOMAIN log = 1..MaxSeq
      BY DEF LogGapless
    <2>1. PICK p, w, m : Log(p, w, m)
      BY DEF StreamInv, Frontier
    <2>2. QED BY <2>1, LogMaxSeq DEF Log
  <1>3. QED BY TableInvInit, TailInvInit, StreamInvInit, <1>1, <1>2, PTL DEF Spec

-----------------------------------------------------------------------------
GotPrefixes == \A u \in Subscribers : \E x \in Nat : got[u] = Span(0, x)

\* While the log is whole, everyone has a beginning of the answer.
LEMMA StreamPrefix == TypeOK /\ StreamInv /\ forgotten = 0 => GotPrefixes
  <1> SUFFICES ASSUME TypeOK, StreamInv, forgotten = 0
               PROVE  \A u \in Subscribers : \E x \in Nat : got[u] = Span(0, x)
    BY DEF GotPrefixes
  <1>1. PICK p, w, m : Stream(p) /\ Log(p, w, m) /\ Read(p, w, m)
    BY DEF StreamInv, Frontier
  <1>2. /\ w \in Nat /\ p \in [Nat -> Nat] /\ cursor \in [Subscribers -> Nat]
    <2>1. w \in Nat
      BY <1>1 DEF Log
    <2>2. cursor \in [Subscribers -> Nat]
      BY PiecesAssumption DEF TypeOK
    <2>3. QED BY <2>1, <2>2, <1>1 DEF Stream, PieceMap
  <1>3. ASSUME NEW u \in Subscribers PROVE \E x \in Nat : got[u] = Span(0, x)
    <2>1. CASE cursor[u] <= w
      BY <1>1, <1>2, <2>1 DEF Read
    <2>2. CASE cursor[u] > w
      BY <1>1, <1>2, <2>2 DEF Read
    <2>3. QED BY <1>2, <2>1, <2>2
  <1>4. QED BY <1>3

PrefixInv == ~ZombiePieces => GotPrefixes

\* And after it was deleted, unless a zombie wrote pieces into it since.
LEMMA PrefixStep ==
  ASSUME TableInv, StreamInv, PrefixInv, [Next]_vars, TypeOK', StreamInv'
  PROVE  PrefixInv'
  <1> SUFFICES ASSUME ~ZombiePieces' PROVE GotPrefixes'
    BY DEF PrefixInv
  <1>0. TypeOK /\ got \in [Subscribers -> Seq(Pieces)]
    BY DEF TableInv, TypeOK
  <1>1. forgotten' \in {0, 1}
    BY DEF ZombiePieces, TypeOK
  <1>2. CASE forgotten' = 0
    <2>1. (forgotten = 0)'
      BY <1>2
    <2>2. QED BY <2>1, StreamPrefix, PTL
  <1>3. CASE forgotten' = 1 /\ Forget
    <2>1. got' = got
      BY <1>3 DEF Forget, subVars
    <2>2. forgotten = 0 \/ forgotten = 1
      BY <1>3, ForgottenStep
    <2>3. CASE forgotten = 0
      BY <2>1, <2>3, <1>0, StreamPrefix DEF GotPrefixes
    <2>4. CASE forgotten = 1
      <3>1. forgotten' = 2
        BY <2>4, <1>3, MinPair DEF Forget
      <3>2. QED BY <3>1, <1>3
    <2>5. QED BY <2>2, <2>3, <2>4
  <1>4. CASE forgotten' = 1 /\ ~Forget
    <2>1. forgotten = 1
      BY <1>4, ForgottenStep
    <2>2. \A n \in DOMAIN log : n \in DOMAIN log' /\ log'[n] = log[n]
      BY <1>4, RowsStep
    <2>3. \A n \in DOMAIN log : log[n].pieces = <<>>
      BY <2>2, <1>4 DEF ZombiePieces
    <2>4. ~ZombiePieces
      BY <2>1, <2>3 DEF ZombiePieces
    <2>5. got' = got
      <3>1. CASE \E u \in Subscribers : Poll(u)
        <4>1. PICK u \in Subscribers, n \in DOMAIN log : got' = [got EXCEPT ![u] = @ \o log[n].pieces]
          BY <3>1 DEF Poll, SeqsAfter
        <4>2. got[u] \o log[n].pieces = got[u]
          BY <2>3, <1>0, ConcatEmptySeq
        <4>3. QED BY <4>1, <4>2, <1>0
      <3>2. CASE WriteStep \/ AppendBatch \/ PushText \/ Moves \/ UNCHANGED vars
        BY <3>2 DEF WriteStep, FlushTimer, PushEvent, PushError, PushDone, PushAndAwait, AppendBatch, PushText,
                  Moves, Claim, Resume, TurnEnds, LeaseLost, ClosingFails, Finish, ExecutorDies, vars, subVars
      <3>3. CASE \/ (\E s \in Terminal : Close(s)) \/ CloserReads \/ CloserInserts \/ CloserDies \/ Forget
                 \/ (\E u \in Subscribers : EmptyPoll(u) \/ StatusCheck(u) \/ TailCheck(u))
        BY <3>3 DEF Close, CloserReads, CloserInserts, CloserDies, Forget, EmptyPoll, StatusCheck, TailCheck, subVars
      <3>4. QED BY <3>1, <3>2, <3>3 DEF Next, Writer, Executor, Closer, Follow, Moves, WriteStep
    <2>6. QED BY <2>4, <2>5 DEF PrefixInv, GotPrefixes
  <1>5. QED BY <1>1, <1>2, <1>3, <1>4

\* Through reconnects, coalescing, competing writers and deletion, a subscriber receives
\* pieces in their order and none twice, and without a zombie a beginning of the answer.
THEOREM AnswerSeenInOrder == Spec => []SeesPrefix
  <1>1. TableInv /\ TailInv /\ StreamInv /\ PrefixInv /\ [Next]_vars
          => (TableInv /\ TailInv /\ StreamInv /\ PrefixInv)'
    <2> SUFFICES ASSUME TableInv, TailInv, StreamInv, PrefixInv, [Next]_vars
                 PROVE  (TableInv /\ TailInv /\ StreamInv /\ PrefixInv)'
      OBVIOUS
    <2>1. TableInv' /\ TailInv' /\ StreamInv'
      BY TableStep, TailStep, StreamInvStep
    <2>2. TypeOK'
      BY <2>1 DEF TableInv
    <2>3. QED BY <2>1, <2>2, PrefixStep
  <1>2. Init => PrefixInv
    <2>1. Span(0, 0) = <<>>
      BY SpanFacts
    <2>2. QED BY <2>1 DEF Init, PrefixInv, GotPrefixes
  <1>3. TableInv /\ StreamInv /\ PrefixInv => SeesPrefix
    <2> SUFFICES ASSUME StreamInv, PrefixInv, NEW u \in Subscribers
                 PROVE  /\ \A i, j \in DOMAIN got[u] : i < j => got[u][i] < got[u][j]
                        /\ ~ZombiePieces => got[u] = [i \in 1..Len(got[u]) |-> i]
      BY DEF SeesPrefix
    <2>1. InOrder(got[u])
      BY DEF StreamInv, Stream, GotPieces
    <2>2. ASSUME ~ZombiePieces PROVE got[u] = [i \in 1..Len(got[u]) |-> i]
      <3>1. PICK x \in Nat : got[u] = Span(0, x)
        BY <2>2 DEF PrefixInv, GotPrefixes
      <3>2. Len(Span(0, x)) = x
        BY SpanFacts
      <3>3. Span(0, x) = [i \in 1..x |-> i]
        BY DEF Span
      <3>4. QED BY <3>1, <3>2, <3>3
    <2>3. QED BY <2>1, <2>2 DEF InOrder
  <1>4. QED BY TableInvInit, TailInvInit, StreamInvInit, <1>1, <1>2, <1>3, PTL DEF Spec

-----------------------------------------------------------------------------
\* Nothing more comes from the executor.
Over  == pc \in {"finish", "ended", "dead"} \/ Awaits("finish")
Quiet == Over /\ pending = <<>>

EndInv ==
  /\ pc = "await" => pending = <<>>
  /\ pc = "finish" /\ ~failed => chain = <<>> /\ pending = <<>>
  /\ status = "succeeded" /\ ~failed => pc = "ended" /\ chain = <<>> /\ pending = <<>>

SuccInv == \A n, r : Placed(n, r) /\ r.status = "succeeded" => Quiet /\ n = wseq

FullInv ==
  ~failed /\ forgotten = 0 =>
    \A u \in Subscribers : final[u] = "succeeded" => Quiet /\ Len(got[u]) = produced

\* An executor that is over, with nothing pending, writes nothing more.
LEMMA QuietStep ==
  ASSUME TableInv, Quiet, [Next]_vars
  PROVE  Quiet' /\ wseq' = wseq /\ produced' = produced
  <1>1. CASE WriteStep
    BY <1>1 DEF WriteStep, FlushTimer, PushEvent, PushError, PushDone, Quiet, Over, Awaits
  <1>2. CASE Moves
    BY <1>2 DEF Moves, Claim, Resume, TurnEnds, LeaseLost, ClosingFails, Finish, ExecutorDies,
                Quiet, Over, Awaits, writerVars
  <1>3. CASE PushText \/ AppendBatch \/ UNCHANGED vars
    BY <1>3 DEF PushText, AppendBatch, Quiet, Over, Awaits, execVars, vars, writerVars
  <1>4. CASE (\E s \in Terminal : Close(s)) \/ CloserReads \/ CloserInserts \/ CloserDies \/ Forget
    BY <1>4 DEF Close, CloserReads, CloserInserts, CloserDies, Forget, Quiet, Over, Awaits, execVars, writerVars
  <1>5. CASE \E u \in Subscribers : Follow(u)
    <2>1. UNCHANGED <<tableVars, produced, writerVars, execVars, closerVars>>
      BY <1>5 DEF Follow, Poll, EmptyPoll, StatusCheck, TailCheck
    <2>2. QED BY <2>1 DEF Quiet, Over, Awaits, execVars, writerVars
  <1>6. QED BY <1>1, <1>2, <1>3, <1>4, <1>5 DEF Next, Writer, Executor, Closer, Moves, WriteStep

\* finish() with success comes after every INSERT.
LEMMA EndStep ==
  ASSUME TableInv, EndInv, [Next]_vars
  PROVE  EndInv'
  <1>0. StatusInv
    BY DEF TableInv
  <1>1. CASE FlushTimer
    BY <1>1 DEF FlushTimer, Write, PendingAfterWrite, EndInv, tableVars, execVars
  <1>2. CASE PushEvent \/ PushError \/ PushDone
    BY <1>0, <1>2 DEF PushEvent, PushError, PushDone, PushAndAwait, Write, PendingAfterWrite, EndInv, tableVars
  <1>3. CASE AppendBatch
    <2>1. /\ chain # <<>> /\ failed' \in {TRUE, failed}
          /\ UNCHANGED <<status, forgotten, produced, pending, wseq, execVars, closerVars, subVars>>
      BY <1>3 DEF AppendBatch
    <2>2. ~failed' => ~failed
      BY <2>1
    <2>3. QED BY <2>1, <2>2 DEF EndInv, execVars
  <1>4. CASE Moves
    BY <1>0, <1>4 DEF Moves, Claim, Resume, TurnEnds, LeaseLost, ClosingFails, Finish, FinishWhere, ExecutorDies,
                EndInv, StatusInv, tableVars, writerVars, execVars
  <1>5. CASE PushText
    BY <1>5 DEF PushText, EndInv, tableVars, execVars
  <1>6. CASE (\E s \in Terminal : Close(s)) \/ CloserReads \/ CloserInserts \/ CloserDies \/ Forget
    BY <1>6 DEF Close, MayClose, CloserReads, CloserInserts, CloserDies, Forget, EndInv, tableVars, execVars, writerVars
  <1>7. CASE \E u \in Subscribers : Follow(u)
    <2>1. UNCHANGED <<tableVars, produced, writerVars, execVars, closerVars>>
      BY <1>7 DEF Follow, Poll, EmptyPoll, StatusCheck, TailCheck
    <2>2. QED BY <2>1 DEF EndInv, tableVars, execVars, writerVars
  <1>8. CASE UNCHANGED vars
    BY <1>8 DEF vars, EndInv, tableVars, execVars, writerVars
  <1>9. QED BY <1>1, <1>2, <1>3, <1>4, <1>5, <1>6, <1>7, <1>8 DEF Next, Writer, Executor, Closer, Moves

\* The row that tells success is the last that the executor numbers.
LEMMA SuccStep ==
  ASSUME TableInv, EndInv, SuccInv, [Next]_vars
  PROVE  SuccInv'
  <1> SUFFICES ASSUME NEW n, NEW r, Placed(n, r)', r.status = "succeeded" PROVE Quiet' /\ n = wseq'
    BY DEF SuccInv, Placed, Quiet, Over, Awaits
  <1>1. ~Plain(r)
    BY NoneAssumption DEF Plain, Terminal, Outcomes
  <1>2. CASE Placed(n, r)
    BY <1>2, QuietStep DEF SuccInv
  <1>3. CASE PushDone /\ r = DoneRow(outcome) /\ n = wseq'
    BY <1>3 DEF PushDone, PushAndAwait, Write, PendingAfterWrite, Quiet, Over, Awaits
  <1>4. CASE CloserInserts /\ r = DoneRow(status)
    <2>1. status \in {"cancelled", "failed", "interrupted"}
      BY <1>4 DEF CloserInserts, TableInv, StatusInv
    <2>2. QED BY <2>1, <1>4 DEF DoneRow
  <1>5. QED BY <1>1, <1>2, <1>3, <1>4, RowsStep

\* With nothing pending, the rows hold all that was produced.
LEMMA WholeAnswer ==
  ASSUME NEW p, Stream(p), TypeOK, pending = <<>>
  PROVE  p[wseq] = produced /\ Len(Span(0, p[wseq])) = produced
  <1>1. wseq \in Nat /\ produced \in Nat /\ p[wseq] \in Nat /\ p[wseq] <= produced
        /\ Span(p[wseq], produced) = <<>>
    BY DEF TypeOK, Stream, PieceMap
  <1> DEFINE a == p[wseq]
  <1>2. a \in Nat /\ a <= produced /\ Span(a, produced) = <<>>
    BY <1>1
  <1> HIDE DEF a
  <1>3. a = produced
    BY <1>1, <1>2, SpanFacts
  <1>4. Len(Span(0, produced)) = produced - 0
    <2>1. 0 \in Nat /\ 0 <= produced /\ produced \in Nat
      BY <1>1
    <2>2. QED BY <2>1, SpanFacts
  <1>5. QED BY <1>1, <1>3, <1>4 DEF a

LastRead ==
  \A u \in Subscribers :
    cursor[u] \in DOMAIN log /\ log[cursor[u]].status = "succeeded" =>
      Quiet /\ Len(got[u]) = produced

\* Told by the log: succeeded stands in the last row only, and rows come in order.
LEMMA ReadLast == TypeOK /\ StreamInv /\ SuccInv /\ forgotten = 0 => LastRead
  <1> SUFFICES ASSUME TypeOK, StreamInv, SuccInv, forgotten = 0, NEW u \in Subscribers,
                      cursor[u] \in DOMAIN log, log[cursor[u]].status = "succeeded"
               PROVE  Quiet /\ Len(got[u]) = produced
    BY DEF LastRead
  <1>1. PICK p, w, m : Stream(p) /\ Log(p, w, m) /\ Read(p, w, m)
    BY DEF StreamInv, Frontier
  <1>2. Quiet /\ cursor[u] = wseq
    <2>1. Placed(cursor[u], log[cursor[u]])
      BY DEF Placed
    <2>2. QED BY <2>1 DEF SuccInv
  <1>3. cursor[u] <= w
    <2>1. w \in Nat /\ m \in Nat /\ DOMAIN log = 1..m
      BY <1>1 DEF Log
    <2>2. cursor[u] \notin (w + 1)..m
      BY <1>1 DEF Log
    <2>3. QED BY <2>1, <2>2
  <1>4. got[u] = Span(0, p[wseq])
    BY <1>1, <1>2, <1>3 DEF Read
  <1>5. QED BY <1>1, <1>2, <1>4, WholeAnswer DEF Quiet

\* Told by the status: the run is over, and no row is left to read.
LEMMA ReadAll ==
  ASSUME TypeOK, StreamInv, EndInv, forgotten = 0, ~failed, status = "succeeded",
         NEW u \in Subscribers, ~TailLeft(u)
  PROVE  Quiet /\ Len(got[u]) = produced
  <1>1. PICK p, w, m : Stream(p) /\ Log(p, w, m) /\ Queue(w) /\ Read(p, w, m)
    BY DEF StreamInv, Frontier
  <1>2. pc = "ended" /\ chain = <<>> /\ pending = <<>>
    BY DEF EndInv
  <1>3. Quiet /\ w = wseq
    BY <1>1, <1>2 DEF Queue, Quiet, Over
  <1>4. m \in Nat /\ w \in 0..m /\ DOMAIN log = 1..m /\ cursor[u] \in Nat /\ cursor[u] <= m
    BY <1>1, PiecesAssumption DEF Log, Read, TypeOK
  <1>5. cursor[u] >= m
    <2>1. m \in 1..m => ~(m > cursor[u])
      BY <1>4 DEF TailLeft, SeqsAfter
    <2>2. QED BY <2>1, <1>4
  <1>6. got[u] = Span(0, p[w])
    <2>1. cursor[u] = w \/ cursor[u] > w
      BY <1>4, <1>5
    <2>2. CASE cursor[u] = w
      BY <2>2, <1>1, <1>4 DEF Read
    <2>3. CASE cursor[u] > w
      BY <2>3, <1>1 DEF Read
    <2>4. QED BY <2>1, <2>2, <2>3
  <1>7. QED BY <1>1, <1>2, <1>3, <1>6, WholeAnswer

\* Success is told by the last row or by the status, and both come after the answer.
LEMMA FullStep ==
  ASSUME TableInv, DoneInv, StreamInv, EndInv, FullInv, [Next]_vars,
         TypeOK', StreamInv', SuccInv'
  PROVE  FullInv'
  <1> SUFFICES ASSUME ~failed', forgotten' = 0, NEW u \in Subscribers, final'[u] = "succeeded"
               PROVE  Quiet' /\ Len(got'[u]) = produced'
    BY DEF FullInv, Quiet, Over, Awaits
  <1>1. ~failed /\ forgotten = 0
    BY ForgottenStep
  <1>2. /\ sub \in [Subscribers -> {"poll", "check", "tail", "closed"}]
        /\ cursor \in [Subscribers -> Nat]
        /\ final \in [Subscribers -> Terminal \cup {None}] /\ got \in [Subscribers -> Seq(Pieces)]
    BY PiecesAssumption DEF TableInv, TypeOK
  <1>3. CASE Poll(u)
    <2>1. PICK n \in SeqsAfter(cursor[u]) :
            /\ cursor' = [cursor EXCEPT ![u] = n]
            /\ IF log[n].type = "done"
               THEN final' = [final EXCEPT ![u] = log[n].status]
               ELSE UNCHANGED <<sub, final>>
      BY <1>3 DEF Poll
    <2>2. sub[u] = "poll" /\ log' = log /\ cursor'[u] = n
      BY <1>2, <1>3, <2>1 DEF Poll, tableVars
    <2>3. final[u] # "succeeded"
      BY <2>2, NoneAssumption DEF DoneInv, Terminal, Outcomes
    <2>4. log[n].status = "succeeded" /\ n \in DOMAIN log
      BY <1>2, <2>1, <2>3 DEF SeqsAfter
    <2>5. (cursor[u] \in DOMAIN log /\ log[cursor[u]].status = "succeeded")'
      BY <2>2, <2>4
    <2>6. (forgotten = 0)'
      OBVIOUS
    <2>7. LastRead'
      BY <2>6, ReadLast, PTL
    <2>8. QED BY <2>5, <2>7 DEF LastRead
  <1>4. CASE TailCheck(u) /\ final'[u] # final[u]
    <2>1. ~TailLeft(u) /\ status = "succeeded"
          /\ UNCHANGED <<tableVars, produced, writerVars, execVars, closerVars, cursor, got>>
      BY <1>2, <1>4 DEF TailCheck, Step
    <2>2. TypeOK
      BY DEF TableInv
    <2>3. Quiet /\ Len(got[u]) = produced
      BY <1>1, <2>1, <2>2, ReadAll
    <2>4. QED BY <2>1, <2>3 DEF Quiet, Over, Awaits, writerVars, execVars
  <1>5. CASE ~Poll(u) /\ final'[u] = final[u]
    <2>1. Quiet /\ Len(got[u]) = produced
      BY <1>1, <1>5 DEF FullInv
    <2>2. Quiet' /\ produced' = produced
      BY <2>1, QuietStep
    <2>3. got'[u] = got[u]
      <3>1. CASE \E v \in Subscribers : Poll(v)
        <4>1. PICK v \in Subscribers : Poll(v) /\ v # u
          BY <3>1, <1>5
        <4>2. QED BY <4>1, <1>2 DEF Poll
      <3>2. CASE WriteStep \/ AppendBatch \/ PushText \/ Moves \/ UNCHANGED vars
        BY <3>2 DEF WriteStep, FlushTimer, PushEvent, PushError, PushDone, PushAndAwait, AppendBatch, PushText,
                  Moves, Claim, Resume, TurnEnds, LeaseLost, ClosingFails, Finish, ExecutorDies, vars, subVars
      <3>3. CASE \/ (\E s \in Terminal : Close(s)) \/ CloserReads \/ CloserInserts \/ CloserDies \/ Forget
                 \/ (\E v \in Subscribers : EmptyPoll(v) \/ StatusCheck(v) \/ TailCheck(v))
        BY <3>3 DEF Close, CloserReads, CloserInserts, CloserDies, Forget, EmptyPoll, StatusCheck, TailCheck, subVars
      <3>4. QED BY <3>1, <3>2, <3>3 DEF Next, Writer, Executor, Closer, Follow, Moves, WriteStep
    <2>4. QED BY <2>1, <2>2, <2>3
  <1>6. Poll(u) \/ TailCheck(u) \/ final'[u] = final[u]
    <2>1. CASE \E v \in Subscribers : Follow(v)
      <3>1. PICK v \in Subscribers : Follow(v)
        BY <2>1
      <3>2. CASE v = u
        BY <3>1, <3>2 DEF Follow, EmptyPoll, StatusCheck
      <3>3. CASE v # u
        BY <3>1, <3>3, <1>2 DEF Follow, Poll, EmptyPoll, StatusCheck, TailCheck
      <3>4. QED BY <3>2, <3>3
    <2>2. CASE ~(\E v \in Subscribers : Follow(v))
      BY <2>2 DEF Next, Writer, Executor, Closer, FlushTimer, AppendBatch, Claim, PushText, PushEvent, Resume, TurnEnds,
                  LeaseLost, PushError, PushDone, PushAndAwait, ClosingFails, Finish, ExecutorDies, Close,
                  CloserReads, CloserInserts, CloserDies, Forget, vars, subVars
    <2>3. QED BY <2>1, <2>2
  <1>7. QED BY <1>3, <1>4, <1>5, <1>6

\* A subscriber told `succeeded` has the whole answer, unless an INSERT failed or the log
\* was deleted.
THEOREM WholeAnswerSeen == Spec => []FullAnswer
  <1> DEFINE Inv == TableInv /\ TailInv /\ DoneInv /\ StreamInv /\ EndInv /\ SuccInv /\ FullInv
  <1>1. Init => Inv
    <2>1. Init => DoneInv /\ EndInv /\ SuccInv /\ FullInv
      BY NoneAssumption DEF Init, DoneInv, EndInv, SuccInv, FullInv, Placed, Terminal, Outcomes
    <2>2. QED BY <2>1, TableInvInit, TailInvInit, StreamInvInit
  <1>2. Inv /\ [Next]_vars => Inv'
    <2> SUFFICES ASSUME Inv, [Next]_vars PROVE Inv'
      OBVIOUS
    <2>1. TableInv' /\ TailInv' /\ DoneInv' /\ StreamInv' /\ EndInv' /\ SuccInv'
      BY TableStep, TailStep, DoneStep, StreamInvStep, EndStep, SuccStep
    <2>2. TypeOK'
      BY <2>1 DEF TableInv
    <2>3. QED BY <2>1, <2>2, FullStep
  <1>3. Inv => FullAnswer
    BY DEF FullInv, FullAnswer
  <1>4. QED BY <1>1, <1>2, <1>3, PTL DEF Spec
=============================================================================
