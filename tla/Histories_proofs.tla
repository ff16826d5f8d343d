--------------------------- MODULE Histories_proofs ---------------------------
(***************************************************************************)
(* What the pipeline makes of any history, whatever rows it has and however *)
(* long it is. Assumes ModelAssumption and FileAssumption.                  *)
(***************************************************************************)
EXTENDS Histories, FiniteSetTheorems, SequenceTheorems, TLAPS

-----------------------------------------------------------------------------
(* Numbers: least elements stand for induction.                             *)


\* Every nonempty set of numbers has a least one: the induction the proofs need,
\* from the well-founded inclusion of finite sets.
LEMMA LeastNumber ==
  ASSUME NEW T \in SUBSET Nat, T # {}
  PROVE  \E n \in T : \A m \in T : n <= m
<1> DEFINE R == StrictSubsetOrdering(Nat)
           S == FiniteSubsetsOf(Nat)
           C == {1..n : n \in T}
<1>1. IsWellFoundedOn(R, S)
  BY FS_StrictSubsetOrderingWellFounded
<1>2. C \subseteq S /\ C # {}
  <2>1. \A n \in T : n \in Int /\ 1 \in Int /\ 1..n \in SUBSET Nat
    OBVIOUS
  <2>2. \A n \in T : IsFiniteSet(1..n)
    BY <2>1, FS_Interval
  <2>3. QED BY <2>1, <2>2, Zenon DEF FiniteSubsetsOf
<1>3. \E x \in C : \A y \in C : ~(<<y, x>> \in R)
  <2> HIDE DEF R, S, C
  <2> QED BY <1>1, <1>2, WFMin
<1>4. PICK n \in T : \A m \in T : <<1..m, 1..n>> \notin R
  BY <1>3
<1>5. ASSUME NEW m \in T, m < n PROVE FALSE
  <2>1. 1..m \in SUBSET Nat /\ 1..n \in SUBSET Nat /\ 1..m \subseteq 1..n
    BY <1>5
  <2>2. n \in 1..n /\ n \notin 1..m
    BY <1>5
  <2>3. <<1..m, 1..n>> \in R
    BY <2>1, <2>2, Zenon DEF StrictSubsetOrdering
  <2>4. QED BY <2>3, <1>4
<1>6. QED BY <1>5

\* The maximum of a bounded set of numbers.
LEMMA MaxFacts ==
  ASSUME NEW k \in Nat, NEW S \in SUBSET (0..k), S # {}
  PROVE  Max(S) \in S /\ \A x \in S : x <= Max(S)
  <1> DEFINE T == {k - x : x \in S}
  <1>1. T \in SUBSET Nat /\ T # {}
    <2>1. \A x \in S : x \in Nat /\ k - x \in Nat
      OBVIOUS
    <2>2. QED BY <2>1
  <1>2. PICK n \in T : \A m \in T : n <= m
    BY <1>1, LeastNumber
  <1>3. PICK x \in S : n = k - x
    BY <1>2
  <1>4. \A y \in S : x >= y
    <2>1. \A y \in S : k - x <= k - y
      BY <1>2, <1>3
    <2>2. \A y \in S : y \in Nat
      OBVIOUS
    <2>3. QED BY <2>1, <2>2
  <1>5. QED BY <1>4 DEF Max

\* The minimum of a set of numbers.
LEMMA MinFacts ==
  ASSUME NEW S \in SUBSET Nat, S # {}
  PROVE  Min(S) \in S /\ \A x \in S : Min(S) <= x
<1>1. PICK n \in S : \A m \in S : n <= m
  BY LeastNumber
<1>2. \E x \in S : \A y \in S : x =< y
  BY <1>1
<1>3. QED BY <1>2 DEF Min

\* Induction over 0..n, with the property as a set.
LEMMA Induction ==
  ASSUME NEW n \in Nat, NEW P, 0 \in P, \A i \in 1..n : i - 1 \in P => i \in P
  PROVE  \A i \in 0..n : i \in P
<1> DEFINE T == (0..n) \ P
<1>1. SUFFICES ASSUME T # {} PROVE FALSE
  OBVIOUS
<1>2. PICK k \in T : \A m \in T : k <= m
  <2>1. T \in SUBSET Nat
    OBVIOUS
  <2> HIDE DEF T
  <2>2. QED BY <1>1, <2>1, LeastNumber
<1>3. k \in 0..n /\ k # 0 /\ k \notin P
  OBVIOUS
<1>4. k \in 1..n /\ k - 1 \in 0..n /\ ~(k <= k - 1)
  BY <1>3
<1>5. k - 1 \in P
  BY <1>2, <1>4
<1>6. QED BY <1>3, <1>4, <1>5

\* Recursion over 0..n, with the step as a function of the last value and the number.
Steps(n, A) == [A \X (1..n) -> A]
Iterates(f, n, A, a, step) ==
  f[0] = a /\ \A i \in 1..n : f[i - 1] \in A => f[i] = step[<<f[i - 1], i>>]

\* What is defined by recursion has the type of its steps.
LEMMA IterationType ==
  ASSUME NEW n \in Nat, NEW A, NEW a \in A, NEW step \in Steps(n, A), NEW f, Iterates(f, n, A, a, step)
  PROVE  \A i \in 0..n : f[i] \in A
<1> DEFINE P == {k \in 0..n : f[k] \in A}
<1>1. ASSUME NEW k \in 1..n, k - 1 \in P PROVE k \in P
  <2>1. f[k] = step[<<f[k - 1], k>>] /\ <<f[k - 1], k>> \in A \X (1..n)
    BY <1>1 DEF Iterates
  <2>2. QED BY <2>1 DEF Steps
<1>2. 0 \in P
  BY DEF Iterates
<1> HIDE DEF P
<1>3. \A i \in 0..n : i \in P
  BY <1>1, <1>2, Induction
<1>4. QED BY <1>3 DEF P

\* A function defined by recursion exists.
LEMMA Iteration ==
  ASSUME NEW n \in Nat, NEW A, NEW a \in A, NEW step \in Steps(n, A)
  PROVE  \E f \in [0..n -> A] : Iterates(f, n, A, a, step)
<1> DEFINE Upto(k, f) == f \in [0..k -> A] /\ Iterates(f, k, A, a, step)
           P == {k \in 0..n : \E f : Upto(k, f)}
<1>1. SUFFICES \A k \in 0..n : k \in P
  BY <1>1
<1>2. 0 \in P
  <2>1. Upto(0, [i \in 0..0 |-> a])
    BY DEF Iterates
  <2> HIDE DEF Upto
  <2>2. QED BY <2>1
<1>3. SUFFICES ASSUME NEW k \in 1..n, k - 1 \in P PROVE k \in P
  <2> HIDE DEF P
  <2>1. QED BY <1>2, <1>3, Induction
<1>4. k \in 0..n /\ k - 1 \in 0..n
  OBVIOUS
<1>5. PICK f : Upto(k - 1, f)
  <2> HIDE DEF Upto
  <2>1. QED BY <1>3
<1>6. PICK v : v = step[<<f[k - 1], k>>]
  OBVIOUS
<1>7. v \in A
  <2>1. f[k - 1] \in A
    BY <1>4, <1>5
  <2>2. QED BY <1>4, <1>6, <2>1 DEF Steps
<1>8. PICK g : g = [i \in 0..k |-> IF i = k THEN v ELSE f[i]]
  OBVIOUS
<1>9. \A i \in 0..k : i = k \/ i \in 0..(k - 1)
  BY <1>4
<1>10. g \in [0..k -> A]
  BY <1>5, <1>7, <1>8, <1>9
<1>11. g[0] = a
  BY <1>4, <1>5, <1>8 DEF Iterates
<1>12. ASSUME NEW i \in 1..k PROVE g[i] = step[<<g[i - 1], i>>]
  <2>1. CASE i = k
    <3>1. k - 1 \in 0..k /\ k - 1 # k /\ k \in 0..k
      BY <1>4
    <3>2. g[k] = v /\ g[k - 1] = f[k - 1]
      BY <1>8, <3>1
    <3>3. QED BY <1>6, <2>1, <3>2
  <2>2. CASE i # k
    <3>1. i \in 1..(k - 1) /\ i \in 0..k /\ i - 1 \in 0..k /\ i - 1 # k /\ i - 1 \in 0..(k - 1)
      BY <1>4, <2>2
    <3>2. g[i] = f[i] /\ g[i - 1] = f[i - 1]
      BY <1>8, <2>2, <3>1
    <3>3. QED BY <1>5, <3>1, <3>2 DEF Iterates
  <2>3. QED BY <2>1, <2>2
<1>13. Upto(k, g)
  BY <1>10, <1>11, <1>12 DEF Iterates
<1>14. QED
  <2> HIDE DEF Upto
  <2>1. QED BY <1>4, <1>13

-----------------------------------------------------------------------------
(* Sequences.                                                               *)

\* The values that the recursion of SelectAt goes through.
Selects(f, S, s, J) ==
  /\ SelectAt(s, J) = f[Len(s)] /\ f[0] = <<>>
  /\ \A i \in 0..Len(s) : f[i] \in Seq(S)
  /\ \A i \in 1..Len(s) : f[i] = IF i \in J THEN Append(f[i - 1], s[i]) ELSE f[i - 1]

LEMMA SelectAtSteps ==
  ASSUME NEW S, NEW s \in Seq(S), NEW J PROVE \E f : Selects(f, S, s, J)
<1>1. PICK n, A, a : n = Len(s) /\ A = Seq(S) /\ a = <<>>
  OBVIOUS
<1> DEFINE Taken(f) == [i \in 0..n |-> IF i = 0 THEN a ELSE IF i \in J THEN Append(f[i - 1], s[i]) ELSE f[i - 1]]
<1>2. PICK step : step = [p \in A \X (1..n) |-> IF p[2] \in J THEN Append(p[1], s[p[2]]) ELSE p[1]]
  OBVIOUS
<1>3. n \in Nat /\ step \in Steps(n, A) /\ a \in A
  BY <1>1, <1>2 DEF Steps
<1>4. \A x \in A, i \in 1..n : step[<<x, i>>] = IF i \in J THEN Append(x, s[i]) ELSE x
  BY <1>2
<1>5. PICK f \in [0..n -> A] : Iterates(f, n, A, a, step)
  BY ONLY <1>3, Iteration
<1>6. \A i \in 0..n : i # 0 => i \in 1..n /\ i - 1 \in 0..n
  BY <1>3
<1>7. ASSUME NEW i \in 0..n PROVE f[i] = IF i = 0 THEN a ELSE IF i \in J THEN Append(f[i - 1], s[i]) ELSE f[i - 1]
  <2>1. i # 0 => f[i - 1] \in A
    BY <1>6
  <2>2. QED BY <1>4, <1>5, <1>6, <2>1 DEF Iterates
<1>8. f = Taken(f)
  BY <1>7
<1>9. PICK g : g = CHOOSE h : h = Taken(h)
  OBVIOUS
<1>10. g = Taken(g)
  <2> HIDE DEF Taken
  <2>1. QED BY <1>8, <1>9
<1>11. SelectAt(s, J) = g[n]
  BY <1>1, <1>9 DEF SelectAt
<1>12. g[0] = a /\ \A i \in 1..n : g[i] = IF i \in J THEN Append(g[i - 1], s[i]) ELSE g[i - 1]
  <2>1. 0 \in 0..n /\ \A i \in 1..n : i \in 0..n /\ i # 0
    BY <1>3
  <2>2. \A i \in 0..n : g[i] = IF i = 0 THEN a ELSE IF i \in J THEN Append(g[i - 1], s[i]) ELSE g[i - 1]
    BY <1>10
  <2>3. QED BY <2>1, <2>2
<1>13. \A i \in 0..n : g[i] \in A
  <2>1. Iterates(g, n, A, a, step)
    BY <1>4, <1>12 DEF Iterates
  <2>2. QED BY ONLY <1>3, <2>1, IterationType
<1>14. QED BY <1>1, <1>11, <1>12, <1>13 DEF Selects

LEMMA Concat ==
  ASSUME NEW S, NEW s \in Seq(S), NEW t \in Seq(S), NEW u, u = s \o t
  PROVE  /\ u \in Seq(S) /\ Len(u) = Len(s) + Len(t)
         /\ \A k \in 1..(Len(s) + Len(t)) : u[k] = IF k <= Len(s) THEN s[k] ELSE t[k - Len(s)]
  OBVIOUS

Closes(t, s, i) ==
  /\ DOMAIN t = 1..(Len(s) - 1) /\ DOMAIN s = 1..Len(s)
  /\ \A k \in 1..(Len(s) - 1) : k < i => t[k] = s[k]
  /\ \A k \in 1..(Len(s) - 1) : ~(k < i) => t[k] = s[k + 1]

LEMMA SingleBlock ==
  ASSUME NEW b PROVE ToSet(<<b>>) = {b}
  BY DEF ToSet

LEMMA ToSetAppend ==
  ASSUME NEW S, NEW s \in Seq(S), NEW e \in S PROVE ToSet(Append(s, e)) = ToSet(s) \cup {e}
<1>1. PICK t : t = Append(s, e)
  OBVIOUS
<1>2. DOMAIN t = 1..(Len(s) + 1) /\ DOMAIN s = 1..Len(s) /\ Len(s) \in Nat
      /\ t[Len(s) + 1] = e /\ \A i \in 1..Len(s) : t[i] = s[i]
  BY <1>1
<1>3. \A i \in 1..(Len(s) + 1) : i = Len(s) + 1 \/ i \in 1..Len(s)
  BY <1>2
<1>4. 1..Len(s) \subseteq 1..(Len(s) + 1) /\ Len(s) + 1 \in 1..(Len(s) + 1)
  BY <1>2
<1>5. ToSet(t) = ToSet(s) \cup {e}
  BY <1>2, <1>3, <1>4 DEF ToSet
<1>6. QED BY <1>1, <1>5

LEMMA ToSetConcat ==
  ASSUME NEW S, NEW s \in Seq(S), NEW t \in Seq(S) PROVE ToSet(s \o t) = ToSet(s) \cup ToSet(t)
<1>1. PICK u : u = s \o t
  OBVIOUS
<1>2. DOMAIN u = 1..(Len(s) + Len(t)) /\ DOMAIN s = 1..Len(s) /\ DOMAIN t = 1..Len(t)
      /\ Len(s) \in Nat /\ Len(t) \in Nat
      /\ \A i \in 1..(Len(s) + Len(t)) : u[i] = IF i <= Len(s) THEN s[i] ELSE t[i - Len(s)]
  BY <1>1
<1>3. \A i \in 1..(Len(s) + Len(t)) : i \in 1..Len(s) \/ (i - Len(s) \in 1..Len(t) /\ ~(i <= Len(s)))
  BY <1>2
<1>4. \A i \in 1..Len(s) : i \in 1..(Len(s) + Len(t)) /\ i <= Len(s)
  BY <1>2
<1>5. \A i \in 1..Len(t) : i + Len(s) \in 1..(Len(s) + Len(t)) /\ ~(i + Len(s) <= Len(s)) /\ (i + Len(s)) - Len(s) = i
  BY <1>2
<1>6. ToSet(u) \subseteq ToSet(s) \cup ToSet(t)
  <2>1. ASSUME NEW i \in 1..(Len(s) + Len(t)) PROVE u[i] \in ToSet(s) \cup ToSet(t)
    <3>1. CASE i <= Len(s)
      <4>1. i \in 1..Len(s) /\ u[i] = s[i]
        BY <1>2, <1>3, <3>1
      <4>2. QED BY <1>2, <4>1 DEF ToSet
    <3>2. CASE ~(i <= Len(s))
      <4>1. i - Len(s) \in 1..Len(t) /\ u[i] = t[i - Len(s)]
        BY <1>2, <1>3, <3>2
      <4>2. QED BY <1>2, <4>1 DEF ToSet
    <3>3. QED BY <3>1, <3>2
  <2>2. QED BY <1>2, <2>1 DEF ToSet
<1>7. ToSet(s) \subseteq ToSet(u)
  BY <1>2, <1>4 DEF ToSet
<1>8. ToSet(t) \subseteq ToSet(u)
  <2>1. \A i \in 1..Len(t) : u[i + Len(s)] = t[i]
    BY <1>2, <1>5
  <2>2. QED BY <1>2, <1>5, <2>1 DEF ToSet
<1>9. QED BY <1>1, <1>6, <1>7, <1>8

LEMMA SelectAtFacts ==
  ASSUME NEW S, NEW s \in Seq(S), NEW J
  PROVE  SelectAt(s, J) \in Seq(S) /\ ToSet(SelectAt(s, J)) = {s[i] : i \in J \cap DOMAIN s}
<1>0. PICK f : Selects(f, S, s, J)
  BY SelectAtSteps
<1>1. /\ SelectAt(s, J) = f[Len(s)] /\ f[0] = <<>>
      /\ \A i \in 0..Len(s) : f[i] \in Seq(S)
      /\ \A i \in 1..Len(s) : f[i] = IF i \in J THEN Append(f[i - 1], s[i]) ELSE f[i - 1]
  BY <1>0 DEF Selects
<1>2. PICK n : n = Len(s) /\ n \in Nat /\ DOMAIN s = 1..n
  OBVIOUS
<1> DEFINE Taken(i) == {s[j] : j \in J \cap (1..i)}
           P == {i \in 0..n : ToSet(f[i]) = Taken(i)}
<1>3. 0 \in P
  BY <1>1, <1>2 DEF ToSet
<1>4. ASSUME NEW i \in 1..n, i - 1 \in P PROVE i \in P
  <2>1. s[i] \in S /\ f[i - 1] \in Seq(S) /\ i \in 0..n /\ i - 1 \in 0..n
    BY <1>1, <1>2
  <2>2. 1..i = (1..(i - 1)) \cup {i}
    OBVIOUS
  <2>3. ToSet(f[i - 1]) = Taken(i - 1)
    BY <1>4
  <2>4. CASE i \in J
    <3>1. ToSet(f[i]) = ToSet(f[i - 1]) \cup {s[i]}
      BY <1>1, <1>2, <2>1, <2>4, ToSetAppend
    <3>2. Taken(i) = Taken(i - 1) \cup {s[i]}
      BY <2>2, <2>4
    <3>3. QED BY <2>1, <2>3, <3>1, <3>2
  <2>5. CASE i \notin J
    <3>1. f[i] = f[i - 1]
      BY <1>1, <1>2, <2>5
    <3>2. Taken(i) = Taken(i - 1)
      BY <2>2, <2>5
    <3>3. QED BY <2>1, <2>3, <3>1, <3>2
  <2>6. QED BY <2>4, <2>5
<1>5. n \in P
  <2>1. n \in 0..n
    BY <1>2
  <2> HIDE DEF P
  <2>2. QED BY <1>2, <1>3, <1>4, <2>1, Induction
<1>6. QED BY <1>1, <1>2, <1>5

LEMMA EmptyToSet == ASSUME NEW S, NEW s \in Seq(S) PROVE s = <<>> <=> ToSet(s) = {}
  BY DEF ToSet

-----------------------------------------------------------------------------
(* Blocks of which each server result follows its use.                      *)

Served(bs) ==
  \A j \in DOMAIN bs : bs[j].type = "srvResult" => \E k \in 1..(j - 1) : bs[k] = Block("srvUse", bs[j].id)

LEMMA ServedAppend ==
  ASSUME NEW S, NEW s \in Seq(S), Served(s), NEW e \in S,
         e.type = "srvResult" => Block("srvUse", e.id) \in ToSet(s)
  PROVE  Served(Append(s, e))
<1>1. PICK t, n : t = Append(s, e) /\ n = Len(s)
  OBVIOUS
<1>2. /\ n \in Nat /\ DOMAIN t = 1..(n + 1) /\ DOMAIN s = 1..n /\ t[n + 1] = e
      /\ \A i \in 1..n : t[i] = s[i]
  BY <1>1
<1>3. ASSUME NEW j \in 1..(n + 1), t[j].type = "srvResult"
      PROVE \E k \in 1..(j - 1) : t[k] = Block("srvUse", t[j].id)
  <2>1. CASE j = n + 1
    <3>1. PICK k \in 1..n : s[k] = Block("srvUse", e.id)
      BY <1>2, <1>3, <2>1 DEF ToSet
    <3>2. k \in 1..(j - 1)
      BY <1>2, <2>1
    <3>3. QED BY <1>2, <2>1, <3>1, <3>2
  <2>2. CASE j \in 1..n
    <3>1. PICK k \in 1..(j - 1) : s[k] = Block("srvUse", s[j].id)
      BY <1>2, <1>3, <2>2 DEF Served
    <3>2. k \in 1..n
      BY <1>2, <2>2
    <3>3. QED BY <1>2, <2>2, <3>1, <3>2
  <2>3. QED BY <1>2, <2>1, <2>2
<1>4. QED BY <1>1, <1>2, <1>3 DEF Served

LEMMA ServedConcat ==
  ASSUME NEW S, NEW s \in Seq(S), NEW t \in Seq(S), Served(s), Served(t)
  PROVE  Served(s \o t)
<1>1. PICK u, n, m : u = s \o t /\ n = Len(s) /\ m = Len(t)
  OBVIOUS
<1>2. /\ n \in Nat /\ m \in Nat /\ DOMAIN u = 1..(n + m) /\ DOMAIN s = 1..n /\ DOMAIN t = 1..m
      /\ \A i \in 1..n : u[i] = s[i]
      /\ \A i \in 1..m : u[n + i] = t[i]
  BY <1>1
<1>3. ASSUME NEW j \in 1..(n + m), u[j].type = "srvResult"
      PROVE \E k \in 1..(j - 1) : u[k] = Block("srvUse", u[j].id)
  <2>1. CASE j \in 1..n
    <3>1. PICK k \in 1..(j - 1) : s[k] = Block("srvUse", s[j].id)
      BY <1>2, <1>3, <2>1 DEF Served
    <3>2. k \in 1..n
      BY <1>2, <2>1
    <3>3. QED BY <1>2, <2>1, <3>1, <3>2
  <2>2. CASE j \notin 1..n
    <3>1. PICK i \in 1..m : i = j - n /\ j = n + i
      BY <1>2, <2>2
    <3>2. t[i].type = "srvResult" /\ t[i] = u[j]
      BY <1>2, <1>3, <3>1
    <3>3. PICK k \in 1..(i - 1) : t[k] = Block("srvUse", t[i].id)
      BY <1>2, <3>2 DEF Served
    <3>4. k \in 1..m /\ n + k \in 1..(j - 1)
      BY <1>2, <3>1, <3>3
    <3>5. QED BY <1>2, <3>2, <3>3, <3>4
  <2>3. QED BY <2>1, <2>2
<1>4. QED BY <1>1, <1>2, <1>3 DEF Served

\* Blocks without server results, and a filler.
LEMMA ServedWithout == ASSUME NEW S, NEW s \in Seq(S), \A b \in ToSet(s) : b.type # "srvResult" PROVE Served(s)
  BY DEF Served, ToSet

LEMMA ServedFiller == Served(<<Filler>>)
  BY DEF Served, Filler, Block

\* A selection is served if it takes the use of every server result it takes.
LEMMA ServedSelection ==
  ASSUME NEW S, NEW s \in Seq(S), NEW J,
         \A j \in J \cap DOMAIN s : s[j].type = "srvResult" =>
           \E k \in 1..(j - 1) : k \in J /\ s[k] = Block("srvUse", s[j].id)
  PROVE  Served(SelectAt(s, J))
<1>0. PICK f : Selects(f, S, s, J)
  BY SelectAtSteps
<1>1. /\ SelectAt(s, J) = f[Len(s)] /\ f[0] = <<>>
      /\ \A i \in 0..Len(s) : f[i] \in Seq(S)
      /\ \A i \in 1..Len(s) : f[i] = IF i \in J THEN Append(f[i - 1], s[i]) ELSE f[i - 1]
  BY <1>0 DEF Selects
<1>2. PICK n : n = Len(s) /\ n \in Nat /\ DOMAIN s = 1..n
  OBVIOUS
<1> DEFINE P == {i \in 0..n : Served(f[i]) /\ \A k \in J \cap (1..i) : s[k] \in ToSet(f[i])}
<1>3. 0 \in P
  BY <1>1, <1>2 DEF Served
<1>4. ASSUME NEW i \in 1..n, i - 1 \in P PROVE i \in P
  <2>1. s[i] \in S /\ f[i - 1] \in Seq(S) /\ i \in 0..n /\ i - 1 \in 0..n /\ i \in DOMAIN s
    BY <1>1, <1>2
  <2>2. \A k \in 1..i : k = i \/ k \in 1..(i - 1)
    OBVIOUS
  <2>3. Served(f[i - 1]) /\ \A k \in J \cap (1..(i - 1)) : s[k] \in ToSet(f[i - 1])
    BY <1>4
  <2>4. CASE i \in J
    <3>1. f[i] = Append(f[i - 1], s[i])
      BY <1>1, <1>2, <2>4
    <3>2. ToSet(f[i]) = ToSet(f[i - 1]) \cup {s[i]}
      BY <2>1, <3>1, ToSetAppend
    <3>3. s[i].type = "srvResult" => Block("srvUse", s[i].id) \in ToSet(f[i - 1])
      BY <2>1, <2>3, <2>4
    <3>4. Served(f[i])
      BY <2>1, <2>3, <3>1, <3>3, ServedAppend
    <3>5. \A k \in J \cap (1..i) : s[k] \in ToSet(f[i])
      BY <2>2, <2>3, <3>2
    <3>6. QED BY <2>1, <3>4, <3>5
  <2>5. CASE i \notin J
    <3>1. f[i] = f[i - 1]
      BY <1>1, <1>2, <2>5
    <3>2. QED BY <2>1, <2>2, <2>3, <2>5, <3>1
  <2>6. QED BY <2>4, <2>5
<1>5. n \in P
  <2>1. n \in 0..n
    BY <1>2
  <2> HIDE DEF P
  <2>2. QED BY <1>2, <1>3, <1>4, <2>1, Induction
<1>6. QED BY <1>1, <1>2, <1>5

-----------------------------------------------------------------------------
(* Messages, with blocks of any ids.                                        *)

BlockType ==
  {"text", "note", "terminator", "filler", "use", "result", "readRef", "uploadRef", "file", "stub",
   "compaction", "nullCompaction", "srvUse", "srvResult"}

Blocks(Id)   == [type : BlockType, id : Id \cup {<<>>}]
Messages(Id) == [role : {"user", "assistant"}, blocks : Seq(Blocks(Id))]

UsesOf(m)    == Ids(m, "use")
ResultsOf(m) == Ids(m, "result")
NoRefs(m)    == \A b \in ToSet(m.blocks) : ~IsRef(b)

\* What every stored row and every message made of it is like.
Shape(m) ==
  /\ m.blocks # <<>>
  /\ m.role = "assistant" => ResultsOf(m) = {} /\ NoRefs(m)
  /\ m.role = "user" => UsesOf(m) = {}
  /\ ResultsOf(m) # {} => Only(m, "result")

\* A user message that nothing can drop.
Loose(m) == m.role = "user" /\ ResultsOf(m) = {}

\* Rows that may be stored: of a role, with blocks, and not of server results alone.
IsRow(Id, m) ==
  /\ m.role \in {"user", "assistant"} /\ m.blocks \in Seq(Blocks(Id)) /\ Shape(m)
  /\ \E b \in ToSet(m.blocks) : b.type # "srvResult"
StoredRows(Id, S) == Msg("user", <<Filler>>) \in S /\ \A m \in S : IsRow(Id, m)

\* The messages made of them, with their references swapped and then their orphans dropped.
Bare(Id)  == {m \in Messages(Id) : IsRow(Id, m) /\ NoRefs(m)}
Clean(Id) == {m \in Messages(Id) : Shape(m) /\ NoRefs(m) /\ Served(m.blocks)}

\* A history begins and ends with a prompt, or with what stands for it.
Framed(ms) == ms # <<>> /\ Loose(ms[1]) /\ Loose(ms[Len(ms)])

LEMMA MsgIs ==
  ASSUME NEW Id, NEW role \in {"user", "assistant"}, NEW b \in Seq(Blocks(Id))
  PROVE  Msg(role, b) \in Messages(Id) /\ Msg(role, b).role = role /\ Msg(role, b).blocks = b
  BY DEF Msg, Messages

LEMMA BlockIs ==
  ASSUME NEW Id, NEW type \in BlockType, NEW id \in Id \cup {<<>>}
  PROVE  Block(type, id) \in Blocks(Id) /\ Block(type, id).type = type /\ Block(type, id).id = id
  BY DEF Block, Blocks

LEMMA FillerBlock == ASSUME NEW Id PROVE Filler \in Blocks(Id) /\ Filler.type = "filler"
  BY BlockIs DEF Filler, BlockType

LEMMA InToSet == ASSUME NEW S, NEW s \in Seq(S), NEW b \in ToSet(s) PROVE b \in S /\ \E j \in DOMAIN s : b = s[j]
  BY DEF ToSet

LEMMA FillerMessage ==
  ASSUME NEW Id, NEW role \in {"user", "assistant"}
  PROVE  LET m == Msg(role, <<Filler>>) IN
         m \in Clean(Id) /\ m.role = role /\ UsesOf(m) = {} /\ ResultsOf(m) = {} /\ m.blocks \in Seq(Blocks(Id))
<1>1. Filler \in Blocks(Id) /\ Filler.type = "filler"
  BY FillerBlock
<1>2. PICK m : m = Msg(role, <<Filler>>)
  OBVIOUS
<1>3. m \in Messages(Id) /\ m.role = role /\ m.blocks = <<Filler>> /\ m.blocks \in Seq(Blocks(Id))
  <2>1. PICK bs : bs = <<Filler>>
    OBVIOUS
  <2>2. bs \in Seq(Blocks(Id))
    BY <1>1, <2>1
  <2>3. m = Msg(role, bs)
    BY <1>2, <2>1
  <2>4. m \in Messages(Id) /\ m.role = role /\ m.blocks = bs
    BY <2>2, <2>3, MsgIs
  <2>5. QED BY <2>1, <2>2, <2>4
<1>4. ToSet(m.blocks) = {Filler}
  BY <1>3 DEF ToSet
<1>5. UsesOf(m) = {} /\ ResultsOf(m) = {} /\ NoRefs(m) /\ Served(m.blocks)
  BY <1>1, <1>3, <1>4, ServedFiller DEF UsesOf, ResultsOf, Ids, NoRefs, IsRef
<1>6. m \in Clean(Id)
  BY <1>3, <1>5 DEF Clean, Shape
<1>7. QED BY <1>2, <1>3, <1>5, <1>6

-----------------------------------------------------------------------------
(* Trimming.                                                                *)

\* Indices of the elements of <<x>> \o SubSeq(ms, i, n).
LEMMA TrimIndices ==
  ASSUME NEW n \in Nat, NEW i \in 1..n
  PROVE  /\ n - i + 1 \in Nat /\ 1 + (n - i + 1) = n - i + 2 /\ n - i + 2 \in 2..(n + 1) /\ n - i + 2 \in Nat
         /\ \A k \in 2..(n - i + 2) : k - 1 \in 1..(n - i + 1) /\ ~(k <= 1) /\ i + (k - 1) - 1 = i + k - 2
                                       /\ i + k - 2 \in i..n /\ i + k - 2 \in 1..n /\ k \in 1..(n - i + 2)
         /\ i + (n - i + 2) - 2 = n
  OBVIOUS

LEMMA TrimElements ==
  ASSUME NEW S, NEW ms \in Seq(S), NEW x \in S, NEW i \in 1..Len(ms), NEW t, t = <<x>> \o SubSeq(ms, i, Len(ms))
  PROVE  /\ t \in Seq(S) /\ Len(t) = Len(ms) - i + 2 /\ t[1] = x /\ Len(ms) \in Nat
         /\ \A k \in 2..(Len(ms) - i + 2) : i + k - 2 \in 1..Len(ms) /\ t[k] = ms[i + k - 2]
<1>1. PICK n : n = Len(ms) /\ n \in Nat /\ i \in 1..n
  OBVIOUS
<1>2. PICK u : u = SubSeq(ms, i, n)
  OBVIOUS
<1>3. u \in Seq(S) /\ Len(u) = n - i + 1 /\ \A k \in 1..(n - i + 1) : u[k] = ms[i + k - 1]
  <2>1. \A k \in i..n : ms[k] \in S
    BY <1>1
  <2>2. i <= n /\ i \in Int /\ n \in Int
    BY <1>1
  <2>3. /\ u \in Seq(S)
        /\ Len(u) = (IF i <= n THEN n - i + 1 ELSE 0)
        /\ \A k \in 1..(n - i + 1) : u[k] = ms[i + k - 1]
    BY <1>1, <1>2, <2>1, <2>2, SubSeqProperties
  <2>4. QED BY <2>2, <2>3
<1>4. PICK v : v = <<x>>
  OBVIOUS
<1>5. v \in Seq(S) /\ Len(v) = 1 /\ v[1] = x
  BY <1>4
<1>6. t = v \o u
  BY <1>1, <1>2, <1>4
<1>7. /\ t \in Seq(S) /\ Len(t) = 1 + (n - i + 1)
      /\ \A k \in 1..(1 + (n - i + 1)) : t[k] = IF k <= 1 THEN v[k] ELSE u[k - 1]
  <2>1. /\ t \in Seq(S) /\ Len(t) = Len(v) + Len(u)
        /\ \A k \in 1..(Len(v) + Len(u)) : t[k] = IF k <= Len(v) THEN v[k] ELSE u[k - Len(v)]
    <3>1. v \in Seq(S) /\ u \in Seq(S)
      BY <1>3, <1>5
    <3>2. QED BY ONLY <3>1, <1>6, Concat
  <2>2. QED BY <1>3, <1>5, <2>1
<1>8. /\ n - i + 1 \in Nat /\ 1 + (n - i + 1) = n - i + 2 /\ n - i + 2 \in 2..(n + 1)
      /\ \A k \in 2..(n - i + 2) : k - 1 \in 1..(n - i + 1) /\ ~(k <= 1) /\ i + (k - 1) - 1 = i + k - 2
                                    /\ i + k - 2 \in 1..n /\ k \in 1..(n - i + 2)
  BY <1>1, TrimIndices
<1>9. t[1] = x
  <2>1. 1 \in 1..(n - i + 2)
    BY <1>8
  <2>2. QED BY <1>5, <1>7, <1>8, <2>1
<1>10. ASSUME NEW k \in 2..(n - i + 2) PROVE t[k] = ms[i + k - 2]
  <2>1. t[k] = u[k - 1]
    BY <1>7, <1>8
  <2>2. u[k - 1] = ms[i + (k - 1) - 1]
    BY <1>3, <1>8
  <2>3. QED BY <1>8, <2>1, <2>2
<1>11. QED BY <1>1, <1>7, <1>8, <1>9, <1>10

\* The messages are kept, or all from an assistant message on.
LEMMA TrimCases ==
  ASSUME NEW S, NEW ms \in Seq(S)
  PROVE  \/ TrimToLastCompaction(ms) = ms
         \/ \E i \in 1..Len(ms) : /\ ms[i].role = "assistant" /\ i = LastCompactionIndex(ms)
                                  /\ TrimToLastCompaction(ms) = <<Msg("user", <<Filler>>)>> \o SubSeq(ms, i, Len(ms))
<1> DEFINE I == {i \in 1..Len(ms) : ms[i].role = "assistant" /\ Has(ms[i], "compaction")}
<1>1. LastCompactionIndex(ms) = IF I # {} THEN Max(I) ELSE 0
  BY DEF LastCompactionIndex, SelectLastInSeq
<1>2. CASE I = {}
  BY <1>1, <1>2 DEF TrimToLastCompaction
<1>3. CASE I # {}
  <2>1. Len(ms) \in Nat /\ I \in SUBSET (0..Len(ms))
    OBVIOUS
  <2>2. Max(I) \in I
    <3> HIDE DEF I
    <3>1. QED BY <1>3, <2>1, MaxFacts
  <2>3. Max(I) \in 1..Len(ms) /\ ms[Max(I)].role = "assistant" /\ Max(I) # 0
    BY <2>2
  <2>4. TrimToLastCompaction(ms) = <<Msg("user", <<Filler>>)>> \o SubSeq(ms, Max(I), Len(ms))
    BY <1>1, <1>3, <2>3 DEF TrimToLastCompaction, TrimFrom
  <2>5. LastCompactionIndex(ms) = Max(I)
    BY <1>1, <1>3
  <2> HIDE DEF I
  <2>6. QED BY <2>3, <2>4, <2>5
<1>4. QED BY <1>2, <1>3

LEMMA TrimFramed ==
  ASSUME NEW Id, NEW S, StoredRows(Id, S), NEW rs \in Seq(S), Framed(rs)
  PROVE  TrimToLastCompaction(rs) \in Seq(S) /\ Framed(TrimToLastCompaction(rs))
<1>1. PICK t : t = TrimToLastCompaction(rs)
  OBVIOUS
<1>2. CASE t = rs
  BY <1>1, <1>2
<1>3. CASE \E i \in 1..Len(rs) : rs[i].role = "assistant" /\ t = <<Msg("user", <<Filler>>)>> \o SubSeq(rs, i, Len(rs))
  <2>1. PICK x : x = Msg("user", <<Filler>>)
    OBVIOUS
  <2>2. x \in S /\ Loose(x)
    BY <2>1, FillerMessage DEF StoredRows, Loose
  <2>3. PICK i \in 1..Len(rs) : rs[i].role = "assistant" /\ t = <<x>> \o SubSeq(rs, i, Len(rs))
    BY <1>3, <2>1
  <2>4. /\ t \in Seq(S) /\ Len(t) = Len(rs) - i + 2 /\ t[1] = x /\ Len(rs) \in Nat
        /\ \A k \in 2..(Len(rs) - i + 2) : i + k - 2 \in 1..Len(rs) /\ t[k] = rs[i + k - 2]
    <3>1. rs \in Seq(S) /\ x \in S
      BY <2>2
    <3>2. QED BY ONLY <2>3, <3>1, TrimElements
  <2>5. PICK n : n = Len(rs) /\ n \in Nat /\ i \in 1..n
    BY <2>4
  <2>6. n - i + 2 \in 2..(n - i + 2) /\ i + (n - i + 2) - 2 = n /\ n - i + 2 \in 2..(n + 1)
    BY <2>5, TrimIndices
  <2>7. t[n - i + 2] = rs[n]
    BY <2>4, <2>5, <2>6
  <2>8. t # <<>>
    <3>1. Len(t) # 0
      BY <2>4, <2>5, <2>6
    <3>2. QED BY <3>1
  <2>9. Framed(t)
    BY <2>2, <2>4, <2>5, <2>7, <2>8 DEF Framed
  <2>10. QED BY <1>1, <2>4, <2>9
<1>4. QED BY <1>1, <1>2, <1>3, TrimCases

-----------------------------------------------------------------------------
(* References and server results.                                           *)

\* Same role, same uses, same results.
Like(m, n) == m.role = n.role /\ UsesOf(m) = UsesOf(n) /\ ResultsOf(m) = ResultsOf(n)

\* What replaces a message whose references become files or stubs.
LEMMA Replaced ==
  ASSUME NEW Id, NEW m, IsRow(Id, m), NEW n \in Messages(Id), n.role = m.role, n.blocks # <<>>,
         \A b \in ToSet(n.blocks) : \/ b \in ToSet(m.blocks) /\ (~IsRef(b) \/ m.role # "user")
                                    \/ b.type \in {"file", "stub"} /\ \E c \in ToSet(m.blocks) : IsRef(c),
         \A b \in ToSet(m.blocks) : b \in ToSet(n.blocks) \/ IsRef(b),
         \E b \in ToSet(n.blocks) : b.type # "srvResult"
  PROVE  n \in Bare(Id) /\ Like(n, m)
<1>1. Shape(m)
  BY DEF IsRow
<1>2. UsesOf(n) = UsesOf(m) /\ ResultsOf(n) = ResultsOf(m)
  BY DEF UsesOf, ResultsOf, Ids, IsRef
<1>3. NoRefs(n)
  <2>1. m.role \in {"user", "assistant"}
    BY DEF IsRow
  <2>2. QED BY <1>1, <2>1 DEF NoRefs, IsRef, Shape
<1>4. ResultsOf(n) # {} => Only(n, "result")
  <2>1. ResultsOf(n) # {} => Only(m, "result")
    BY <1>1, <1>2 DEF Shape
  <2>2. QED BY <2>1 DEF Only, IsRef
<1>5. QED BY <1>1, <1>2, <1>3, <1>4 DEF Bare, IsRow, Messages, Shape, Like

LEMMA SequenceIs ==
  ASSUME NEW S, NEW n \in Nat, NEW f, DOMAIN f = 1..n, f = [i \in 1..n |-> f[i]], \A i \in 1..n : f[i] \in S
  PROVE  f \in Seq(S) /\ Len(f) = n
<1>1. f \in [1..n -> S]
  OBVIOUS
<1>2. QED BY <1>1

LEMMA Swapped ==
  ASSUME NEW Id, NEW m, IsRow(Id, m), NEW n, NEW bs, n = Msg(m.role, bs), DOMAIN bs = DOMAIN m.blocks, bs = [j \in DOMAIN m.blocks |-> bs[j]],
         \A j \in DOMAIN m.blocks :
           IF ~IsRef(m.blocks[j]) \/ m.role # "user" THEN bs[j] = m.blocks[j]
           ELSE bs[j] \in {Block("file", m.blocks[j].id), Block("stub", m.blocks[j].id)}
  PROVE  n \in Bare(Id) /\ Like(n, m)
<1>1. m.role \in {"user", "assistant"} /\ m.blocks \in Seq(Blocks(Id)) /\ m.blocks # <<>>
  BY DEF IsRow, Shape
<1>2. PICK k : k = Len(m.blocks) /\ k \in Nat /\ k # 0 /\ DOMAIN m.blocks = 1..k
  BY <1>1
<1>3. ASSUME NEW j \in 1..k PROVE bs[j] \in Blocks(Id)
  <2>1. m.blocks[j] \in Blocks(Id)
    BY <1>1, <1>2
  <2>2. m.blocks[j].id \in Id \cup {<<>>}
    BY <2>1 DEF Blocks
  <2>3. Block("file", m.blocks[j].id) \in Blocks(Id) /\ Block("stub", m.blocks[j].id) \in Blocks(Id)
    BY <2>2, BlockIs DEF BlockType
  <2>4. QED BY <1>2, <2>1, <2>3
<1>4. bs \in Seq(Blocks(Id)) /\ Len(bs) = k
  <2>1. DOMAIN bs = 1..k /\ bs = [j \in 1..k |-> bs[j]]
    BY <1>2
  <2> HIDE DEF Blocks
  <2>2. QED BY ONLY <1>2, <1>3, <2>1, SequenceIs
<1>5. n \in Messages(Id) /\ n.role = m.role /\ n.blocks = bs
  BY <1>1, <1>4, MsgIs
<1>6. n.blocks # <<>>
  BY <1>2, <1>4, <1>5
<1>7. \A i : Block("file", i).type = "file" /\ Block("stub", i).type = "stub"
  BY DEF Block
<1>8. ToSet(n.blocks) = {bs[j] : j \in 1..k} /\ ToSet(m.blocks) = {m.blocks[j] : j \in 1..k}
  BY <1>2, <1>5 DEF ToSet
<1>9. ASSUME NEW j \in 1..k
      PROVE  \/ bs[j] = m.blocks[j] /\ (~IsRef(m.blocks[j]) \/ m.role # "user")
             \/ bs[j].type \in {"file", "stub"} /\ IsRef(m.blocks[j])
  <2>1. CASE ~IsRef(m.blocks[j]) \/ m.role # "user"
    BY <1>2, <2>1
  <2>2. CASE ~(~IsRef(m.blocks[j]) \/ m.role # "user")
    <3>1. bs[j] \in {Block("file", m.blocks[j].id), Block("stub", m.blocks[j].id)}
      BY <1>2, <2>2
    <3>2. QED BY <1>7, <2>2, <3>1
  <2>3. QED BY <2>1, <2>2
<1>9a. ~NoRefs(m) => m.role = "user"
  BY <1>1 DEF IsRow, Shape
<1>10. \A b \in ToSet(n.blocks) : \/ b \in ToSet(m.blocks) /\ (~IsRef(b) \/ m.role # "user")
                                  \/ b.type \in {"file", "stub"} /\ \E c \in ToSet(m.blocks) : IsRef(c)
  BY <1>8, <1>9
<1>11. \A b \in ToSet(m.blocks) : b \in ToSet(n.blocks) \/ IsRef(b)
  BY <1>8, <1>9
<1>12. \E b \in ToSet(n.blocks) : b.type # "srvResult"
  <2>1. PICK j \in 1..k : m.blocks[j].type # "srvResult"
    BY <1>8 DEF IsRow
  <2>2. bs[j].type # "srvResult" /\ bs[j] \in ToSet(n.blocks)
    BY <1>8, <1>9, <2>1
  <2>3. QED BY <2>2
<1>13. QED BY <1>5, <1>6, <1>10, <1>11, <1>12, Replaced

\* A sequence made of another one, message by message.
Likes(ns, ms) == Len(ns) = Len(ms) /\ \A i \in 1..Len(ms) : Like(ns[i], ms[i])

LEMMA RehydrateBare ==
  ASSUME NEW Id, NEW S, StoredRows(Id, S), NEW ms \in Seq(S), NEW loadable, NEW ns, ns = RehydrateDataRoomRefs(ms, loadable)
  PROVE  ns \in Seq(Bare(Id)) /\ Likes(ns, ms)
<1>1. PICK k : k = Len(ms) /\ k \in Nat /\ DOMAIN ms = 1..k /\ \A i \in 1..k : IsRow(Id, ms[i])
  <2>1. \A i \in 1..Len(ms) : ms[i] \in S
    OBVIOUS
  <2>2. QED BY <2>1 DEF StoredRows
<1>2. PICK load : load = RefsToLoad(ms)
  OBVIOUS
<1>3. ns = [row \in 1..k |->
              Msg(ms[row].role,
                  [col \in DOMAIN ms[row].blocks |->
                     IF ~IsRef(ms[row].blocks[col]) \/ ms[row].role # "user" THEN ms[row].blocks[col]
                     ELSE IF <<row, col>> \in load /\ ms[row].blocks[col].id[1] \in loadable
                          THEN Block("file", ms[row].blocks[col].id)
                          ELSE Block("stub", ms[row].blocks[col].id)])]
  BY <1>1, <1>2 DEF RehydrateDataRoomRefs
<1>4. ASSUME NEW i \in 1..k PROVE ns[i] \in Bare(Id) /\ Like(ns[i], ms[i])
  <2>1. PICK bs : bs = [col \in DOMAIN ms[i].blocks |->
                     IF ~IsRef(ms[i].blocks[col]) \/ ms[i].role # "user" THEN ms[i].blocks[col]
                     ELSE IF <<i, col>> \in load /\ ms[i].blocks[col].id[1] \in loadable
                          THEN Block("file", ms[i].blocks[col].id)
                          ELSE Block("stub", ms[i].blocks[col].id)]
    OBVIOUS
  <2>2. ns[i] = Msg(ms[i].role, bs)
    BY <1>3, <2>1
  <2>3. DOMAIN bs = DOMAIN ms[i].blocks /\ bs = [col \in DOMAIN ms[i].blocks |-> bs[col]]
    BY <2>1
  <2>4. \A j \in DOMAIN ms[i].blocks :
          IF ~IsRef(ms[i].blocks[j]) \/ ms[i].role # "user" THEN bs[j] = ms[i].blocks[j]
          ELSE bs[j] \in {Block("file", ms[i].blocks[j].id), Block("stub", ms[i].blocks[j].id)}
    BY <2>1
  <2>5. IsRow(Id, ms[i])
    BY <1>1
  <2>6. PICK m, n : m = ms[i] /\ n = ns[i]
    OBVIOUS
  <2>7. n \in Bare(Id) /\ Like(n, m)
    <3> HIDE DEF Bare
    <3>1. QED BY <2>2, <2>3, <2>4, <2>5, <2>6, Swapped
  <2>8. QED BY <2>6, <2>7
<1>5. ns \in Seq(Bare(Id)) /\ Len(ns) = k
  <2>1. DOMAIN ns = 1..k /\ ns = [i \in 1..k |-> ns[i]]
    BY <1>3
  <2> HIDE DEF Bare
  <2>2. QED BY ONLY <1>1, <1>4, <2>1, SequenceIs
<1>6. QED BY <1>1, <1>4, <1>5 DEF Likes

LEMMA DropClean ==
  ASSUME NEW Id, NEW ms \in Seq(Bare(Id)), NEW ns, ns = DropOrphanServerToolResults(ms)
  PROVE  ns \in Seq(Clean(Id)) /\ Likes(ns, ms)
<1>1. PICK k : k = Len(ms) /\ k \in Nat /\ DOMAIN ms = 1..k /\ \A i \in 1..k : ms[i] \in Bare(Id)
  OBVIOUS
<1>2. DOMAIN ns = 1..k /\ ns = [i \in 1..k |-> ns[i]]
  BY <1>1 DEF DropOrphanServerToolResults
<1>3. ASSUME NEW i \in 1..k PROVE ns[i] \in Clean(Id) /\ Like(ns[i], ms[i])
  <2>1. PICK m : m = ms[i] /\ m \in Bare(Id)
    BY <1>1
  <2>2. PICK J : J = {j \in DOMAIN m.blocks : m.blocks[j].type = "srvResult" =>
                        \E q \in 1..(j - 1) : m.blocks[q] = Block("srvUse", m.blocks[j].id)}
    OBVIOUS
  <2>3. ns[i] = Msg(m.role, SelectAt(m.blocks, J))
    BY <1>1, <2>1, <2>2 DEF DropOrphanServerToolResults
  <2>4. m \in Messages(Id) /\ m.role \in {"user", "assistant"} /\ m.blocks \in Seq(Blocks(Id)) /\ m.blocks # <<>> /\ Shape(m) /\ NoRefs(m)
    BY <2>1 DEF Bare, IsRow, Shape
  <2>5. PICK bs : bs = SelectAt(m.blocks, J)
    OBVIOUS
  <2>6. bs \in Seq(Blocks(Id)) /\ ToSet(bs) = {m.blocks[j] : j \in J \cap DOMAIN m.blocks}
    BY <2>4, <2>5, SelectAtFacts
  <2>7. /\ \A b \in ToSet(bs) : b \in ToSet(m.blocks)
        /\ \A b \in ToSet(m.blocks) : b.type # "srvResult" => b \in ToSet(bs)
    BY <2>2, <2>6 DEF ToSet
  <2>8. bs # <<>>
    <3>1. \E b \in ToSet(m.blocks) : b.type # "srvResult"
      BY <2>1 DEF Bare, IsRow
    <3>2. ToSet(bs) # {}
      BY <2>7, <3>1
    <3>3. QED BY <2>6, <3>2, EmptyToSet
  <2>9. Served(bs)
    <3>1. ASSUME NEW j \in J \cap DOMAIN m.blocks, m.blocks[j].type = "srvResult"
          PROVE  \E q \in 1..(j - 1) : q \in J /\ m.blocks[q] = Block("srvUse", m.blocks[j].id)
      <4>1. PICK q \in 1..(j - 1) : m.blocks[q] = Block("srvUse", m.blocks[j].id)
        BY <2>2, <3>1
      <4>2. q \in DOMAIN m.blocks /\ m.blocks[q].type # "srvResult"
        BY <2>4, <3>1, <4>1 DEF Block
      <4>3. QED BY <2>2, <4>1, <4>2
    <3>2. QED BY <2>4, <2>5, <3>1, ServedSelection
  <2>10. ns[i] \in Messages(Id) /\ ns[i].role = m.role /\ ns[i].blocks = bs
    BY <2>3, <2>4, <2>5, <2>6, MsgIs
  <2>11. UsesOf(ns[i]) = UsesOf(m) /\ ResultsOf(ns[i]) = ResultsOf(m)
    BY <2>7, <2>10 DEF UsesOf, ResultsOf, Ids
  <2>12. NoRefs(ns[i]) /\ (Only(m, "result") => Only(ns[i], "result"))
    BY <2>4, <2>7, <2>10 DEF NoRefs, Only
  <2>13. ns[i] \in Clean(Id) /\ Like(ns[i], m)
    BY <2>4, <2>8, <2>9, <2>10, <2>11, <2>12 DEF Clean, Like, Shape
  <2>14. QED BY <2>1, <2>13
<1>4. ns \in Seq(Clean(Id)) /\ Len(ns) = k
  BY ONLY <1>1, <1>2, <1>3, SequenceIs
<1>5. QED BY <1>1, <1>3, <1>4 DEF Likes

LEMMA LikesFramed ==
  ASSUME NEW S, NEW T, NEW ms \in Seq(S), NEW ns \in Seq(T), Likes(ns, ms), Framed(ms) PROVE Framed(ns)
<1>1. Len(ms) \in Nat /\ Len(ms) # 0 /\ Len(ns) = Len(ms)
  BY DEF Likes, Framed
<1>2. 1 \in 1..Len(ms) /\ Len(ms) \in 1..Len(ms)
  BY <1>1
<1>3. ns # <<>>
  BY <1>1
<1>4. QED BY <1>1, <1>2, <1>3 DEF Likes, Like, Framed, Loose

-----------------------------------------------------------------------------
(* Tool pairs.                                                              *)

LEMMA KeptBlocks ==
  ASSUME NEW Id, NEW m \in Clean(Id), NEW answered, NEW asked, NEW kept, kept = Kept(m, answered, asked)
  PROVE  /\ kept \in Seq(Blocks(Id))
         /\ ToSet(kept) = {b \in ToSet(m.blocks) : /\ m.role = "assistant" /\ b.type = "use" => b.id \in answered
                                                   /\ m.role = "user" /\ b.type = "result" => b.id \in asked}
         /\ Served(kept)
<1>1. m.blocks \in Seq(Blocks(Id))
  BY DEF Clean, Messages
<1>2. PICK J : J = {j \in DOMAIN m.blocks :
                      /\ m.role = "assistant" /\ m.blocks[j].type = "use" => m.blocks[j].id \in answered
                      /\ m.role = "user" /\ m.blocks[j].type = "result" => m.blocks[j].id \in asked}
  OBVIOUS
<1>3. kept = SelectAt(m.blocks, J)
  BY <1>2 DEF Kept
<1>4. kept \in Seq(Blocks(Id)) /\ ToSet(kept) = {m.blocks[j] : j \in J \cap DOMAIN m.blocks}
  <2> HIDE DEF Blocks
  <2>1. QED BY <1>1, <1>3, SelectAtFacts
<1>5. Served(kept)
  <2>1. Served(m.blocks)
    BY DEF Clean
  <2>2. ASSUME NEW j \in J \cap DOMAIN m.blocks, m.blocks[j].type = "srvResult"
        PROVE  \E k \in 1..(j - 1) : k \in J /\ m.blocks[k] = Block("srvUse", m.blocks[j].id)
    <3>1. PICK k \in 1..(j - 1) : m.blocks[k] = Block("srvUse", m.blocks[j].id)
      BY <2>1, <2>2 DEF Served
    <3>2. k \in DOMAIN m.blocks /\ m.blocks[k].type = "srvUse"
      BY <1>1, <2>2, <3>1 DEF Block
    <3>3. QED BY <1>2, <3>1, <3>2
  <2>3. QED BY <1>1, <1>3, <2>2, ServedSelection
<1>6. QED BY <1>2, <1>4, <1>5 DEF ToSet

LEMMA KeptMessage ==
  ASSUME NEW Id, NEW m \in Clean(Id), NEW answered, NEW asked, NEW kept, kept = Kept(m, answered, asked)
  PROVE  /\ kept \in Seq(Blocks(Id))
         /\ kept = <<>> => UsesOf(m) \cap answered = {} /\ ~Loose(m)
         /\ kept = <<>> => ResultsOf(m) \cap asked = {}
         /\ kept # <<>> => LET n == Msg(m.role, kept) IN
              /\ n \in Clean(Id) /\ n.role = m.role
              /\ UsesOf(n) = UsesOf(m) \cap answered /\ ResultsOf(n) = ResultsOf(m) \cap asked
<1>1. /\ m \in Messages(Id) /\ m.role \in {"user", "assistant"} /\ m.blocks \in Seq(Blocks(Id))
      /\ m.blocks # <<>> /\ Shape(m) /\ NoRefs(m)
  BY DEF Clean, Messages, Shape
<1>2. kept \in Seq(Blocks(Id))
      /\ ToSet(kept) = {b \in ToSet(m.blocks) : /\ m.role = "assistant" /\ b.type = "use" => b.id \in answered
                                                /\ m.role = "user" /\ b.type = "result" => b.id \in asked}
      /\ Served(kept)
  BY KeptBlocks
<1>3. m.role = "assistant" => ResultsOf(m) = {}
  BY <1>1 DEF Shape
<1>4. m.role = "user" => UsesOf(m) = {}
  BY <1>1 DEF Shape
<1>5. {b.id : b \in {c \in ToSet(kept) : c.type = "use"}} = UsesOf(m) \cap answered
  <2>1. CASE m.role = "assistant"
    BY <1>2, <2>1 DEF UsesOf, Ids
  <2>2. CASE m.role = "user"
    BY <1>2, <1>4, <2>2 DEF UsesOf, Ids
  <2>3. QED BY <1>1, <2>1, <2>2
<1>6. {b.id : b \in {c \in ToSet(kept) : c.type = "result"}} = ResultsOf(m) \cap asked
  <2>1. CASE m.role = "assistant"
    BY <1>2, <1>3, <2>1 DEF ResultsOf, Ids
  <2>2. CASE m.role = "user"
    BY <1>2, <2>2 DEF ResultsOf, Ids
  <2>3. QED BY <1>1, <2>1, <2>2
<1>7. CASE kept = <<>>
  <2>1. ToSet(kept) = {}
    BY <1>7 DEF ToSet
  <2>2. UsesOf(m) \cap answered = {} /\ ResultsOf(m) \cap asked = {}
    BY <1>5, <1>6, <2>1
  <2>3. ToSet(m.blocks) # {}
    <3> HIDE DEF Blocks
    <3>1. QED BY <1>1, EmptyToSet
  <2>4. ~Loose(m)
    BY <1>2, <2>1, <2>3 DEF Loose, ResultsOf, Ids
  <2>5. QED BY <1>2, <1>7, <2>2, <2>4
<1>8. CASE kept # <<>>
  <2>1. PICK n : n = Msg(m.role, kept)
    OBVIOUS
  <2>2. n \in Messages(Id) /\ n.role = m.role /\ n.blocks = kept
    BY <1>1, <1>2, <2>1, MsgIs
  <2>3. UsesOf(n) = UsesOf(m) \cap answered /\ ResultsOf(n) = ResultsOf(m) \cap asked
    BY <1>5, <1>6, <2>2 DEF UsesOf, ResultsOf, Ids
  <2>4. NoRefs(n) /\ Served(n.blocks)
    BY <1>1, <1>2, <2>2 DEF NoRefs
  <2>5. ResultsOf(n) # {} => Only(n, "result")
    BY <1>1, <1>2, <2>2, <2>3 DEF Only, Shape
  <2>6. n \in Clean(Id)
    BY <1>3, <1>4, <1>8, <2>2, <2>3, <2>4, <2>5 DEF Clean, Shape
  <2>7. QED BY <1>2, <1>8, <2>1, <2>2, <2>3, <2>6
<1>9. QED BY <1>7, <1>8

\* The results in the message after the i-th.
Answered(ms, i) == IF i < Len(ms) THEN IdsIf(ms[i + 1], "user", "result") ELSE {}
AskedBy(out) == IF out = <<>> THEN {} ELSE IdsIf(Last(out), "assistant", "use")

LEMMA SanitizeCases ==
  ASSUME NEW Id, NEW ms \in Seq(Clean(Id)), NEW i \in 1..Len(ms), NEW out \in Seq(Clean(Id))
  PROVE  LET m == ms[i] IN
         \/ /\ SanitizeMessage(ms, out, i) = out
            /\ UsesOf(m) \cap Answered(ms, i) = {} /\ ResultsOf(m) \cap AskedBy(out) = {} /\ ~Loose(m)
         \/ \E n \in Clean(Id) : /\ SanitizeMessage(ms, out, i) = Append(out, n) /\ n.role = m.role
                             /\ UsesOf(n) = UsesOf(m) \cap Answered(ms, i) /\ ResultsOf(n) = ResultsOf(m) \cap AskedBy(out)
<1>1. PICK m, kept : m = ms[i] /\ kept = Kept(m, Answered(ms, i), AskedBy(out))
  OBVIOUS
<1>2. m \in Clean(Id) /\ m.blocks # <<>>
  <2>1. m \in Clean(Id)
    <3> HIDE DEF Clean
    <3>1. QED BY <1>1
  <2>2. QED BY <2>1 DEF Clean, Shape
<1>3. SanitizeMessage(ms, out, i) = IF kept = <<>> THEN out ELSE Append(out, Msg(m.role, kept))
  BY <1>1, <1>2 DEF SanitizeMessage, Answered, AskedBy
<1>4. /\ kept = <<>> => UsesOf(m) \cap Answered(ms, i) = {} /\ ~Loose(m)
      /\ kept = <<>> => ResultsOf(m) \cap AskedBy(out) = {}
      /\ kept # <<>> => LET n == Msg(m.role, kept) IN
           /\ n \in Clean(Id) /\ n.role = m.role
           /\ UsesOf(n) = UsesOf(m) \cap Answered(ms, i) /\ ResultsOf(n) = ResultsOf(m) \cap AskedBy(out)
  <2> HIDE DEF Clean
  <2>1. QED BY <1>1, <1>2, KeptMessage
<1>5. QED BY <1>1, <1>3, <1>4

\* Every use is answered by the next message, every result asked for by the last one.
Pairs(out) ==
  /\ \A k \in 1..(Len(out) - 1) : UsesOf(out[k]) = ResultsOf(out[k + 1])
  /\ out # <<>> => ResultsOf(out[1]) = {}

LEMMA Appended ==
  ASSUME NEW S, NEW s \in Seq(S), NEW n \in S
  PROVE  /\ Append(s, n) \in Seq(S) /\ Append(s, n) # <<>> /\ Len(s) \in Nat
         /\ Len(Append(s, n)) = Len(s) + 1 /\ Append(s, n)[Len(s) + 1] = n
         /\ \A k \in 1..Len(s) : Append(s, n)[k] = s[k] /\ s[k] \in S
         /\ s = <<>> <=> Len(s) = 0
  OBVIOUS

LEMMA PairsAppend ==
  ASSUME NEW Id, NEW out \in Seq(Clean(Id)), NEW n \in Clean(Id), Pairs(out),
         ResultsOf(n) = IF out = <<>> THEN {} ELSE UsesOf(out[Len(out)])
  PROVE  Pairs(Append(out, n))
<1>1. PICK S, t, q : S = Clean(Id) /\ t = Append(out, n) /\ q = Len(out)
  OBVIOUS
<1>2. /\ t # <<>> /\ q \in Nat /\ Len(t) = q + 1 /\ t[q + 1] = n
      /\ \A k \in 1..q : t[k] = out[k]
      /\ out = <<>> <=> q = 0
  <2>1. out \in Seq(S) /\ n \in S
    BY <1>1
  <2>2. QED BY ONLY <1>1, <2>1, Appended
<1>3. \A k \in 1..q : k = q \/ (k \in 1..(q - 1) /\ k + 1 \in 1..q)
  BY <1>2
<1>4. ASSUME NEW k \in 1..q PROVE UsesOf(t[k]) = ResultsOf(t[k + 1])
  <2>1. q # 0 /\ out # <<>>
    BY <1>2
  <2>2. QED BY <1>1, <1>2, <1>3, <2>1 DEF Pairs
<1>5. ResultsOf(t[1]) = {}
  <2>1. CASE q = 0
    BY <1>2, <2>1
  <2>2. CASE q # 0
    BY <1>2, <2>2 DEF Pairs
  <2>3. QED BY <2>1, <2>2
<1>6. Len(t) - 1 = q
  BY <1>2
<1>7. QED BY <1>1, <1>4, <1>5, <1>6 DEF Pairs

SanitizeInv(Id, ms, out, i) ==
  /\ out \in Seq(Clean(Id)) /\ Pairs(out)
  /\ i = 0 => out = <<>>
  /\ i # 0 => out # <<>> /\ out[1].role = "user" /\ (Loose(ms[i]) => Loose(out[Len(out)]))
  /\ out # <<>> => UsesOf(out[Len(out)]) \subseteq Answered(ms, i)

LEMMA CleanRoles ==
  ASSUME NEW Id, NEW m \in Clean(Id)
  PROVE  /\ m.role \in {"user", "assistant"} /\ m.blocks \in Seq(Blocks(Id)) /\ m.blocks # <<>>
         /\ m.role = "assistant" => ResultsOf(m) = {}
         /\ m.role = "user" => UsesOf(m) = {}
  BY DEF Clean, Messages, Shape

LEMMA SanitizeStep ==
  ASSUME NEW Id, NEW ms \in Seq(Clean(Id)), Framed(ms), NEW i \in 1..Len(ms), NEW out, SanitizeInv(Id, ms, out, i - 1)
  PROVE  SanitizeInv(Id, ms, SanitizeMessage(ms, out, i), i)
<1>1. PICK S, q : S = Clean(Id) /\ q = Len(out)
  OBVIOUS
<1>2. out \in Seq(S) /\ q \in Nat /\ (out = <<>> <=> q = 0) /\ \A k \in 1..q : out[k] \in S
  BY <1>1 DEF SanitizeInv
<1>3. PICK m : m = ms[i] /\ m \in S
  BY <1>1
<1>4. i # 0 /\ Len(ms) \in Nat /\ i \in Nat /\ (i = 1 <=> i - 1 = 0) /\ i - 1 < Len(ms) /\ (i - 1) + 1 = i
  OBVIOUS
<1>5. i = 1 => q = 0 /\ Loose(m)
  BY <1>2, <1>3, <1>4 DEF SanitizeInv, Framed
<1>6. i # 1 => q # 0 /\ out[1].role = "user"
  BY <1>2, <1>4 DEF SanitizeInv
<1>7. AskedBy(out) = IF q = 0 THEN {} ELSE UsesOf(out[q])
  <2>1. CASE q = 0
    BY <1>2, <2>1 DEF AskedBy
  <2>2. CASE q # 0
    <3>1. PICK l : l = out[q] /\ l \in Clean(Id)
      BY <1>1, <1>2, <2>2
    <3>2. AskedBy(out) = IF l.role = "assistant" THEN UsesOf(l) ELSE {}
      BY <1>1, <1>2, <2>2, <3>1 DEF AskedBy, IdsIf, Last, UsesOf
    <3>3. QED BY <2>2, <3>1, <3>2, CleanRoles
  <2>3. QED BY <2>1, <2>2
<1>8. q # 0 => UsesOf(out[q]) \subseteq ResultsOf(m) /\ (m.role = "assistant" => UsesOf(out[q]) = {})
  <2>1. q # 0 => UsesOf(out[q]) \subseteq Answered(ms, i - 1)
    BY <1>1, <1>2 DEF SanitizeInv
  <2>2. Answered(ms, i - 1) = IF m.role = "user" THEN ResultsOf(m) ELSE {}
    BY <1>3, <1>4 DEF Answered, IdsIf, ResultsOf
  <2>3. QED BY <2>1, <2>2
<1>9. \/ /\ SanitizeMessage(ms, out, i) = out
         /\ UsesOf(m) \cap Answered(ms, i) = {} /\ ResultsOf(m) \cap AskedBy(out) = {} /\ ~Loose(m)
      \/ \E n \in Clean(Id) : /\ SanitizeMessage(ms, out, i) = Append(out, n) /\ n.role = m.role
                          /\ UsesOf(n) = UsesOf(m) \cap Answered(ms, i) /\ ResultsOf(n) = ResultsOf(m) \cap AskedBy(out)
  <2>1. out \in Seq(Clean(Id))
    BY <1>1, <1>2
  <2>2. \/ /\ SanitizeMessage(ms, out, i) = out
           /\ UsesOf(ms[i]) \cap Answered(ms, i) = {} /\ ResultsOf(ms[i]) \cap AskedBy(out) = {} /\ ~Loose(ms[i])
        \/ \E n \in Clean(Id) : /\ SanitizeMessage(ms, out, i) = Append(out, n) /\ n.role = ms[i].role
                            /\ UsesOf(n) = UsesOf(ms[i]) \cap Answered(ms, i)
                            /\ ResultsOf(n) = ResultsOf(ms[i]) \cap AskedBy(out)
    <3> HIDE DEF Clean
    <3>1. QED BY ONLY <2>1, SanitizeCases, ms \in Seq(Clean(Id)), i \in 1..Len(ms)
  <2>3. QED BY <1>3, <2>2
<1>10. CASE SanitizeMessage(ms, out, i) = out /\ ResultsOf(m) \cap AskedBy(out) = {} /\ ~Loose(m)
  <2>1. i # 1 /\ q # 0
    BY <1>5, <1>6, <1>10
  <2>2. UsesOf(out[q]) = {}
    BY <1>7, <1>8, <1>10, <2>1
  <2>3. QED BY <1>1, <1>2, <1>3, <1>4, <1>6, <1>10, <2>1, <2>2 DEF SanitizeInv
<1>11. CASE \E n \in Clean(Id) : /\ SanitizeMessage(ms, out, i) = Append(out, n) /\ n.role = m.role
                             /\ UsesOf(n) = UsesOf(m) \cap Answered(ms, i) /\ ResultsOf(n) = ResultsOf(m) \cap AskedBy(out)
  <2>1. PICK n \in Clean(Id) : /\ SanitizeMessage(ms, out, i) = Append(out, n) /\ n.role = m.role
                           /\ UsesOf(n) = UsesOf(m) \cap Answered(ms, i) /\ ResultsOf(n) = ResultsOf(m) \cap AskedBy(out)
    BY <1>11
  <2>2. ResultsOf(n) = IF q = 0 THEN {} ELSE UsesOf(out[q])
    BY <1>7, <1>8, <2>1
  <2>3. PICK t : t = Append(out, n)
    OBVIOUS
  <2>4. t \in Seq(S) /\ t # <<>> /\ Len(t) = q + 1 /\ t[q + 1] = n /\ \A k \in 1..q : t[k] = out[k]
    <3>1. n \in S
      BY <1>1
    <3>2. QED BY ONLY <1>1, <1>2, <2>3, <3>1, Appended
  <2>5. Pairs(t)
    <3>1. Pairs(out) /\ out \in Seq(Clean(Id))
      BY DEF SanitizeInv
    <3>2. ResultsOf(n) = IF out = <<>> THEN {} ELSE UsesOf(out[Len(out)])
      BY <1>1, <1>2, <2>2
    <3> HIDE DEF Clean
    <3>3. QED BY <2>3, <3>1, <3>2, PairsAppend
  <2>6. t[1].role = "user"
    <3>1. CASE q = 0
      BY <1>5, <1>6, <2>1, <2>4, <3>1 DEF Loose
    <3>2. CASE q # 0
      <4>1. i # 1
        BY <1>5, <3>2
      <4>2. QED BY <1>2, <1>6, <2>4, <3>2, <4>1
    <3>3. QED BY <3>1, <3>2
  <2>7. Loose(m) => Loose(n)
    BY <2>1 DEF Loose
  <2>8. UsesOf(n) \subseteq Answered(ms, i)
    BY <2>1
  <2>9. QED BY <1>1, <1>3, <1>4, <2>1, <2>3, <2>4, <2>5, <2>6, <2>7, <2>8 DEF SanitizeInv
<1>12. QED BY <1>9, <1>10, <1>11

\* What the recursion of SanitizeToolPairs goes through.
Sanitizes(f, ms) ==
  /\ SanitizeToolPairs(ms) = f[Len(ms)] /\ f[0] = <<>>
  /\ \A i \in 1..Len(ms) : f[i] = SanitizeMessage(ms, f[i - 1], i)

LEMMA SanitizeType ==
  ASSUME NEW Id, NEW ms \in Seq(Clean(Id)), NEW i \in 1..Len(ms), NEW out \in Seq(Clean(Id))
  PROVE  SanitizeMessage(ms, out, i) \in Seq(Clean(Id))
<1>1. SanitizeMessage(ms, out, i) = out \/ \E n \in Clean(Id) : SanitizeMessage(ms, out, i) = Append(out, n)
  <2> HIDE DEF Clean
  <2>1. QED BY SanitizeCases
<1>2. QED
  <2> HIDE DEF Clean
  <2>1. QED BY <1>1

LEMMA SanitizeSteps == ASSUME NEW Id, NEW ms \in Seq(Clean(Id)) PROVE \E f : Sanitizes(f, ms)
<1>1. PICK n, A, a : n = Len(ms) /\ A = Seq(Clean(Id)) /\ a = <<>>
  OBVIOUS
<1> DEFINE Out(f) == [i \in 0..n |-> IF i = 0 THEN a ELSE SanitizeMessage(ms, f[i - 1], i)]
<1>2. PICK step : step = [p \in A \X (1..n) |-> SanitizeMessage(ms, p[1], p[2])]
  OBVIOUS
<1>3. n \in Nat /\ a \in A
  BY <1>1
<1>4. \A x \in A, i \in 1..n : step[<<x, i>>] = SanitizeMessage(ms, x, i)
  BY <1>2
<1>5. step \in Steps(n, A)
  <2>1. \A p \in A \X (1..n) : SanitizeMessage(ms, p[1], p[2]) \in A
    <3>1. \A p \in A \X (1..n) : p[1] \in Seq(Clean(Id)) /\ p[2] \in 1..Len(ms)
      BY <1>1
    <3> HIDE DEF Clean
    <3>2. QED BY <1>1, <3>1, SanitizeType
  <2>2. QED BY <1>2, <2>1 DEF Steps
<1>6. PICK f \in [0..n -> A] : Iterates(f, n, A, a, step)
  BY ONLY <1>3, <1>5, Iteration
<1>7. \A i \in 0..n : i # 0 => i \in 1..n /\ i - 1 \in 0..n
  BY <1>3
<1>8. ASSUME NEW i \in 0..n PROVE f[i] = IF i = 0 THEN a ELSE SanitizeMessage(ms, f[i - 1], i)
  <2>1. i # 0 => f[i - 1] \in A
    BY <1>7
  <2>2. QED BY <1>4, <1>6, <1>7, <2>1 DEF Iterates
<1>9. f = Out(f)
  BY <1>8
<1>10. PICK g : g = CHOOSE h : h = Out(h)
  OBVIOUS
<1>11. g = Out(g)
  <2> HIDE DEF Out
  <2>1. QED BY <1>9, <1>10
<1>12. SanitizeToolPairs(ms) = g[n]
  BY <1>1, <1>10 DEF SanitizeToolPairs
<1>13. g[0] = a /\ \A i \in 1..n : g[i] = SanitizeMessage(ms, g[i - 1], i)
  <2>1. 0 \in 0..n /\ \A i \in 1..n : i \in 0..n /\ i # 0
    BY <1>3
  <2>2. \A i \in 0..n : g[i] = IF i = 0 THEN a ELSE SanitizeMessage(ms, g[i - 1], i)
    BY <1>11
  <2>3. QED BY <2>1, <2>2
<1>14. QED BY <1>1, <1>12, <1>13 DEF Sanitizes

LEMMA SanitizeFramed ==
  ASSUME NEW Id, NEW ms \in Seq(Clean(Id)), Framed(ms), NEW out, out = SanitizeToolPairs(ms)
  PROVE  /\ out \in Seq(Clean(Id)) /\ Pairs(out) /\ out # <<>>
         /\ out[1].role = "user" /\ Loose(out[Len(out)])
<1>1. PICK f : Sanitizes(f, ms)
  <2> HIDE DEF Clean
  <2>1. QED BY SanitizeSteps
<1>2. PICK n : n = Len(ms) /\ n \in Nat /\ n # 0 /\ n \in 0..n
  BY DEF Framed
<1>3. out = f[n] /\ f[0] = <<>> /\ \A i \in 1..n : f[i] = SanitizeMessage(ms, f[i - 1], i)
  BY <1>1, <1>2 DEF Sanitizes
<1>4. PICK P : P = {i \in 0..n : SanitizeInv(Id, ms, f[i], i)}
  OBVIOUS
<1>5. 0 \in P
  <2>1. SanitizeInv(Id, ms, <<>>, 0)
    BY DEF SanitizeInv, Pairs
  <2>2. QED BY <1>2, <1>3, <1>4, <2>1
<1>6. ASSUME NEW i \in 1..n, i - 1 \in P PROVE i \in P
  <2>1. SanitizeInv(Id, ms, f[i - 1], i - 1)
    BY <1>4, <1>6
  <2>2. SanitizeInv(Id, ms, SanitizeMessage(ms, f[i - 1], i), i)
    <3>1. i \in 1..Len(ms)
      BY <1>2
    <3> HIDE DEF Clean
    <3>2. QED BY <2>1, <3>1, SanitizeStep
  <2>3. QED BY <1>3, <1>4, <2>2
<1>7. n \in P
  BY ONLY <1>2, <1>5, <1>6, Induction
<1>8. SanitizeInv(Id, ms, out, n)
  BY <1>3, <1>4, <1>7
<1>9. Loose(ms[n])
  BY <1>2 DEF Framed
<1>10. QED BY <1>2, <1>8, <1>9 DEF SanitizeInv

-----------------------------------------------------------------------------
(* Roles.                                                                   *)

Alternating(ms) == \A k \in 1..(Len(ms) - 1) : ms[k].role # ms[k + 1].role

\* What a conversation is before it becomes a request.
Good(Id, ms) ==
  /\ ms \in Seq(Clean(Id)) /\ Pairs(ms) /\ Alternating(ms)
  /\ ms # <<>> /\ ms[1].role = "user" /\ ms[Len(ms)].role = "user"

LEMMA GoodLikes ==
  ASSUME NEW Id, NEW ms, Good(Id, ms), NEW ns \in Seq(Clean(Id)), Likes(ns, ms) PROVE Good(Id, ns)
<1>1. ms \in Seq(Clean(Id)) /\ Pairs(ms) /\ Alternating(ms) /\ ms # <<>> /\ ms[1].role = "user" /\ ms[Len(ms)].role = "user"
  BY DEF Good
<1>2. PICK n : n = Len(ms) /\ n \in Nat /\ n # 0 /\ Len(ns) = n
  BY <1>1 DEF Likes
<1>3. \A i \in 1..n : ns[i].role = ms[i].role /\ UsesOf(ns[i]) = UsesOf(ms[i]) /\ ResultsOf(ns[i]) = ResultsOf(ms[i])
  BY <1>2 DEF Likes, Like
<1>4. 1 \in 1..n /\ n \in 1..n /\ \A i \in 1..(n - 1) : i \in 1..n /\ i + 1 \in 1..n
  BY <1>2
<1>5. ns # <<>>
  BY <1>2
<1>6. Pairs(ns) /\ Alternating(ns)
  BY <1>1, <1>2, <1>3, <1>4, <1>5 DEF Pairs, Alternating
<1>7. QED BY <1>1, <1>2, <1>3, <1>4, <1>5, <1>6 DEF Good

LEMMA ReplacedLast ==
  ASSUME NEW S, NEW s \in Seq(S), s # <<>>, NEW n \in S, NEW t, t = Append(Front(s), n)
  PROVE  /\ t \in Seq(S) /\ Len(t) = Len(s) /\ t # <<>> /\ Len(s) \in Nat /\ Len(s) # 0
         /\ t[Len(s)] = n /\ \A k \in 1..(Len(s) - 1) : t[k] = s[k]
<1>1. PICK q : q = Len(s) /\ q \in Nat /\ q # 0 /\ q - 1 \in Nat /\ (q - 1) + 1 = q
  OBVIOUS
<1>2. PICK u : u = SubSeq(s, 1, q - 1)
  OBVIOUS
<1>3. u \in Seq(S) /\ Len(u) = q - 1 /\ \A k \in 1..(q - 1) : u[k] = s[k]
  BY <1>1, <1>2
<1>4. t = Append(u, n)
  BY <1>1, <1>2 DEF Front
<1>5. /\ t \in Seq(S) /\ t # <<>> /\ Len(t) = Len(u) + 1 /\ t[Len(u) + 1] = n
      /\ \A k \in 1..Len(u) : t[k] = u[k]
  <2>1. u \in Seq(S)
    BY <1>3
  <2>2. QED BY ONLY <1>4, <2>1, n \in S, Appended
<1>6. QED BY <1>1, <1>3, <1>5

LEMMA PairsReplace ==
  ASSUME NEW S, NEW s \in Seq(S), s # <<>>, NEW n \in S, NEW t, t = Append(Front(s), n), Pairs(s),
         ResultsOf(n) = ResultsOf(s[Len(s)])
  PROVE  Pairs(t)
<1>1. PICK q : q = Len(s)
  OBVIOUS
<1>2. /\ Len(t) = q /\ q \in Nat /\ q # 0 /\ t[q] = n /\ \A k \in 1..(q - 1) : t[k] = s[k]
  <2>1. /\ Len(t) = Len(s) /\ Len(s) \in Nat /\ Len(s) # 0 /\ t[Len(s)] = n
        /\ \A k \in 1..(Len(s) - 1) : t[k] = s[k]
    BY ONLY ReplacedLast, s \in Seq(S), n \in S, s # <<>>, t = Append(Front(s), n)
  <2>2. QED BY ONLY <1>1, <2>1
<1>2a. t # <<>>
  BY <1>2
<1>3. ASSUME NEW k \in 1..(q - 1) PROVE UsesOf(t[k]) = ResultsOf(t[k + 1])
  <2>1. k + 1 = q \/ k + 1 \in 1..(q - 1)
    BY <1>2
  <2>2. UsesOf(s[k]) = ResultsOf(s[k + 1])
    BY <1>1 DEF Pairs
  <2>3. QED BY <1>1, <1>2, <2>1, <2>2
<1>4. ResultsOf(t[1]) = {}
  <2>1. q = 1 \/ 1 \in 1..(q - 1)
    BY <1>2
  <2>2. QED BY <1>1, <1>2, <2>1 DEF Pairs
<1>5. QED BY <1>2, <1>3, <1>4 DEF Pairs

LEMMA AlternatingReplace ==
  ASSUME NEW S, NEW s \in Seq(S), s # <<>>, NEW n \in S, NEW t, t = Append(Front(s), n), Alternating(s),
         n.role = s[Len(s)].role
  PROVE  Alternating(t) /\ t[1].role = s[1].role
<1>1. PICK q : q = Len(s)
  OBVIOUS
<1>2. /\ Len(t) = q /\ q \in Nat /\ q # 0 /\ t[q] = n /\ \A k \in 1..(q - 1) : t[k] = s[k]
  <2>1. /\ Len(t) = Len(s) /\ Len(s) \in Nat /\ Len(s) # 0 /\ t[Len(s)] = n
        /\ \A k \in 1..(Len(s) - 1) : t[k] = s[k]
    BY ONLY ReplacedLast, s \in Seq(S), n \in S, s # <<>>, t = Append(Front(s), n)
  <2>2. QED BY ONLY <1>1, <2>1
<1>3. ASSUME NEW k \in 1..(q - 1) PROVE t[k].role # t[k + 1].role
  <2>1. k + 1 = q \/ k + 1 \in 1..(q - 1)
    BY <1>2
  <2>2. s[k].role # s[k + 1].role
    BY <1>1 DEF Alternating
  <2>3. QED BY <1>1, <1>2, <2>1, <2>2
<1>4. q = 1 \/ 1 \in 1..(q - 1)
  BY <1>2
<1>5. QED BY <1>1, <1>2, <1>3, <1>4 DEF Alternating

LEMMA AlternatingAppend ==
  ASSUME NEW S, NEW s \in Seq(S), NEW n \in S, Alternating(s), s # <<>> => s[Len(s)].role # n.role
  PROVE  Alternating(Append(s, n)) /\ (s # <<>> => Append(s, n)[1].role = s[1].role)
<1>1. PICK t, q : t = Append(s, n) /\ q = Len(s)
  OBVIOUS
<1>2. /\ q \in Nat /\ Len(t) = q + 1 /\ t[q + 1] = n /\ \A k \in 1..q : t[k] = s[k]
      /\ (s = <<>> <=> q = 0)
  BY ONLY <1>1, Appended, s \in Seq(S), n \in S
<1>3. ASSUME NEW k \in 1..q PROVE t[k].role # t[k + 1].role
  <2>1. k = q \/ (k \in 1..(q - 1) /\ k + 1 \in 1..q)
    BY <1>2
  <2>2. q # 0
    BY <1>2
  <2>3. QED BY <1>1, <1>2, <2>1, <2>2 DEF Alternating
<1>4. Len(t) - 1 = q /\ (q # 0 => 1 \in 1..q)
  BY <1>2
<1>5. QED BY <1>1, <1>2, <1>3, <1>4 DEF Alternating

LEMMA Merged ==
  ASSUME NEW Id, NEW a \in Clean(Id), NEW m \in Clean(Id), a.role = m.role, UsesOf(a) = {}, ResultsOf(m) = {}, ~CannotMerge(a, m),
         NEW n, n = Msg(m.role, a.blocks \o m.blocks)
  PROVE  n \in Clean(Id) /\ n.role = m.role /\ UsesOf(n) = UsesOf(m) /\ ResultsOf(n) = ResultsOf(a)
<1>1. /\ m.role \in {"user", "assistant"} /\ a.blocks \in Seq(Blocks(Id)) /\ m.blocks \in Seq(Blocks(Id))
      /\ m.blocks # <<>> /\ a.blocks # <<>>
      /\ m.role = "assistant" => ResultsOf(a) = {}
      /\ m.role = "user" => UsesOf(m) = {}
  BY CleanRoles
<1>2. PICK bs : bs = a.blocks \o m.blocks
  OBVIOUS
<1>3. bs \in Seq(Blocks(Id)) /\ ToSet(bs) = ToSet(a.blocks) \cup ToSet(m.blocks)
  <2>1. bs \in Seq(Blocks(Id))
    BY <1>1, <1>2
  <2>2. QED BY <1>1, <1>2, <2>1, ToSetConcat
<1>4. n \in Messages(Id) /\ n.role = m.role /\ n.blocks = bs
  <2>1. n = Msg(m.role, bs)
    BY <1>2
  <2>2. QED BY <1>1, <1>3, <2>1, MsgIs
<1>5. ToSet(a.blocks) # {} /\ ToSet(m.blocks) # {}
  BY <1>1, EmptyToSet
<1>6. bs # <<>>
  <2>1. ToSet(bs) # {}
    BY <1>3, <1>5
  <2>2. QED BY <1>3, <2>1, EmptyToSet
<1>7. UsesOf(n) = UsesOf(a) \cup UsesOf(m) /\ ResultsOf(n) = ResultsOf(a) \cup ResultsOf(m)
  BY <1>3, <1>4 DEF UsesOf, ResultsOf, Ids
<1>8. NoRefs(n) /\ Served(n.blocks)
  BY <1>1, <1>2, <1>3, <1>4, ServedConcat DEF Clean, NoRefs
<1>9. ResultsOf(a) = {}
  <2>1. SUFFICES ASSUME ResultsOf(a) # {} PROVE FALSE
    OBVIOUS
  <2>2. a.role = "user" /\ Has(a, "result")
    BY <1>1, <2>1 DEF ResultsOf, Ids, Has
  <2>3. Only(m, "result")
    BY <2>2 DEF CannotMerge
  <2>4. \E b \in ToSet(m.blocks) : b.type = "result"
    BY <1>5, <2>3 DEF Only
  <2>5. QED BY <2>4 DEF ResultsOf, Ids
<1>10. n \in Clean(Id)
  BY <1>1, <1>4, <1>6, <1>7, <1>8, <1>9 DEF Clean, Shape
<1>11. QED BY <1>4, <1>7, <1>10

MergeInv(Id, ms, out, i) ==
  /\ out \in Seq(Clean(Id)) /\ Pairs(out) /\ Alternating(out)
  /\ i = 0 => out = <<>>
  /\ i # 0 => /\ out # <<>> /\ out[1].role = "user"
              /\ out[Len(out)].role = ms[i].role /\ UsesOf(out[Len(out)]) = UsesOf(ms[i])

\* A well-paired alternation, what may follow it, and what comes of it.
Threaded(Id, s)   == s \in Seq(Clean(Id)) /\ Pairs(s) /\ Alternating(s)
Follows(n, s) == /\ s # <<>> => s[Len(s)].role # n.role
                 /\ ResultsOf(n) = IF s = <<>> THEN {} ELSE UsesOf(s[Len(s)])
EndsWith(Id, t, s, n) ==
  /\ Threaded(Id, t) /\ t # <<>> /\ t[Len(t)] = n
  /\ s # <<>> => t[1].role = s[1].role
  /\ s = <<>> => t[1] = n

LEMMA FollowedBy ==
  ASSUME NEW Id, NEW s, Threaded(Id, s), NEW n \in Clean(Id), Follows(n, s)
  PROVE  EndsWith(Id, Append(s, n), s, n)
<1>1. s \in Seq(Clean(Id)) /\ Pairs(s) /\ Alternating(s)
  BY DEF Threaded
<1>2. Pairs(Append(s, n))
  BY <1>1, PairsAppend DEF Follows
<1>3. Alternating(Append(s, n)) /\ (s # <<>> => Append(s, n)[1].role = s[1].role)
  BY <1>1, AlternatingAppend DEF Follows
<1>4. /\ Append(s, n) \in Seq(Clean(Id)) /\ Append(s, n) # <<>> /\ Len(s) \in Nat
      /\ Len(Append(s, n)) = Len(s) + 1 /\ Append(s, n)[Len(s) + 1] = n
      /\ s = <<>> <=> Len(s) = 0
  <2> HIDE DEF Clean
  <2>1. QED BY <1>1, Appended
<1>5. QED BY <1>2, <1>3, <1>4 DEF EndsWith, Threaded

LEMMA ReplacedBy ==
  ASSUME NEW Id, NEW s, Threaded(Id, s), s # <<>>, NEW n \in Clean(Id),
         n.role = s[Len(s)].role, ResultsOf(n) = ResultsOf(s[Len(s)])
  PROVE  EndsWith(Id, Append(Front(s), n), s, n)
<1>1. PICK t, S : t = Append(Front(s), n) /\ S = Clean(Id)
  OBVIOUS
<1>2. s \in Seq(S)
  BY <1>1 DEF Threaded
<1>3. n \in S
  BY <1>1
<1>4. t = Append(Front(s), n)
  BY <1>1
<1>5. Pairs(s)
  BY DEF Threaded
<1>6. Alternating(s)
  BY DEF Threaded
<1>7. Pairs(t)
  BY ONLY <1>2, <1>3, <1>4, <1>5, s # <<>>, ResultsOf(n) = ResultsOf(s[Len(s)]), PairsReplace
<1>8. Alternating(t) /\ t[1].role = s[1].role
  BY ONLY <1>2, <1>3, <1>4, <1>6, s # <<>>, n.role = s[Len(s)].role, AlternatingReplace
<1>8a. PICK q : q = Len(s)
  OBVIOUS
<1>8b. Len(t) = q /\ q # 0 /\ t[q] = n
  BY ONLY <1>2, <1>3, <1>4, <1>8a, s # <<>>, ReplacedLast
<1>8c. t \in Seq(S)
  BY ONLY <1>2, <1>3, <1>4, s # <<>>, ReplacedLast
<1>9. t \in Seq(S) /\ Len(t) = Len(s) /\ Len(s) # 0 /\ t[Len(s)] = n
  BY <1>8a, <1>8b, <1>8c
<1>10. t # <<>>
  BY <1>9
<1>11. QED BY <1>1, <1>7, <1>8, <1>9, <1>10 DEF EndsWith, Threaded

LEMMA MergeStep ==
  ASSUME NEW Id, NEW ms \in Seq(Clean(Id)), Pairs(ms), ms[1].role = "user",
         NEW i \in 1..Len(ms), NEW out, MergeInv(Id, ms, out, i - 1)
  PROVE  MergeInv(Id, ms, MergeMessage(out, ms[i]), i)
<1>1. PICK m, t : m = ms[i] /\ t = MergeMessage(out, m)
  OBVIOUS
<1>2. m \in Clean(Id) /\ out \in Seq(Clean(Id)) /\ Pairs(out) /\ Alternating(out) /\ i # 0 /\ (i # 1 => i - 1 # 0)
  BY <1>1 DEF MergeInv
<1>3. PICK l : l = out[Len(out)]
  OBVIOUS
<1>4. i = 1 => out = <<>> /\ m.role = "user" /\ ResultsOf(m) = {}
  <2>1. i = 1 => out = <<>>
    BY DEF MergeInv
  <2>2. ms # <<>>
    OBVIOUS
  <2>3. QED BY <1>1, <2>1, <2>2 DEF Pairs
<1>5. i # 1 => /\ out # <<>> /\ out[1].role = "user" /\ l \in Clean(Id)
               /\ l.role = ms[i - 1].role /\ UsesOf(l) = ResultsOf(m)
  <2>1. i # 1 => /\ out # <<>> /\ out[1].role = "user"
                 /\ l.role = ms[i - 1].role /\ UsesOf(l) = UsesOf(ms[i - 1])
    BY <1>2, <1>3 DEF MergeInv
  <2>2. i # 1 => i - 1 \in 1..(Len(ms) - 1) /\ (i - 1) + 1 = i
    OBVIOUS
  <2>3. i # 1 => UsesOf(ms[i - 1]) = ResultsOf(m)
    BY <1>1, <2>2 DEF Pairs
  <2>4. i # 1 => l \in Clean(Id)
    BY <1>2, <1>3, <2>1
  <2>5. QED BY <2>1, <2>3, <2>4
<1>6. SUFFICES /\ t \in Seq(Clean(Id)) /\ Pairs(t) /\ Alternating(t) /\ t # <<>> /\ t[1].role = "user"
               /\ t[Len(t)].role = m.role /\ UsesOf(t[Len(t)]) = UsesOf(m)
  BY <1>1, <1>2, <1>6 DEF MergeInv
<1>6a. Threaded(Id, out)
  BY <1>2 DEF Threaded
<1>7. CASE out = <<>> \/ l.role # m.role
  <2>1. t = Append(out, m)
    BY <1>1, <1>3, <1>7 DEF MergeMessage, Last
  <2>2. out = <<>> <=> i = 1
    BY <1>4, <1>5
  <2>3. Follows(m, out)
    BY <1>3, <1>4, <1>5, <1>7, <2>2 DEF Follows
  <2>4. EndsWith(Id, t, out, m)
    BY <1>2, <1>6a, <2>1, <2>3, FollowedBy
  <2>5. QED BY <1>4, <1>5, <2>2, <2>4 DEF EndsWith, Threaded
<1>8. CASE out # <<>> /\ l.role = m.role
  <2>1. i # 1
    BY <1>4, <1>8
  <2>2. UsesOf(l) = {} /\ ResultsOf(m) = {} /\ m.role \in {"user", "assistant"}
    BY <1>2, <1>5, <1>8, <2>1, CleanRoles
  <2>3. CASE CannotMerge(l, m)
    <3>1. PICK x, s : x = Msg("assistant", <<Filler>>) /\ s = Append(out, x)
      OBVIOUS
    <3>2. x \in Clean(Id) /\ x.role = "assistant" /\ UsesOf(x) = {} /\ ResultsOf(x) = {}
      BY <3>1, FillerMessage
    <3>3. l.role = "user"
      BY <2>3 DEF CannotMerge
    <3>4. t = Append(s, m)
      <4>1. t = out \o <<x, m>>
        BY <1>1, <1>3, <1>8, <2>3, <3>1 DEF MergeMessage, Last
      <4>2. out \o <<x, m>> = Append(Append(out, x), m)
        <5> HIDE DEF Clean
        <5>1. QED BY <1>2, <3>2
      <4>3. QED BY <3>1, <4>1, <4>2
    <3>5. Follows(x, out)
      BY <1>3, <1>8, <2>2, <3>2, <3>3 DEF Follows
    <3>6. EndsWith(Id, s, out, x)
      BY <1>6a, <3>1, <3>2, <3>5, FollowedBy
    <3>7. Threaded(Id, s) /\ Follows(m, s)
      BY <1>8, <2>2, <3>2, <3>3, <3>6 DEF Follows, EndsWith
    <3>8. EndsWith(Id, t, s, m)
      BY <1>2, <3>4, <3>7, FollowedBy
    <3>9. s # <<>> /\ s[1].role = out[1].role
      BY <1>8, <3>6 DEF EndsWith
    <3>10. QED BY <1>5, <2>1, <3>8, <3>9 DEF EndsWith, Threaded
  <2>4. CASE ~CannotMerge(l, m)
    <3>1. PICK n : n = Msg(m.role, l.blocks \o m.blocks)
      OBVIOUS
    <3>2. n \in Clean(Id) /\ n.role = m.role /\ UsesOf(n) = UsesOf(m) /\ ResultsOf(n) = ResultsOf(l)
      BY <1>2, <1>5, <1>8, <2>1, <2>2, <2>4, <3>1, Merged
    <3>3. t = Append(Front(out), n)
      BY <1>1, <1>3, <1>8, <2>4, <3>1 DEF MergeMessage, Last
    <3>4. EndsWith(Id, t, out, n)
      BY <1>3, <1>6a, <1>8, <3>2, <3>3, ReplacedBy
    <3>5. QED BY <1>5, <1>8, <2>1, <3>2, <3>4 DEF EndsWith, Threaded
  <2>5. QED BY <2>3, <2>4
<1>9. QED BY <1>7, <1>8

\* What the recursion of MergeConsecutiveRoles goes through.
Merges(f, ms) ==
  /\ MergeConsecutiveRoles(ms) = f[Len(ms)] /\ f[0] = <<>>
  /\ \A i \in 1..Len(ms) : f[i] = MergeMessage(f[i - 1], ms[i])

LEMMA MergeType ==
  ASSUME NEW Id, NEW m \in Messages(Id), NEW out \in Seq(Messages(Id)) PROVE MergeMessage(out, m) \in Seq(Messages(Id))
<1>2. out \in Seq(Messages(Id)) /\ m \in Messages(Id)
  OBVIOUS
<1>3. Append(out, m) \in Seq(Messages(Id))
  BY <1>2
<1>4. Msg("assistant", <<Filler>>) \in Messages(Id)
  BY FillerMessage DEF Clean
<1>5. out \o <<Msg("assistant", <<Filler>>), m>> \in Seq(Messages(Id))
  BY <1>2, <1>4
<1>6. ASSUME out # <<>> PROVE Append(Front(out), Msg(m.role, Last(out).blocks \o m.blocks)) \in Seq(Messages(Id))
  <2>1. Last(out) \in Messages(Id)
    BY <1>2, <1>6 DEF Last
  <2>2. Last(out).blocks \o m.blocks \in Seq(Blocks(Id)) /\ m.role \in {"user", "assistant"}
    BY <1>2, <2>1 DEF Messages
  <2>3. Msg(m.role, Last(out).blocks \o m.blocks) \in Messages(Id)
    BY <2>2, MsgIs
  <2>4. QED BY <1>2, <1>6, <2>3 DEF Front
<1>7. QED BY <1>3, <1>5, <1>6 DEF MergeMessage

LEMMA MergeSteps == ASSUME NEW Id, NEW ms \in Seq(Clean(Id)) PROVE \E f : Merges(f, ms)
<1>1. PICK n, A, a : n = Len(ms) /\ A = Seq(Messages(Id)) /\ a = <<>>
  OBVIOUS
<1>1a. \A i \in 1..n : ms[i] \in Messages(Id)
  <2>1. \A i \in 1..n : ms[i] \in Clean(Id)
    BY <1>1
  <2>2. QED BY <2>1 DEF Clean
<1> DEFINE Out(f) == [i \in 0..n |-> IF i = 0 THEN a ELSE MergeMessage(f[i - 1], ms[i])]
<1>2. PICK step : step = [p \in A \X (1..n) |-> MergeMessage(p[1], ms[p[2]])]
  OBVIOUS
<1>3. n \in Nat /\ a \in A
  BY <1>1
<1>4. \A x \in A, i \in 1..n : step[<<x, i>>] = MergeMessage(x, ms[i])
  BY <1>2
<1>5. step \in Steps(n, A)
  <2>1. \A p \in A \X (1..n) : MergeMessage(p[1], ms[p[2]]) \in A
    <3>1. \A p \in A \X (1..n) : p[1] \in Seq(Messages(Id)) /\ ms[p[2]] \in Messages(Id)
      BY <1>1, <1>1a
    <3>2. QED BY <1>1, <3>1, MergeType
  <2>2. QED BY <1>2, <2>1 DEF Steps
<1>6. PICK f \in [0..n -> A] : Iterates(f, n, A, a, step)
  BY ONLY <1>3, <1>5, Iteration
<1>7. \A i \in 0..n : i # 0 => i \in 1..n /\ i - 1 \in 0..n
  BY <1>3
<1>8. ASSUME NEW i \in 0..n PROVE f[i] = IF i = 0 THEN a ELSE MergeMessage(f[i - 1], ms[i])
  <2>1. i # 0 => f[i - 1] \in A
    BY <1>7
  <2>2. QED BY <1>4, <1>6, <1>7, <2>1 DEF Iterates
<1>9. f = Out(f)
  BY <1>8
<1>10. PICK g : g = CHOOSE h : h = Out(h)
  OBVIOUS
<1>11. g = Out(g)
  <2> HIDE DEF Out
  <2>1. QED BY <1>9, <1>10
<1>12. MergeConsecutiveRoles(ms) = g[n]
  BY <1>1, <1>10 DEF MergeConsecutiveRoles
<1>13. g[0] = a /\ \A i \in 1..n : g[i] = MergeMessage(g[i - 1], ms[i])
  <2>1. 0 \in 0..n /\ \A i \in 1..n : i \in 0..n /\ i # 0
    BY <1>3
  <2>2. \A i \in 0..n : g[i] = IF i = 0 THEN a ELSE MergeMessage(g[i - 1], ms[i])
    BY <1>11
  <2>3. QED BY <2>1, <2>2
<1>14. QED BY <1>1, <1>12, <1>13 DEF Merges

LEMMA MergeGood ==
  ASSUME NEW Id, NEW ms \in Seq(Clean(Id)), Pairs(ms), ms # <<>>, ms[1].role = "user", ms[Len(ms)].role = "user"
  PROVE  Good(Id, MergeConsecutiveRoles(ms))
<1>1. PICK f, out : Merges(f, ms) /\ out = MergeConsecutiveRoles(ms)
  BY MergeSteps
<1>2. PICK n : n = Len(ms) /\ n \in Nat /\ n # 0 /\ n \in 0..n
  OBVIOUS
<1>3. out = f[n] /\ f[0] = <<>> /\ \A i \in 1..n : f[i] = MergeMessage(f[i - 1], ms[i])
  BY <1>1, <1>2 DEF Merges
<1>4. PICK P : P = {i \in 0..n : MergeInv(Id, ms, f[i], i)}
  OBVIOUS
<1>5. 0 \in P
  <2>1. MergeInv(Id, ms, <<>>, 0)
    BY DEF MergeInv, Pairs, Alternating
  <2>2. QED BY <1>2, <1>3, <1>4, <2>1
<1>6. ASSUME NEW i \in 1..n, i - 1 \in P PROVE i \in P
  <2>1. MergeInv(Id, ms, f[i - 1], i - 1)
    BY <1>4, <1>6
  <2>2. i \in 1..Len(ms)
    BY <1>2
  <2>3. MergeInv(Id, ms, MergeMessage(f[i - 1], ms[i]), i)
    BY <2>1, <2>2, MergeStep
  <2>4. QED BY <1>3, <1>4, <2>3
<1>7. n \in P
  BY ONLY <1>2, <1>5, <1>6, Induction
<1>8. MergeInv(Id, ms, out, n)
  BY <1>3, <1>4, <1>7
<1>9. QED BY <1>1, <1>2, <1>8 DEF MergeInv, Good

\* The first user message, which is the first message, gets the summary as well.
LEMMA SeedGood ==
  ASSUME NEW Id, NEW ms, Good(Id, ms)
  PROVE  /\ Good(Id, WithSeedSummary(ms)) /\ Likes(WithSeedSummary(ms), ms)
         /\ \A i \in 1..Len(ms) : WithSeedSummary(ms)[i].blocks \in {ms[i].blocks, <<Filler>> \o ms[i].blocks}
<1>1. CASE WithSeedSummary(ms) = ms
  BY <1>1 DEF Likes, Like
<1>2. CASE WithSeedSummary(ms) # ms
  <2>1. PICK n, m : n = Len(ms) /\ m = ms[1]
    OBVIOUS
  <2>2. ms \in Seq(Clean(Id)) /\ Pairs(ms) /\ ms # <<>> /\ m.role = "user"
    BY <2>1 DEF Good
  <2>3. n \in Nat /\ n # 0 /\ DOMAIN ms = 1..n /\ m \in Clean(Id) /\ 1 \in 1..n
    BY <2>1, <2>2
  <2>4. SelectInSeq(ms, LAMBDA x : x.role = "user") = 1
    <3> DEFINE J == {j \in 1..n : ms[j].role = "user"}
    <3>1. 1 \in J /\ J \in SUBSET Nat /\ \A j \in J : 1 <= j
      BY <2>1, <2>2, <2>3
    <3>2. Min(J) \in J /\ Min(J) <= 1
      <4> HIDE DEF J
      <4>1. QED BY <3>1, MinFacts
    <3>3. Min(J) = 1
      BY <3>1, <3>2
    <3>4. SelectInSeq(ms, LAMBDA x : x.role = "user") = IF J # {} THEN Min(J) ELSE 0
      BY <2>1 DEF SelectInSeq
    <3>5. QED BY <3>1, <3>3, <3>4
  <2>5. PICK ns, bs : ns = WithSeedSummary(ms) /\ bs = <<Filler>> \o m.blocks
    OBVIOUS
  <2>6. ns = [ms EXCEPT ![1].blocks = bs]
    BY <1>2, <2>1, <2>4, <2>5 DEF WithSeedSummary
  <2>7. m.blocks \in Seq(Blocks(Id)) /\ m.blocks # <<>> /\ UsesOf(m) = {} /\ ResultsOf(m) = {} /\ NoRefs(m) /\ Served(m.blocks)
    BY <2>1, <2>2, <2>3, CleanRoles DEF Pairs, Clean
  <2>8. Filler \in Blocks(Id) /\ Filler.type = "filler" /\ <<Filler>> \in Seq(Blocks(Id)) /\ ToSet(<<Filler>>) = {Filler}
    BY FillerBlock, SingleBlock
  <2>9. bs \in Seq(Blocks(Id)) /\ ToSet(bs) = {Filler} \cup ToSet(m.blocks) /\ Served(bs)
    <3>1. PICK f, T, bl : f = <<Filler>> /\ T = Blocks(Id) /\ bl = m.blocks
      OBVIOUS
    <3>2. f \in Seq(T) /\ bl \in Seq(T) /\ Served(f) /\ Served(bl) /\ bs = f \o bl /\ ToSet(f) = {Filler}
      BY <2>5, <2>7, <2>8, <3>1, ServedFiller
    <3>3. bs \in Seq(T)
      BY <3>2
    <3>4. ToSet(bs) = ToSet(f) \cup ToSet(bl)
      BY <3>2, ToSetConcat
    <3>5. Served(bs)
      BY <3>2, ServedConcat
    <3>6. QED BY <3>1, <3>2, <3>3, <3>4, <3>5
  <2>10. bs # <<>>
    BY <2>9, EmptyToSet
  <2>11. PICK x : x = Msg("user", bs)
    OBVIOUS
  <2>12. x \in Messages(Id) /\ x.role = "user" /\ x.blocks = bs
    BY <2>9, <2>11, MsgIs
  <2>13. UsesOf(x) = {} /\ ResultsOf(x) = {} /\ NoRefs(x)
    BY <2>7, <2>8, <2>9, <2>12 DEF UsesOf, ResultsOf, Ids, NoRefs, IsRef
  <2>14. x \in Clean(Id) /\ Like(x, m)
    BY <2>2, <2>7, <2>9, <2>10, <2>12, <2>13 DEF Clean, Shape, Like
  <2>15. ns[1] = x /\ DOMAIN ns = 1..n /\ \A i \in 1..n : i # 1 => ns[i] = ms[i]
    <3>1. m = [role |-> "user", blocks |-> m.blocks]
      BY <2>2, <2>3 DEF Clean, Messages
    <3>2. [m EXCEPT !.blocks = bs] = x
      BY <2>11, <3>1 DEF Msg
    <3>3. QED BY <2>1, <2>3, <2>6, <3>2
  <2>16. \A i \in 1..n : ns[i] \in Clean(Id) /\ Like(ns[i], ms[i])
    <3>1. \A i \in 1..n : ms[i] \in Clean(Id)
      BY <2>2, <2>3
    <3>2. QED BY <2>1, <2>14, <2>15, <3>1 DEF Like
  <2>17. ns \in Seq(Clean(Id)) /\ Len(ns) = n
    <3>1. ns = [i \in 1..n |-> ns[i]]
      BY <2>3, <2>6
    <3>2. QED BY ONLY <2>3, <2>15, <2>16, <3>1, SequenceIs
  <2>18. Likes(ns, ms)
    BY <2>1, <2>16, <2>17 DEF Likes
  <2>19. \A i \in 1..n : ns[i].blocks \in {ms[i].blocks, <<Filler>> \o ms[i].blocks}
    BY <2>1, <2>5, <2>12, <2>15
  <2>20. QED BY <2>1, <2>5, <2>17, <2>18, <2>19, GoodLikes
<1>3. QED BY <1>1, <1>2

\* What any rows between two prompts come to.
LEMMA HistoryGood ==
  ASSUME NEW Id, NEW S, StoredRows(Id, S), NEW rs \in Seq(S), Framed(rs), NEW loadable, NEW summed \in BOOLEAN
  PROVE  Good(Id, History(rs, loadable, summed))
<1>1. PICK a, b, c, d, e :
        /\ a = TrimToLastCompaction(rs) /\ b = RehydrateDataRoomRefs(a, loadable)
        /\ c = DropOrphanServerToolResults(b) /\ d = SanitizeToolPairs(c) /\ e = MergeConsecutiveRoles(d)
  OBVIOUS
<1>2. a \in Seq(S) /\ Framed(a)
  BY <1>1, TrimFramed
<1>3. b \in Seq(Bare(Id)) /\ Likes(b, a)
  BY <1>1, <1>2, RehydrateBare
<1>4. Framed(b)
  BY <1>2, <1>3, LikesFramed
<1>5. c \in Seq(Clean(Id)) /\ Likes(c, b)
  BY <1>1, <1>3, DropClean
<1>6. Framed(c)
  BY <1>3, <1>4, <1>5, LikesFramed
<1>7. /\ d \in Seq(Clean(Id)) /\ Pairs(d) /\ d # <<>> /\ d[1].role = "user" /\ Loose(d[Len(d)])
  BY <1>1, <1>5, <1>6, SanitizeFramed
<1>8. Good(Id, e)
  BY <1>1, <1>7, MergeGood DEF Loose
<1>9. History(rs, loadable, summed) = IF summed THEN WithSeedSummary(e) ELSE e
  BY <1>1 DEF History
<1>10. QED BY <1>8, <1>9, SeedGood

-----------------------------------------------------------------------------
(* A conversation in memory.                                                *)

LEMMA GoodExtend ==
  ASSUME NEW Id, NEW ms, Good(Id, ms), NEW a \in Clean(Id), NEW u \in Clean(Id), a.role = "assistant", u.role = "user",
         UsesOf(a) = ResultsOf(u)
  PROVE  Good(Id, Append(Append(ms, a), u))
<1>1. PICK s, t : s = Append(ms, a) /\ t = Append(s, u)
  OBVIOUS
<1>2. ms # <<>> /\ ms[1].role = "user" /\ ms[Len(ms)].role = "user" /\ Threaded(Id, ms)
  BY DEF Good, Threaded
<1>3. ms[Len(ms)] \in Clean(Id)
  BY <1>2 DEF Threaded
<1>4. UsesOf(ms[Len(ms)]) = {} /\ ResultsOf(a) = {}
  BY <1>2, <1>3, CleanRoles
<1>5. EndsWith(Id, s, ms, a)
  <2>1. Follows(a, ms)
    BY <1>2, <1>4 DEF Follows
  <2>2. QED BY <1>1, <1>2, <2>1, FollowedBy
<1>6. EndsWith(Id, t, s, u)
  <2>1. Threaded(Id, s) /\ Follows(u, s)
    BY <1>5 DEF EndsWith, Follows
  <2>2. QED BY <1>1, <2>1, FollowedBy
<1>7. QED BY <1>1, <1>2, <1>5, <1>6 DEF Good, EndsWith, Threaded

LEMMA GoodTrim == ASSUME NEW Id, NEW ms, Good(Id, ms) PROVE Good(Id, TrimToLastCompaction(ms))
<1>1. PICK t, S : t = TrimToLastCompaction(ms) /\ S = Clean(Id)
  OBVIOUS
<1>2. ms \in Seq(S) /\ Pairs(ms) /\ Alternating(ms) /\ ms[Len(ms)].role = "user"
  BY <1>1 DEF Good
<1>3. CASE t = ms
  BY <1>1, <1>3
<1>4. CASE \E i \in 1..Len(ms) : ms[i].role = "assistant" /\ t = <<Msg("user", <<Filler>>)>> \o SubSeq(ms, i, Len(ms))
  <2>1. PICK x : x = Msg("user", <<Filler>>)
    OBVIOUS
  <2>2. x \in S /\ x.role = "user" /\ UsesOf(x) = {} /\ ResultsOf(x) = {}
    BY <1>1, <2>1, FillerMessage
  <2>3. PICK i \in 1..Len(ms) : ms[i].role = "assistant" /\ t = <<x>> \o SubSeq(ms, i, Len(ms))
    BY <1>4, <2>1
  <2>4. ms \in Seq(S)
    BY <1>2
  <2>5. x \in S
    BY <2>2
  <2>6. t = <<x>> \o SubSeq(ms, i, Len(ms))
    BY <2>3
  <2>7. /\ t \in Seq(S) /\ Len(t) = Len(ms) - i + 2 /\ t[1] = x /\ Len(ms) \in Nat
        /\ \A k \in 2..(Len(ms) - i + 2) : i + k - 2 \in 1..Len(ms) /\ t[k] = ms[i + k - 2]
    BY ONLY <2>3, <2>4, <2>5, <2>6, TrimElements
  <2>8. PICK n : n = Len(ms) /\ n \in Nat /\ i \in 1..n
    BY <2>7
  <2>9. /\ 1 + (n - i + 1) = n - i + 2 /\ n - i + 2 \in 2..(n + 1) /\ n - i + 2 \in Nat
        /\ \A k \in 2..(n - i + 2) : i + k - 2 \in i..n
        /\ i + (n - i + 2) - 2 = n
    BY <2>8, TrimIndices
  <2>10. n - i + 2 \in 2..(n - i + 2) /\ 2 \in 2..(n - i + 2) /\ i + 2 - 2 = i /\ i \in 1..n
    BY <2>8, <2>9
  <2>11. t[n - i + 2] = ms[n] /\ t[2] = ms[i]
    BY <2>7, <2>8, <2>9, <2>10
  <2>12. ResultsOf(ms[i]) = {}
    <3>1. ms[i] \in Clean(Id)
      BY <1>1, <1>2, <2>3
    <3>2. QED BY <2>3, <3>1, CleanRoles
  <2>13. ASSUME NEW k \in 1..(n - i + 1) PROVE t[k].role # t[k + 1].role /\ UsesOf(t[k]) = ResultsOf(t[k + 1])
    <3>1. CASE k = 1
      <4>1. t[k] = x /\ t[k + 1] = ms[i]
        BY <2>7, <2>11, <3>1
      <4>2. QED BY <2>2, <2>3, <2>12, <4>1
    <3>2. CASE k # 1
      <4>1. k \in 2..(n - i + 2) /\ k + 1 \in 2..(n - i + 2) /\ i + (k + 1) - 2 = (i + k - 2) + 1 /\ i + k - 2 \in 1..(n - 1)
        BY <2>8, <3>2
      <4>2. t[k] = ms[i + k - 2] /\ t[k + 1] = ms[(i + k - 2) + 1]
        BY <2>7, <2>8, <4>1
      <4>3. PICK j \in 1..(n - 1) : j = i + k - 2
        BY <4>1
      <4>4. ms[j].role # ms[j + 1].role /\ UsesOf(ms[j]) = ResultsOf(ms[j + 1])
        BY <1>2, <2>8 DEF Pairs, Alternating
      <4>5. QED BY <4>2, <4>3, <4>4
    <3>3. QED BY <3>1, <3>2
  <2>14. Len(t) - 1 = n - i + 1 /\ t # <<>> /\ Len(t) = n - i + 2
    BY <2>7, <2>8
  <2>15. Pairs(t) /\ Alternating(t)
    BY <2>2, <2>7, <2>13, <2>14 DEF Pairs, Alternating
  <2>16. QED BY <1>1, <1>2, <2>2, <2>7, <2>8, <2>11, <2>14, <2>15 DEF Good
<1>5. QED BY <1>1, <1>2, <1>3, <1>4, TrimCases

LEMMA GoodWriteUp == ASSUME NEW Id, NEW ms, Good(Id, ms) PROVE Good(Id, WithWriteUpInstruction(ms))
<1>1. PICK q, l : q = Len(ms) /\ l = ms[q]
  OBVIOUS
<1>2. ms \in Seq(Clean(Id)) /\ ms # <<>> /\ ms[1].role = "user" /\ l.role = "user" /\ Last(ms) = l /\ Threaded(Id, ms)
  BY <1>1 DEF Good, Threaded, Last
<1>3. l \in Clean(Id)
  BY <1>1, <1>2
<1>4. CASE Has(l, "result")
  <2>1. PICK a, u : a = Msg("assistant", <<Filler>>) /\ u = Msg("user", <<Filler>>)
    OBVIOUS
  <2>2. /\ a \in Clean(Id) /\ a.role = "assistant" /\ UsesOf(a) = {}
        /\ u \in Clean(Id) /\ u.role = "user" /\ ResultsOf(u) = {}
    BY <2>1, FillerMessage
  <2>3. WithWriteUpInstruction(ms) = ms \o <<a, u>>
    BY <1>2, <1>4, <2>1 DEF WithWriteUpInstruction
  <2>4. ms \o <<a, u>> = Append(Append(ms, a), u)
    BY <1>2, <2>2
  <2>5. QED BY <2>2, <2>3, <2>4, GoodExtend
<1>5. CASE ~Has(l, "result")
  <2>1. PICK n : n = Msg("user", Append(l.blocks, Filler))
    OBVIOUS
  <2>2. WithWriteUpInstruction(ms) = Append(Front(ms), n)
    BY <1>2, <1>5, <2>1 DEF WithWriteUpInstruction
  <2>3. Filler \in Blocks(Id) /\ Filler.type = "filler"
    BY FillerBlock
  <2>4. PICK bs : bs = Append(l.blocks, Filler)
    OBVIOUS
  <2>5. l.blocks \in Seq(Blocks(Id)) /\ l.blocks # <<>> /\ UsesOf(l) = {} /\ Shape(l) /\ NoRefs(l)
    BY <1>2, <1>3, CleanRoles DEF Clean
  <2>6. bs \in Seq(Blocks(Id)) /\ bs # <<>> /\ ToSet(bs) = ToSet(l.blocks) \cup {Filler}
    BY <2>3, <2>4, <2>5, ToSetAppend
  <2>7. n \in Messages(Id) /\ n.role = "user" /\ n.blocks = bs
    BY <2>1, <2>4, <2>6, MsgIs
  <2>8. ResultsOf(l) = {}
    BY <1>5 DEF Has, ResultsOf, Ids
  <2>9. UsesOf(n) = {} /\ ResultsOf(n) = {} /\ NoRefs(n)
    BY <2>3, <2>5, <2>6, <2>7, <2>8 DEF UsesOf, ResultsOf, Ids, NoRefs, IsRef
  <2>9a. Served(n.blocks)
    BY <1>3, <2>3, <2>4, <2>5, <2>7, ServedAppend DEF Clean
  <2>10. n \in Clean(Id)
    BY <2>6, <2>7, <2>9, <2>9a DEF Clean, Shape
  <2>11. EndsWith(Id, Append(Front(ms), n), ms, n)
    BY <1>1, <1>2, <2>7, <2>8, <2>9, <2>10, ReplacedBy
  <2>12. QED BY <1>2, <2>2, <2>7, <2>11 DEF EndsWith, Good, Threaded
<1>6. QED BY <1>4, <1>5

\* Nothing in it that the model would not take.
Accepted(m) == \A b \in ToSet(m.blocks) : ~Compacts => b.type \notin {"compaction", "nullCompaction"}

\* ShapeMessages, message by message.
Shaped(m) ==
  LET kept  == SelectAt(m.blocks, {j \in DOMAIN m.blocks : m.blocks[j].type # "nullCompaction"})
      texts == [i \in DOMAIN kept |-> IF kept[i].type = "compaction" THEN Filler ELSE kept[i]]
  IN IF ~Has(m, "compaction") /\ ~Has(m, "nullCompaction") THEN m
     ELSE Msg(m.role, IF texts = <<>> THEN <<Filler>> ELSE texts)

LEMMA ShapedIs ==
  ASSUME NEW Id, NEW m \in Clean(Id)
  PROVE  Shaped(m) \in Clean(Id) /\ Like(Shaped(m), m) /\ ~Has(Shaped(m), "compaction") /\ ~Has(Shaped(m), "nullCompaction")
<1>1. /\ m.role \in {"user", "assistant"} /\ m.blocks \in Seq(Blocks(Id)) /\ m.blocks # <<>>
      /\ Shape(m) /\ NoRefs(m) /\ Served(m.blocks)
  BY CleanRoles DEF Clean
<1>2. CASE ~Has(m, "compaction") /\ ~Has(m, "nullCompaction")
  <2>1. Shaped(m) = m
    BY <1>2 DEF Shaped
  <2>2. QED BY <1>2, <2>1 DEF Like
<1>3. CASE Has(m, "compaction") \/ Has(m, "nullCompaction")
  <2>1. PICK J : J = {j \in DOMAIN m.blocks : m.blocks[j].type # "nullCompaction"}
    OBVIOUS
  <2>2. PICK kept : kept = SelectAt(m.blocks, J)
    OBVIOUS
  <2>3. PICK texts : texts = [i \in DOMAIN kept |-> IF kept[i].type = "compaction" THEN Filler ELSE kept[i]]
    OBVIOUS
  <2>4. kept \in Seq(Blocks(Id)) /\ ToSet(kept) = {b \in ToSet(m.blocks) : b.type # "nullCompaction"}
    <3>1. kept \in Seq(Blocks(Id)) /\ ToSet(kept) = {m.blocks[j] : j \in J \cap DOMAIN m.blocks}
      BY <1>1, <2>2, SelectAtFacts
    <3>2. QED BY <2>1, <3>1 DEF ToSet
  <2>5. Served(kept)
    <3>1. ASSUME NEW j \in J \cap DOMAIN m.blocks, m.blocks[j].type = "srvResult"
          PROVE  \E k \in 1..(j - 1) : k \in J /\ m.blocks[k] = Block("srvUse", m.blocks[j].id)
      <4>1. PICK k \in 1..(j - 1) : m.blocks[k] = Block("srvUse", m.blocks[j].id)
        BY <1>1, <3>1 DEF Served
      <4>2. k \in DOMAIN m.blocks /\ m.blocks[k].type = "srvUse"
        BY <1>1, <3>1, <4>1 DEF Block
      <4>3. QED BY <2>1, <4>1, <4>2
    <3>2. QED BY <1>1, <2>2, <3>1, ServedSelection
  <2>6. PICK k : k = Len(kept) /\ k \in Nat /\ DOMAIN kept = 1..k
    BY <2>4
  <2>7. Filler \in Blocks(Id) /\ Filler.type = "filler"
    BY FillerBlock
  <2>8. \A i \in 1..k : texts[i] = IF kept[i].type = "compaction" THEN Filler ELSE kept[i]
    BY <2>3, <2>6
  <2>9. texts \in Seq(Blocks(Id)) /\ Len(texts) = k
    <3>1. \A i \in 1..k : texts[i] \in Blocks(Id)
      BY <2>4, <2>6, <2>7, <2>8
    <3>2. DOMAIN texts = 1..k /\ texts = [i \in 1..k |-> texts[i]]
      BY <2>3, <2>6
    <3>3. QED BY ONLY <2>6, <3>1, <3>2, SequenceIs
  <2>10. Served(texts)
    <3>1. ASSUME NEW j \in 1..k, texts[j].type = "srvResult"
          PROVE  \E q \in 1..(j - 1) : texts[q] = Block("srvUse", texts[j].id)
      <4>1. texts[j] = kept[j]
        BY <2>7, <2>8, <3>1
      <4>2. PICK q \in 1..(j - 1) : kept[q] = Block("srvUse", kept[j].id)
        BY <2>5, <2>6, <3>1, <4>1 DEF Served
      <4>3. q \in 1..k /\ kept[q].type = "srvUse"
        BY <2>6, <4>2 DEF Block
      <4>4. texts[q] = kept[q]
        BY <2>8, <4>3
      <4>5. QED BY <4>1, <4>2, <4>4
    <3>2. DOMAIN texts = 1..k
      BY <2>9
    <3>3. QED BY <3>1, <3>2 DEF Served
  <2>11. ToSet(texts) = {texts[i] : i \in 1..k} /\ ToSet(kept) = {kept[i] : i \in 1..k}
    BY <2>4, <2>6, <2>9 DEF ToSet
  <2>12. PICK bs : bs = IF texts = <<>> THEN <<Filler>> ELSE texts
    OBVIOUS
  <2>13. bs \in Seq(Blocks(Id)) /\ bs # <<>> /\ Served(bs)
    BY <2>7, <2>9, <2>10, <2>12, ServedFiller
  <2>14. \A b \in ToSet(bs) : b.type # "compaction" /\ (b = Filler \/ b \in ToSet(kept))
    <3>1. CASE texts = <<>>
      <4>1. ToSet(bs) = {Filler}
        BY <2>12, <3>1 DEF ToSet
      <4>2. QED BY <2>7, <4>1
    <3>2. CASE texts # <<>>
      BY <2>7, <2>8, <2>11, <2>12, <3>2
    <3>3. QED BY <3>1, <3>2
  <2>15. \A b \in ToSet(kept) : b.type = "compaction" \/ b \in ToSet(bs)
    <3>1. CASE texts = <<>>
      <4>1. ToSet(kept) = {}
        BY <2>6, <2>9, <2>11, <3>1
      <4>2. QED BY <4>1
    <3>2. CASE texts # <<>>
      BY <2>8, <2>11, <2>12, <3>2
    <3>3. QED BY <3>1, <3>2
  <2>16. PICK n : n = Shaped(m)
    OBVIOUS
  <2>17. n \in Messages(Id) /\ n.role = m.role /\ n.blocks = bs
    <3>1. n = Msg(m.role, bs)
      BY <1>3, <2>1, <2>2, <2>3, <2>12, <2>16 DEF Shaped
    <3>2. QED BY <1>1, <2>13, <3>1, MsgIs
  <2>18. UsesOf(n) = UsesOf(m) /\ ResultsOf(n) = ResultsOf(m)
    BY <2>4, <2>7, <2>14, <2>15, <2>17 DEF UsesOf, ResultsOf, Ids
  <2>19. NoRefs(n) /\ ~Has(n, "compaction") /\ ~Has(n, "nullCompaction")
    BY <1>1, <2>4, <2>7, <2>14, <2>17 DEF NoRefs, Has, IsRef
  <2>20. ResultsOf(n) = {}
    BY <1>1, <1>3, <2>18 DEF Shape, Only, Has
  <2>21. n \in Clean(Id)
    BY <1>1, <2>13, <2>17, <2>18, <2>19, <2>20 DEF Clean, Shape
  <2>22. QED BY <2>16, <2>17, <2>18, <2>19, <2>21 DEF Like
<1>4. QED BY <1>2, <1>3

LEMMA GoodShaped ==
  ASSUME NEW Id, NEW ms, Good(Id, ms) PROVE Good(Id, ShapeMessages(ms)) /\ \A m \in ToSet(ShapeMessages(ms)) : Accepted(m)
<1>1. CASE Compacts
  <2>1. ShapeMessages(ms) = ms
    BY <1>1 DEF ShapeMessages
  <2>2. QED BY <1>1, <2>1 DEF Accepted
<1>2. CASE ~Compacts
  <2>1. PICK ns : ns = ShapeMessages(ms)
    OBVIOUS
  <2>2. ns = [i \in DOMAIN ms |-> Shaped(ms[i])]
    BY <1>2, <2>1 DEF ShapeMessages, Shaped
  <2>3. ms \in Seq(Clean(Id))
    BY DEF Good
  <2>4. PICK n : n = Len(ms) /\ n \in Nat /\ DOMAIN ms = 1..n
    BY <2>3
  <2>5. \A i \in 1..n : ns[i] \in Clean(Id) /\ Like(ns[i], ms[i]) /\ ~Has(ns[i], "compaction") /\ ~Has(ns[i], "nullCompaction")
    <3>1. \A i \in 1..n : ms[i] \in Clean(Id)
      BY <2>3, <2>4
    <3>2. QED BY <2>2, <2>4, <3>1, ShapedIs
  <2>6. ns \in Seq(Clean(Id)) /\ Len(ns) = n
    <3>1. DOMAIN ns = 1..n /\ ns = [i \in 1..n |-> ns[i]] /\ \A i \in 1..n : ns[i] \in Clean(Id)
      BY <2>2, <2>4, <2>5
    <3>2. QED BY ONLY <2>4, <3>1, SequenceIs
  <2>7. Likes(ns, ms)
    BY <2>4, <2>5, <2>6 DEF Likes
  <2>8. \A m \in ToSet(ns) : Accepted(m)
    <3>1. \A m \in ToSet(ns) : \E i \in 1..n : m = ns[i]
      BY <2>6 DEF ToSet
    <3>2. QED BY <2>5, <3>1 DEF Accepted, Has
  <2>9. QED BY <2>1, <2>6, <2>7, <2>8, GoodLikes
<1>3. QED BY <1>1, <1>2, ModelAssumption

LEMMA GoodAccepted ==
  ASSUME NEW Id, NEW ms, Good(Id, ms), \A m \in ToSet(ms) : Accepted(m) PROVE WellFormed(ms)
<1>1. ms \in Seq(Clean(Id)) /\ Pairs(ms) /\ Alternating(ms) /\ ms # <<>> /\ ms[1].role = "user" /\ ms[Len(ms)].role = "user"
  BY DEF Good
<1>2. PICK n : n = Len(ms) /\ n \in Nat /\ n # 0 /\ DOMAIN ms = 1..n
  BY <1>1
<1>3. \A i \in 1..n : ms[i] \in Clean(Id)
  BY <1>1, <1>2
<1>4. Alternates(ms)
  BY <1>1, <1>2 DEF Alternates, Alternating, Last
<1>5. ASSUME NEW i \in 1..n PROVE
        /\ Has(ms[i], "use") => i < n /\ Ids(ms[i], "use") = Ids(ms[i + 1], "result")
        /\ Has(ms[i], "result") => i > 1 /\ Ids(ms[i], "result") = Ids(ms[i - 1], "use") /\ Only(ms[i], "result")
  <2>1. PICK m : m = ms[i] /\ m \in Clean(Id)
    BY <1>3
  <2>2. Has(m, "use") => UsesOf(m) # {} /\ m.role # "user"
    <3>1. Has(m, "use") => UsesOf(m) # {}
      BY DEF Has, UsesOf, Ids
    <3>2. QED BY <2>1, <3>1, CleanRoles
  <2>3. Has(m, "use") => i \in 1..(n - 1) /\ i < n
    BY <1>1, <1>2, <2>1, <2>2
  <2>4. Has(m, "use") => UsesOf(m) = ResultsOf(ms[i + 1])
    BY <1>1, <1>2, <2>1, <2>3 DEF Pairs
  <2>5. Has(m, "result") => ResultsOf(m) # {}
    BY DEF Has, ResultsOf, Ids
  <2>6. Has(m, "result") => i > 1 /\ i - 1 \in 1..(n - 1) /\ (i - 1) + 1 = i
    <3>1. ResultsOf(ms[1]) = {}
      BY <1>1 DEF Pairs
    <3>2. Has(m, "result") => i # 1
      BY <2>1, <2>5, <3>1
    <3>3. i # 1 => i > 1 /\ i - 1 \in 1..(n - 1) /\ (i - 1) + 1 = i
      BY <1>2
    <3>4. QED BY <3>2, <3>3
  <2>7. Has(m, "result") => UsesOf(ms[i - 1]) = ResultsOf(m)
    BY <1>1, <1>2, <2>1, <2>6 DEF Pairs
  <2>8. Has(m, "result") => Only(m, "result")
    BY <2>1, <2>5 DEF Clean, Shape
  <2>9. QED BY <2>1, <2>3, <2>4, <2>6, <2>7, <2>8 DEF UsesOf, ResultsOf
<1>6. PairsMatch(ms)
  BY <1>2, <1>5 DEF PairsMatch
<1>7. ServerPairsMatch(ms)
  <2>1. \A i \in 1..n : Served(ms[i].blocks)
    BY <1>3 DEF Clean
  <2>2. QED BY <1>2, <2>1 DEF ServerPairsMatch, Served
<1>8. BlocksAccepted(ms)
  <2>1. \A m \in ToSet(ms) : m \in Clean(Id)
    BY <1>1, InToSet
  <2>2. \A m \in ToSet(ms) : NoRefs(m)
    BY <2>1 DEF Clean
  <2>3. QED BY <2>2 DEF BlocksAccepted, Accepted, NoRefs
<1>9. QED BY <1>4, <1>6, <1>7, <1>8 DEF WellFormed

LEMMA GoodRequest == ASSUME NEW Id, NEW ms, Good(Id, ms), NEW writeUp \in BOOLEAN PROVE WellFormed(Request(ms, writeUp))
<1>1. PICK u : u = IF writeUp THEN WithWriteUpInstruction(ms) ELSE ms
  OBVIOUS
<1>2. Good(Id, u)
  BY <1>1, GoodWriteUp
<1>3. QED BY <1>1, <1>2, GoodShaped, GoodAccepted DEF Request
(* The API accepts every request: whatever rows are stored between the      *)
(* first prompt and the last, in whatever order, whichever files can be     *)
(* read, with or without a summary of an earlier conversation, for a call   *)
(* of the loop and for a forced write-up (runTurn, shapeMessages).          *)
THEOREM EveryHistoryAccepted ==
  ASSUME NEW Id, NEW S, StoredRows(Id, S), NEW rs \in Seq(S), Framed(rs),
         NEW loadable, NEW summed \in BOOLEAN, NEW writeUp \in BOOLEAN
  PROVE  WellFormed(Request(History(rs, loadable, summed), writeUp))
  BY HistoryGood, GoodRequest

-----------------------------------------------------------------------------
(* Uses that the pipeline keeps.                                            *)

UsesIn(ms) == UNION {UsesOf(ms[j]) : j \in DOMAIN ms}

LEMMA UsesOfAppend ==
  ASSUME NEW S, NEW s \in Seq(S), NEW m \in S PROVE UsesIn(Append(s, m)) = UsesIn(s) \cup UsesOf(m)
<1>0. PICK n : n = Len(s) /\ n \in Nat
  OBVIOUS
<1>1. PICK t : t = Append(s, m)
  OBVIOUS
<1>2. DOMAIN s = 1..n /\ DOMAIN t = 1..(n + 1) /\ t[n + 1] = m /\ \A i \in 1..n : t[i] = s[i]
  BY <1>0, <1>1
<1>3. 1..(n + 1) = (1..n) \cup {n + 1}
  BY <1>0
<1>4. UsesIn(t) = UsesIn(s) \cup UsesOf(m)
  BY <1>2, <1>3 DEF UsesIn
<1>5. QED BY <1>1, <1>4

LEMMA UsesOfLikes == ASSUME NEW S, NEW T, NEW ms \in Seq(S), NEW ns \in Seq(T), Likes(ns, ms) PROVE UsesIn(ns) = UsesIn(ms)
  BY DEF Likes, Like, UsesIn

\* A round from the last compaction on is still there when the rows before it are cut off.
LEMMA TrimKeepsRound ==
  ASSUME NEW S, Msg("user", <<Filler>>) \in S, NEW ms \in Seq(S), NEW i \in 1..(Len(ms) - 1), i >= LastCompactionIndex(ms),
         NEW t, t = TrimToLastCompaction(ms)
  PROVE  \E k \in 1..(Len(t) - 1) : t[k] = ms[i] /\ t[k + 1] = ms[i + 1]
<1>1. CASE t = ms
  BY <1>1
<1>2. CASE \E c \in 1..Len(ms) : c = LastCompactionIndex(ms) /\ t = <<Msg("user", <<Filler>>)>> \o SubSeq(ms, c, Len(ms))
  <2>1. PICK x : x = Msg("user", <<Filler>>) /\ x \in S
    OBVIOUS
  <2>2. PICK c \in 1..Len(ms) : i >= c /\ t = <<x>> \o SubSeq(ms, c, Len(ms))
    BY <1>2, <2>1
  <2>3. /\ Len(t) = Len(ms) - c + 2 /\ Len(ms) \in Nat
        /\ \A k \in 2..(Len(ms) - c + 2) : c + k - 2 \in 1..Len(ms) /\ t[k] = ms[c + k - 2]
    <3>1. ms \in Seq(S) /\ x \in S
      BY <2>1
    <3>2. c \in 1..Len(ms) /\ t = <<x>> \o SubSeq(ms, c, Len(ms))
      BY <2>2
    <3>3. QED BY ONLY <3>1, <3>2, TrimElements
  <2>4. PICK n : n = Len(ms) /\ n \in Nat /\ c \in 1..n /\ i \in 1..(n - 1) /\ i >= c
    BY <2>2, <2>3
  <2>5. PICK k : k = i - c + 2
    OBVIOUS
  <2>6. /\ k \in 2..(n - c + 2) /\ k + 1 \in 2..(n - c + 2) /\ c + k - 2 = i /\ c + (k + 1) - 2 = i + 1
        /\ k \in 1..((n - c + 2) - 1)
    BY <2>4, <2>5
  <2>7. t[k] = ms[i] /\ t[k + 1] = ms[i + 1]
    BY <2>3, <2>4, <2>6
  <2>8. QED BY <2>3, <2>4, <2>6, <2>7
<1>3. QED BY <1>1, <1>2, TrimCases

\* A use that the next message answers is kept.
LEMMA SanitizeKeepsUse ==
  ASSUME NEW Id, NEW ms \in Seq(Clean(Id)), NEW k \in 1..(Len(ms) - 1),
         NEW id, id \in UsesOf(ms[k]), ms[k + 1].role = "user", id \in ResultsOf(ms[k + 1])
  PROVE  SanitizeToolPairs(ms) \in Seq(Clean(Id)) /\ id \in UsesIn(SanitizeToolPairs(ms))
<1>1. PICK f : Sanitizes(f, ms)
  <2> HIDE DEF Clean
  <2>1. QED BY SanitizeSteps
<1>2. PICK n : n = Len(ms) /\ n \in Nat /\ n \in 0..n /\ k \in 1..n /\ k < n
  OBVIOUS
<1>3. SanitizeToolPairs(ms) = f[n] /\ f[0] = <<>> /\ \A i \in 1..n : f[i] = SanitizeMessage(ms, f[i - 1], i)
  BY <1>1, <1>2 DEF Sanitizes
<1>4. PICK P : P = {i \in 0..n : f[i] \in Seq(Clean(Id)) /\ (i >= k => id \in UsesIn(f[i]))}
  OBVIOUS
<1>5. 0 \in P
  <2>1. \A T : <<>> \in Seq(T)
    OBVIOUS
  <2>2. 0 \in 0..n /\ ~(0 >= k)
    BY <1>2
  <2>3. QED BY <1>3, <1>4, <2>1, <2>2
<1>6. id \in Answered(ms, k)
  BY <1>2 DEF Answered, IdsIf, ResultsOf
<1>7. ASSUME NEW i \in 1..n, i - 1 \in P PROVE i \in P
  <2>1. PICK out : out = f[i - 1] /\ out \in Seq(Clean(Id)) /\ (i - 1 >= k => id \in UsesIn(out))
    BY <1>4, <1>7
  <2>2. PICK m, new : m = ms[i] /\ new = SanitizeMessage(ms, out, i) /\ new = f[i]
    BY <1>3, <2>1
  <2>3. \/ new = out /\ UsesOf(m) \cap Answered(ms, i) = {}
        \/ \E x \in Clean(Id) : new = Append(out, x) /\ UsesOf(x) = UsesOf(m) \cap Answered(ms, i)
    <3>1. i \in 1..Len(ms) /\ out \in Seq(Clean(Id))
      BY <1>2, <2>1
    <3> HIDE DEF Clean
    <3>2. \/ SanitizeMessage(ms, out, i) = out /\ UsesOf(ms[i]) \cap Answered(ms, i) = {}
          \/ \E x \in Clean(Id) : SanitizeMessage(ms, out, i) = Append(out, x)
                                    /\ UsesOf(x) = UsesOf(ms[i]) \cap Answered(ms, i)
      BY <3>1, SanitizeCases
    <3>3. QED BY <2>2, <3>2
  <2>4. CASE new = out /\ UsesOf(m) \cap Answered(ms, i) = {}
    <3>1. i # k
      BY <1>6, <2>2, <2>4
    <3>2. i >= k => i - 1 >= k
      BY <1>2, <3>1
    <3>3. i \in 0..n /\ f[i] = out /\ (i >= k => id \in UsesIn(out)) /\ out \in Seq(Clean(Id))
      BY <1>2, <2>1, <2>2, <2>4, <3>2
    <3>4. QED BY <1>4, <3>3
  <2>5. CASE \E x \in Clean(Id) : new = Append(out, x) /\ UsesOf(x) = UsesOf(m) \cap Answered(ms, i)
    <3>1. PICK x \in Clean(Id) : new = Append(out, x) /\ UsesOf(x) = UsesOf(m) \cap Answered(ms, i)
      BY <2>5
    <3>2. PICK S : S = Clean(Id)
      OBVIOUS
    <3>3. x \in S /\ out \in Seq(S)
      BY <2>1, <3>2
    <3>4. UsesIn(new) = UsesIn(out) \cup UsesOf(x)
      <4>1. UsesIn(Append(out, x)) = UsesIn(out) \cup UsesOf(x)
        BY ONLY <3>3, UsesOfAppend
      <4>2. QED BY <3>1, <4>1
    <3>5. new \in Seq(S)
      BY ONLY <3>1, <3>3
    <3>6. i >= k => i - 1 >= k \/ i = k
      BY <1>2
    <3>7. i = k => id \in UsesOf(x)
      BY <1>6, <2>2, <3>1
    <3>8. i >= k => id \in UsesIn(new)
      BY <2>1, <3>4, <3>6, <3>7
    <3>9. i \in 0..n /\ f[i] = new /\ new \in Seq(Clean(Id))
      BY <2>2, <3>2, <3>5
    <3>10. QED BY <1>4, <3>8, <3>9
  <2>6. QED BY <2>3, <2>4, <2>5
<1>8. n \in P
  BY ONLY <1>2, <1>5, <1>7, Induction
<1>9. QED BY <1>2, <1>3, <1>4, <1>8

\* Merging drops no use.
LEMMA MergeMessageUses ==
  ASSUME NEW Id, NEW m \in Messages(Id), NEW out \in Seq(Messages(Id))
  PROVE  UsesIn(out) \cup UsesOf(m) \subseteq UsesIn(MergeMessage(out, m))
<1>1. PICK S, f, new : S = Messages(Id) /\ f = Msg("assistant", <<Filler>>) /\ new = MergeMessage(out, m)
  OBVIOUS
<1>2. out \in Seq(S) /\ m \in S /\ f \in S
  BY <1>1, FillerMessage DEF Clean
<1>3. CASE new = Append(out, m)
  <2>1. UsesIn(Append(out, m)) = UsesIn(out) \cup UsesOf(m)
    BY ONLY <1>2, UsesOfAppend
  <2>2. QED BY <1>1, <1>3, <2>1
<1>4. CASE new = out \o <<f, m>>
  <2>1. PICK mid : mid = Append(out, f)
    OBVIOUS
  <2>2. mid \in Seq(S) /\ new = Append(mid, m)
    BY <1>2, <1>4, <2>1
  <2>3. UsesIn(Append(out, f)) = UsesIn(out) \cup UsesOf(f)
    BY ONLY <1>2, UsesOfAppend
  <2>4. UsesIn(Append(mid, m)) = UsesIn(mid) \cup UsesOf(m)
    BY ONLY <1>2, <2>2, UsesOfAppend
  <2>5. QED BY <1>1, <2>1, <2>2, <2>3, <2>4
<1>5. CASE out # <<>> /\ new = Append(Front(out), Msg(m.role, Last(out).blocks \o m.blocks))
  <2>1. PICK front, last, x : front = Front(out) /\ last = Last(out) /\ x = Msg(m.role, last.blocks \o m.blocks)
    OBVIOUS
  <2>2. front \in Seq(S) /\ last \in S /\ out = Append(front, last)
    <3>1. PICK n : n = Len(out) /\ n \in Nat /\ n # 0
      BY <1>2, <1>5
    <3>2. last = out[n] /\ front = SubSeq(out, 1, n - 1)
      BY <2>1, <3>1 DEF Last, Front
    <3>3. QED BY <1>2, <3>1, <3>2
  <2>3. last.blocks \in Seq(Blocks(Id)) /\ m.blocks \in Seq(Blocks(Id)) /\ m.role \in {"user", "assistant"}
    BY <1>1, <1>2, <2>2 DEF Messages
  <2>4. PICK bs : bs = last.blocks \o m.blocks
    OBVIOUS
  <2>5. bs \in Seq(Blocks(Id)) /\ ToSet(bs) = ToSet(last.blocks) \cup ToSet(m.blocks)
    <3>1. PICK T, u, v : T = Blocks(Id) /\ u = last.blocks /\ v = m.blocks
      OBVIOUS
    <3>2. u \in Seq(T) /\ v \in Seq(T) /\ bs = u \o v
      BY <2>3, <2>4, <3>1
    <3>3. bs \in Seq(T)
      BY <3>2
    <3>4. QED BY <3>1, <3>2, <3>3, ToSetConcat
  <2>6. x \in S /\ x.blocks = bs
    BY <1>1, <2>1, <2>3, <2>4, <2>5, MsgIs
  <2>7. UsesOf(x) = UsesOf(last) \cup UsesOf(m)
    BY <2>5, <2>6 DEF UsesOf, Ids
  <2>8. UsesIn(out) = UsesIn(front) \cup UsesOf(last)
    <3>1. UsesIn(Append(front, last)) = UsesIn(front) \cup UsesOf(last)
      BY ONLY <2>2, UsesOfAppend
    <3>2. QED BY <2>2, <3>1
  <2>9. UsesIn(new) = UsesIn(front) \cup UsesOf(x)
    <3>1. new = Append(front, x) /\ front \in Seq(S) /\ x \in S
      BY <1>5, <2>1, <2>2, <2>6
    <3>2. UsesIn(Append(front, x)) = UsesIn(front) \cup UsesOf(x)
      BY ONLY <3>1, UsesOfAppend
    <3>3. QED BY <3>1, <3>2
  <2>10. QED BY <1>1, <2>7, <2>8, <2>9
<1>6. QED BY <1>1, <1>3, <1>4, <1>5 DEF MergeMessage

LEMMA MergeKeepsUses ==
  ASSUME NEW Id, NEW ms \in Seq(Clean(Id)) PROVE UsesIn(ms) \subseteq UsesIn(MergeConsecutiveRoles(ms))
<1>1. PICK f : Merges(f, ms)
  BY MergeSteps
<1>2. PICK n : n = Len(ms) /\ n \in Nat /\ n \in 0..n /\ DOMAIN ms = 1..n
  OBVIOUS
<1>3. MergeConsecutiveRoles(ms) = f[n] /\ f[0] = <<>> /\ \A i \in 1..n : f[i] = MergeMessage(f[i - 1], ms[i])
  BY <1>1, <1>2 DEF Merges
<1>4. \A i \in 1..n : ms[i] \in Messages(Id)
  <2>1. \A i \in 1..n : ms[i] \in Clean(Id)
    BY <1>2
  <2>2. QED BY <2>1 DEF Clean
<1>5. PICK P : P = {i \in 0..n : f[i] \in Seq(Messages(Id)) /\ \A j \in 1..i : UsesOf(ms[j]) \subseteq UsesIn(f[i])}
  OBVIOUS
<1>6. 0 \in P
  <2>1. \A T : <<>> \in Seq(T)
    OBVIOUS
  <2>2. 0 \in 0..n /\ \A j \in 1..0 : FALSE
    BY <1>2
  <2>3. QED BY <1>3, <1>5, <2>1, <2>2
<1>7. ASSUME NEW i \in 1..n, i - 1 \in P PROVE i \in P
  <2>1. PICK out, m : out = f[i - 1] /\ m = ms[i]
    OBVIOUS
  <2>2. out \in Seq(Messages(Id)) /\ m \in Messages(Id) /\ f[i] = MergeMessage(out, m)
        /\ \A j \in 1..(i - 1) : UsesOf(ms[j]) \subseteq UsesIn(out)
    BY <1>3, <1>4, <1>5, <1>7, <2>1
  <2>3. f[i] \in Seq(Messages(Id)) /\ UsesIn(out) \cup UsesOf(m) \subseteq UsesIn(f[i])
    BY <2>2, MergeType, MergeMessageUses
  <2>4. \A j \in 1..i : j = i \/ j \in 1..(i - 1)
    OBVIOUS
  <2>5. QED BY <1>2, <1>5, <2>1, <2>2, <2>3, <2>4
<1>8. n \in P
  BY ONLY <1>2, <1>6, <1>7, Induction
<1>9. \A j \in 1..n : UsesOf(ms[j]) \subseteq UsesIn(f[n])
  BY <1>5, <1>8
<1>10. QED BY <1>2, <1>3, <1>9 DEF UsesIn

LEMMA HistoryKeepsUse ==
  ASSUME NEW Id, NEW S, StoredRows(Id, S), NEW rs \in Seq(S), Framed(rs), NEW loadable, NEW summed \in BOOLEAN,
         NEW i \in 1..(Len(rs) - 1), i >= LastCompactionIndex(rs), rs[i + 1].role = "user",
         NEW id, id \in UsesOf(rs[i]), id \in ResultsOf(rs[i + 1])
  PROVE  id \in UsesIn(History(rs, loadable, summed))
<1>1. PICK a, b, c, d, e :
        /\ a = TrimToLastCompaction(rs) /\ b = RehydrateDataRoomRefs(a, loadable)
        /\ c = DropOrphanServerToolResults(b) /\ d = SanitizeToolPairs(c) /\ e = MergeConsecutiveRoles(d)
  OBVIOUS
<1>2. a \in Seq(S) /\ Framed(a)
  BY <1>1, TrimFramed
<1>3. PICK k \in 1..(Len(a) - 1) : a[k] = rs[i] /\ a[k + 1] = rs[i + 1]
  BY <1>1, TrimKeepsRound DEF StoredRows
<1>4. b \in Seq(Bare(Id)) /\ Likes(b, a)
  BY <1>1, <1>2, RehydrateBare
<1>5. c \in Seq(Clean(Id)) /\ Likes(c, b)
  BY <1>1, <1>4, DropClean
<1>6. Framed(c)
  BY <1>2, <1>4, <1>5, LikesFramed
<1>7. /\ k \in 1..(Len(c) - 1) /\ id \in UsesOf(c[k]) /\ c[k + 1].role = "user" /\ id \in ResultsOf(c[k + 1])
  <2>1. Len(a) \in Nat /\ k \in 1..Len(a) /\ k + 1 \in 1..Len(a) /\ Len(b) = Len(a) /\ Len(c) = Len(a)
    BY <1>2, <1>4, <1>5 DEF Likes
  <2>2. Like(c[k], b[k]) /\ Like(b[k], a[k]) /\ Like(c[k + 1], b[k + 1]) /\ Like(b[k + 1], a[k + 1])
    BY <1>4, <1>5, <2>1 DEF Likes
  <2>3. QED BY <1>3, <2>1, <2>2 DEF Like
<1>8. id \in UsesIn(d)
  BY <1>1, <1>5, <1>7, SanitizeKeepsUse
<1>9. /\ d \in Seq(Clean(Id)) /\ Pairs(d) /\ d # <<>> /\ d[1].role = "user" /\ Loose(d[Len(d)])
  BY <1>1, <1>5, <1>6, SanitizeFramed
<1>10. id \in UsesIn(e) /\ Good(Id, e)
  BY <1>1, <1>8, <1>9, MergeKeepsUses, MergeGood DEF Loose
<1>11. History(rs, loadable, summed) = IF summed THEN WithSeedSummary(e) ELSE e
  BY <1>1 DEF History
<1>12. CASE summed
  <2>1. e \in Seq(Clean(Id)) /\ WithSeedSummary(e) \in Seq(Clean(Id)) /\ Likes(WithSeedSummary(e), e)
    BY <1>10, SeedGood DEF Good
  <2>2. UsesIn(WithSeedSummary(e)) = UsesIn(e)
    BY <2>1, UsesOfLikes
  <2>3. QED BY <1>10, <1>11, <1>12, <2>2
<1>13. QED BY <1>10, <1>11, <1>12

-----------------------------------------------------------------------------
(* Joining sequences.                                                       *)

LEMMA ConcatFacts ==
  ASSUME NEW S, NEW s \in Seq(S), NEW t \in Seq(S), NEW u \in Seq(S)
  PROVE  (s \o t) \o u = s \o (t \o u) /\ s \o t \in Seq(S) /\ s \o <<>> = s /\ <<>> \o s = s /\ <<>> \in Seq(S)
  OBVIOUS

LEMMA SameSequence ==
  ASSUME NEW S, NEW s \in Seq(S), NEW t \in Seq(S), Len(s) = Len(t), \A i \in 1..Len(s) : s[i] = t[i]
  PROVE  s = t
  BY SeqEqual

\* The values that the recursion of Joined goes through.
Joins(f, S, ss) ==
  /\ Joined(ss) = f[Len(ss)] /\ f[0] = <<>>
  /\ \A i \in 0..Len(ss) : f[i] \in Seq(S)
  /\ \A i \in 1..Len(ss) : f[i] = f[i - 1] \o ss[i]

LEMMA JoinedSteps ==
  ASSUME NEW S, NEW ss \in Seq(Seq(S)) PROVE \E f : Joins(f, S, ss)
<1>1. PICK n, A, a : n = Len(ss) /\ A = Seq(S) /\ a = <<>>
  OBVIOUS
<1> DEFINE Upto(f) == [i \in 0..n |-> IF i = 0 THEN a ELSE f[i - 1] \o ss[i]]
<1>2. PICK step : step = [p \in A \X (1..n) |-> p[1] \o ss[p[2]]]
  OBVIOUS
<1>3. n \in Nat /\ a \in A /\ \A i \in 1..n : ss[i] \in Seq(S)
  BY <1>1
<1>4. \A x \in A, i \in 1..n : step[<<x, i>>] = x \o ss[i]
  BY <1>2
<1>5. step \in Steps(n, A)
  <2>1. \A p \in A \X (1..n) : p[1] \o ss[p[2]] \in A
    <3>1. ASSUME NEW p \in A \X (1..n) PROVE p[1] \in Seq(S) /\ ss[p[2]] \in Seq(S)
      BY <1>1, <1>3
    <3>2. QED BY <1>1, <3>1
  <2>2. QED BY <1>2, <2>1 DEF Steps
<1>6. PICK f \in [0..n -> A] : Iterates(f, n, A, a, step)
  BY ONLY <1>3, <1>5, Iteration
<1>7. \A i \in 0..n : i # 0 => i \in 1..n /\ i - 1 \in 0..n
  BY <1>3
<1>8. ASSUME NEW i \in 0..n PROVE f[i] = IF i = 0 THEN a ELSE f[i - 1] \o ss[i]
  <2>1. i # 0 => f[i - 1] \in A
    BY <1>7
  <2>2. QED BY <1>4, <1>6, <1>7, <2>1 DEF Iterates
<1>9. f = Upto(f)
  BY <1>8
<1>10. PICK g : g = CHOOSE h : h = Upto(h)
  OBVIOUS
<1>11. g = Upto(g)
  <2> HIDE DEF Upto
  <2>1. QED BY <1>9, <1>10
<1>12. Joined(ss) = g[n]
  BY <1>1, <1>10 DEF Joined
<1>13. g[0] = a /\ \A i \in 1..n : g[i] = g[i - 1] \o ss[i]
  <2>1. 0 \in 0..n /\ \A i \in 1..n : i \in 0..n /\ i # 0
    BY <1>3
  <2>2. \A i \in 0..n : g[i] = IF i = 0 THEN a ELSE g[i - 1] \o ss[i]
    BY <1>11
  <2>3. QED BY <2>1, <2>2
<1>14. \A i \in 0..n : g[i] \in A
  <2>1. Iterates(g, n, A, a, step)
    BY <1>4, <1>13 DEF Iterates
  <2>2. QED BY ONLY <1>3, <1>5, <2>1, IterationType
<1>15. QED BY <1>1, <1>12, <1>13, <1>14 DEF Joins

LEMMA JoinedType ==
  ASSUME NEW S, NEW ss \in Seq(Seq(S)) PROVE Joined(ss) \in Seq(S) /\ Joined(<<>>) = <<>>
<1>1. ASSUME NEW tt \in Seq(Seq(S)) PROVE \E f : Joined(tt) = f[Len(tt)] /\ f[Len(tt)] \in Seq(S) /\ f[0] = <<>>
  <2>1. PICK f : Joins(f, S, tt)
    BY JoinedSteps
  <2>2. Len(tt) \in 0..Len(tt)
    OBVIOUS
  <2>3. QED BY <2>1, <2>2 DEF Joins
<1>2. Joined(ss) \in Seq(S)
  BY <1>1
<1>3. PICK e : e = <<>>
  OBVIOUS
<1>4. e \in Seq(Seq(S)) /\ Len(e) = 0
  BY <1>3
<1>5. QED BY <1>1, <1>2, <1>3, <1>4

\* Two joins go the same way as long as their sequences are the same.
LEMMA SameJoin ==
  ASSUME NEW S, NEW ss, NEW tt, NEW f, NEW g, Joins(f, S, ss), Joins(g, S, tt), NEW n \in Nat,
         n <= Len(ss), n <= Len(tt), Len(ss) \in Nat, Len(tt) \in Nat, \A i \in 1..n : ss[i] = tt[i]
  PROVE  f[n] = g[n]
<1>1. PICK P : P = {i \in 0..n : f[i] = g[i]}
  OBVIOUS
<1>2. 0 \in P
  BY <1>1 DEF Joins
<1>3. ASSUME NEW i \in 1..n, i - 1 \in P PROVE i \in P
  <2>1. i \in 1..Len(ss) /\ i \in 1..Len(tt) /\ i \in 0..n
    OBVIOUS
  <2>2. f[i] = f[i - 1] \o ss[i] /\ g[i] = g[i - 1] \o tt[i]
    BY <2>1 DEF Joins
  <2>3. QED BY <1>1, <1>3, <2>1, <2>2
<1>4. n \in P
  BY ONLY <1>2, <1>3, n \in Nat, n \in 0..n, Induction
<1>5. QED BY <1>1, <1>4

LEMMA JoinedConcat ==
  ASSUME NEW S, NEW ss \in Seq(Seq(S)), NEW tt \in Seq(Seq(S)) PROVE Joined(ss \o tt) = Joined(ss) \o Joined(tt)
<1>1. PICK uu : uu = ss \o tt
  OBVIOUS
<1> DEFINE n == Len(ss)  m == Len(tt)
<1>2. n \in Nat /\ m \in Nat /\ n = Len(ss) /\ m = Len(tt)
  OBVIOUS
<1> HIDE DEF n, m
<1>3. uu \in Seq(Seq(S)) /\ Len(uu) = n + m /\ \A k \in 1..(n + m) : uu[k] = IF k <= n THEN ss[k] ELSE tt[k - n]
  BY ONLY <1>1, <1>2, ss \in Seq(Seq(S)), tt \in Seq(Seq(S)), Concat
<1>4. PICK f : Joins(f, S, ss)
  BY JoinedSteps
<1>5. PICK g : Joins(g, S, tt)
  BY JoinedSteps
<1>6. PICK h : Joins(h, S, uu)
  BY <1>3, JoinedSteps
<1>7. f[n] \in Seq(S) /\ Joined(ss) = f[n] /\ Joined(tt) = g[m] /\ Joined(uu) = h[n + m]
  BY <1>2, <1>3, <1>4, <1>5, <1>6 DEF Joins
<1>8. h[n] = f[n]
  <2>1. n <= Len(uu) /\ n <= Len(ss) /\ Len(uu) \in Nat /\ Len(ss) \in Nat
    BY <1>2, <1>3
  <2>2. \A i \in 1..n : uu[i] = ss[i]
    BY <1>2, <1>3
  <2>3. n \in Nat
    BY <1>2
  <2>4. QED BY ONLY <1>4, <1>6, <2>1, <2>2, <2>3, SameJoin
<1>9. PICK P : P = {i \in 0..m : h[n + i] = f[n] \o g[i]}
  OBVIOUS
<1>10. 0 \in P
  <2>1. g[0] = <<>> /\ n + 0 = n /\ 0 \in 0..m
    BY <1>2, <1>5 DEF Joins
  <2>2. f[n] \o <<>> = f[n]
    BY <1>7
  <2>3. QED BY <1>8, <1>9, <2>1, <2>2
<1>11. ASSUME NEW i \in 1..m, i - 1 \in P PROVE i \in P
  <2>1. h[n + (i - 1)] = f[n] \o g[i - 1] /\ i \in 0..m /\ i - 1 \in 0..m
    <3>1. \A k \in P : h[n + k] = f[n] \o g[k]
      BY <1>9
    <3>2. i \in 0..m /\ i - 1 \in 0..m
      BY <1>2
    <3>3. QED BY <1>11, <3>1, <3>2
  <2>2. n + i \in 1..(n + m) /\ ~(n + i <= n) /\ (n + i) - n = i /\ (n + i) - 1 = n + (i - 1)
    BY <1>2
  <2>3. h[n + i] = h[n + (i - 1)] \o tt[i]
    BY <1>3, <1>6, <2>2 DEF Joins
  <2>4. g[i] = g[i - 1] \o tt[i] /\ g[i - 1] \in Seq(S)
    BY <1>2, <1>5, <2>1 DEF Joins
  <2>5. tt[i] \in Seq(S)
    BY <1>2
  <2>6. (f[n] \o g[i - 1]) \o tt[i] = f[n] \o (g[i - 1] \o tt[i])
    <3>1. f[n] \in Seq(S) /\ g[i - 1] \in Seq(S) /\ tt[i] \in Seq(S)
      BY <1>7, <2>4, <2>5
    <3>2. PICK x, y, z : x = f[n] /\ y = g[i - 1] /\ z = tt[i]
      OBVIOUS
    <3>3. x \in Seq(S) /\ y \in Seq(S) /\ z \in Seq(S)
      BY ONLY <3>1, <3>2
    <3>4. (x \o y) \o z = x \o (y \o z)
      BY ONLY <3>3, SMTT(20)
    <3>5. QED BY ONLY <3>2, <3>4
  <2>7. QED BY <1>9, <2>1, <2>3, <2>4, <2>6
<1>12. m \in P
  BY ONLY <1>2, <1>10, <1>11, m \in 0..m, Induction
<1>13. QED BY <1>1, <1>7, <1>9, <1>12

\* The sequences that the elements of s have, one after the other.
Maps(F, A, X) == F \in [A -> Seq(X)]
Images(F, s)  == [i \in DOMAIN s |-> F[s[i]]]
Through(F, s) == Joined(Images(F, s))

Imaged(h, F, X, s) == /\ h \in Seq(Seq(X)) /\ Len(h) = Len(s) /\ Len(s) \in Nat
                      /\ \A i \in 1..Len(s) : h[i] = F[s[i]]

LEMMA ImagesFacts ==
  ASSUME NEW A, NEW X, NEW F \in [A -> Seq(X)], NEW s \in Seq(A)
  PROVE  Imaged(Images(F, s), F, X, s)
<1>1. PICK T, h : T = Seq(X) /\ h = Images(F, s)
  OBVIOUS
<1> DEFINE n == Len(s)
<1>2. n \in Nat /\ DOMAIN s = 1..n /\ \A i \in 1..n : s[i] \in A
  OBVIOUS
<1> HIDE DEF n
<1>3. DOMAIN h = 1..n /\ h = [i \in 1..n |-> h[i]] /\ \A i \in 1..n : h[i] = F[s[i]]
  BY <1>1, <1>2 DEF Images
<1>4. \A i \in 1..n : h[i] \in T
  BY <1>1, <1>2, <1>3
<1>5. h \in Seq(T) /\ Len(h) = n
  BY ONLY <1>2, <1>3, <1>4, SequenceIs
<1>6. QED BY <1>1, <1>2, <1>3, <1>5 DEF n, Imaged

\* What a sequence comes to, after each of its elements.
Accumulates(g, F, X, s) ==
  /\ g[0] = <<>> /\ Through(F, s) = g[Len(s)]
  /\ \A i \in 0..Len(s) : g[i] \in Seq(X)
  /\ \A i \in 1..Len(s) : g[i] = g[i - 1] \o F[s[i]]

LEMMA ThroughSteps ==
  ASSUME NEW A, NEW X, NEW F \in [A -> Seq(X)], NEW s \in Seq(A) PROVE \E g : Accumulates(g, F, X, s)
<1>1. PICK h : h = Images(F, s)
  OBVIOUS
<1>2. h \in Seq(Seq(X)) /\ Len(h) = Len(s) /\ Len(s) \in Nat /\ \A i \in 1..Len(s) : h[i] = F[s[i]]
  <2>1. Imaged(Images(F, s), F, X, s)
    BY ImagesFacts
  <2>2. QED BY <1>1, <2>1 DEF Imaged
<1>3. PICK g : Joins(g, X, h)
  <2>1. h \in Seq(Seq(X))
    BY <1>2
  <2>2. QED BY ONLY <2>1, JoinedSteps
<1>4. Accumulates(g, F, X, s)
  <2>1. Through(F, s) = Joined(h)
    BY <1>1 DEF Through
  <2>2. QED BY ONLY <1>2, <1>3, <2>1 DEF Joins, Accumulates
<1>5. QED BY <1>4

LEMMA ThroughType ==
  ASSUME NEW A, NEW X, NEW F \in [A -> Seq(X)], NEW s \in Seq(A) PROVE Through(F, s) \in Seq(X)
<1>1. PICK h : h = Images(F, s) /\ h \in Seq(Seq(X))
  BY ImagesFacts DEF Imaged
<1>2. QED BY <1>1, JoinedType DEF Through

LEMMA ThroughSame ==
  ASSUME NEW A, NEW X, NEW F, Maps(F, A, X), NEW G, Maps(G, A, X), NEW s \in Seq(A), NEW t \in Seq(A),
         Len(s) = Len(t), \A i \in 1..Len(s) : F[s[i]] = G[t[i]]
  PROVE  Through(F, s) = Through(G, t)
<1>1. PICK g, h, T : g = Images(F, s) /\ h = Images(G, t) /\ T = Seq(X)
  OBVIOUS
<1>2. g \in Seq(T) /\ Len(g) = Len(s) /\ \A i \in 1..Len(s) : g[i] = F[s[i]]
  <2>1. Imaged(Images(F, s), F, X, s)
    BY ImagesFacts DEF Maps
  <2>2. QED BY <1>1, <2>1 DEF Imaged
<1>3. h \in Seq(T) /\ Len(h) = Len(t) /\ \A i \in 1..Len(t) : h[i] = G[t[i]]
  <2>1. Imaged(Images(G, t), G, X, t)
    BY ImagesFacts DEF Maps
  <2>2. QED BY <1>1, <2>1 DEF Imaged
<1>4. Len(g) = Len(h) /\ \A i \in 1..Len(g) : g[i] = h[i]
  BY <1>2, <1>3
<1>5. g = h
  BY ONLY <1>2, <1>3, <1>4, SameSequence
<1>6. QED BY <1>1, <1>5 DEF Through

LEMMA ThroughConcat ==
  ASSUME NEW A, NEW X, NEW F, Maps(F, A, X), NEW s \in Seq(A), NEW t \in Seq(A)
  PROVE  Through(F, s \o t) = Through(F, s) \o Through(F, t)
<1>1. PICK u, T : u = s \o t /\ T = Seq(X)
  OBVIOUS
<1>2. PICK gs, gt, gu : gs = Images(F, s) /\ gt = Images(F, t) /\ gu = Images(F, u)
  OBVIOUS
<1>3. u \in Seq(A) /\ Len(u) = Len(s) + Len(t) /\ \A k \in 1..(Len(s) + Len(t)) : u[k] = IF k <= Len(s) THEN s[k] ELSE t[k - Len(s)]
  BY ONLY <1>1, s \in Seq(A), t \in Seq(A), Concat
<1>4. gs \in Seq(T) /\ Len(gs) = Len(s) /\ Len(s) \in Nat /\ \A i \in 1..Len(s) : gs[i] = F[s[i]]
  <2>1. Imaged(Images(F, s), F, X, s)
    BY ImagesFacts DEF Maps
  <2>2. QED BY <1>1, <1>2, <2>1 DEF Imaged
<1>5. gt \in Seq(T) /\ Len(gt) = Len(t) /\ Len(t) \in Nat /\ \A i \in 1..Len(t) : gt[i] = F[t[i]]
  <2>1. Imaged(Images(F, t), F, X, t)
    BY ImagesFacts DEF Maps
  <2>2. QED BY <1>1, <1>2, <2>1 DEF Imaged
<1>6. gu \in Seq(T) /\ Len(gu) = Len(u) /\ \A i \in 1..Len(u) : gu[i] = F[u[i]]
  <2>1. Imaged(Images(F, u), F, X, u)
    BY <1>3, ImagesFacts DEF Maps
  <2>2. QED BY <1>1, <1>2, <2>1 DEF Imaged
<1>7. PICK v : v = gs \o gt
  OBVIOUS
<1>8. v \in Seq(T) /\ Len(v) = Len(gs) + Len(gt) /\ \A k \in 1..(Len(gs) + Len(gt)) : v[k] = IF k <= Len(gs) THEN gs[k] ELSE gt[k - Len(gs)]
  <2>1. gs \in Seq(T) /\ gt \in Seq(T)
    BY <1>4, <1>5
  <2>2. QED BY ONLY <1>7, <2>1, Concat
<1>9. ASSUME NEW k \in 1..Len(gu) PROVE gu[k] = v[k]
  <2>1. k \in 1..(Len(s) + Len(t)) /\ gu[k] = F[u[k]]
    BY <1>3, <1>6
  <2>2. CASE k <= Len(s)
    <3>1. k \in 1..Len(s) /\ u[k] = s[k] /\ v[k] = gs[k]
      BY <1>3, <1>4, <1>5, <1>8, <2>1, <2>2
    <3>2. QED BY <1>4, <2>1, <3>1
  <2>3. CASE ~(k <= Len(s))
    <3>1. k - Len(s) \in 1..Len(t) /\ u[k] = t[k - Len(s)] /\ v[k] = gt[k - Len(s)]
      BY <1>3, <1>4, <1>5, <1>8, <2>1, <2>3
    <3>2. QED BY <1>5, <2>1, <3>1
  <2>4. QED BY <2>2, <2>3
<1>10. Len(gu) = Len(v)
  BY <1>3, <1>4, <1>5, <1>6, <1>8
<1>11. gu = v
  BY ONLY <1>6, <1>8, <1>9, <1>10, SameSequence
<1>12. Joined(gs \o gt) = Joined(gs) \o Joined(gt)
  BY <1>1, <1>4, <1>5, JoinedConcat
<1>13. QED BY <1>1, <1>2, <1>7, <1>11, <1>12 DEF Through

LEMMA ThroughOne == ASSUME NEW A, NEW X, NEW F \in [A -> Seq(X)], NEW a \in A PROVE Through(F, <<a>>) = F[a]
<1>1. PICK s : s = <<a>>
  OBVIOUS
<1>2. s \in Seq(A) /\ Len(s) = 1 /\ s[1] = a
  BY <1>1
<1>3. PICK g : Accumulates(g, F, X, s)
  BY <1>2, ThroughSteps
<1>4. 1 \in 1..Len(s) /\ 1 - 1 = 0
  BY <1>2
<1>5. g[1] = <<>> \o F[a] /\ Through(F, s) = g[1]
  BY <1>2, <1>3, <1>4 DEF Accumulates
<1>6. F[a] \in Seq(X)
  OBVIOUS
<1>7. QED BY <1>1, <1>5, <1>6

LEMMA ThroughAppend ==
  ASSUME NEW A, NEW X, NEW F \in [A -> Seq(X)], NEW s \in Seq(A), NEW a \in A
  PROVE  Through(F, Append(s, a)) = Through(F, s) \o F[a]
<1>1. PICK t : t = <<a>>
  OBVIOUS
<1>2. t \in Seq(A) /\ Append(s, a) = s \o t
  BY <1>1
<1>3. Through(F, s \o t) = Through(F, s) \o Through(F, t)
  <2>1. Maps(F, A, X)
    BY DEF Maps
  <2>2. QED BY ONLY <1>2, <2>1, s \in Seq(A), ThroughConcat
<1>4. QED BY <1>1, <1>2, <1>3, ThroughOne

\* Elements that have the empty sequence can be left out.
LEMMA ThroughSelect ==
  ASSUME NEW A, NEW X, NEW F \in [A -> Seq(X)], NEW s \in Seq(A), NEW J,
         \A i \in 1..Len(s) : i \notin J => F[s[i]] = <<>>
  PROVE  Through(F, SelectAt(s, J)) = Through(F, s)
<1>1. PICK f : Selects(f, A, s, J)
  BY SelectAtSteps
<1>2. PICK g : Accumulates(g, F, X, s)
  BY ThroughSteps
<1> DEFINE n == Len(s)
<1>3. n \in Nat /\ n = Len(s) /\ \A i \in 1..n : s[i] \in A
  OBVIOUS
<1> HIDE DEF n
<1>4. PICK P : P = {i \in 0..n : Through(F, f[i]) = g[i]}
  OBVIOUS
<1>5. 0 \in P
  <2>1. PICK e : e = <<>>
    OBVIOUS
  <2>2. e \in Seq(A) /\ Len(e) = 0
    BY <2>1
  <2>3. PICK h : Accumulates(h, F, X, e)
    BY <2>2, ThroughSteps
  <2>4. Through(F, e) = <<>>
    BY <2>2, <2>3 DEF Accumulates
  <2>5. QED BY <1>1, <1>2, <1>3, <1>4, <2>1, <2>4 DEF Selects, Accumulates
<1>6. ASSUME NEW i \in 1..n, i - 1 \in P PROVE i \in P
  <2>1. i \in 0..n /\ i - 1 \in 0..n /\ i \in 1..Len(s) /\ Through(F, f[i - 1]) = g[i - 1]
    BY <1>3, <1>4, <1>6
  <2>2. f[i - 1] \in Seq(A) /\ g[i - 1] \in Seq(X) /\ s[i] \in A /\ g[i] = g[i - 1] \o F[s[i]]
    BY <1>1, <1>2, <1>3, <2>1 DEF Selects, Accumulates
  <2>3. CASE i \in J
    <3>1. f[i] = Append(f[i - 1], s[i])
      BY <1>1, <2>1, <2>3 DEF Selects
    <3>2. Through(F, Append(f[i - 1], s[i])) = Through(F, f[i - 1]) \o F[s[i]]
      BY ONLY F \in [A -> Seq(X)], <2>2, ThroughAppend
    <3>3. QED BY <1>4, <2>1, <2>2, <3>1, <3>2
  <2>4. CASE i \notin J
    <3>1. f[i] = f[i - 1] /\ F[s[i]] = <<>>
      BY <1>1, <2>1, <2>4 DEF Selects
    <3>2. g[i - 1] \o <<>> = g[i - 1]
      BY <2>2
    <3>3. QED BY <1>4, <2>1, <2>2, <3>1, <3>2
  <2>5. QED BY <2>3, <2>4
<1>7. n \in P
  BY ONLY <1>3, <1>5, <1>6, n \in 0..n, Induction
<1>8. QED BY <1>1, <1>2, <1>3, <1>4, <1>7 DEF Selects, Accumulates

\* The ids that a block and a message have of these types, as functions.
BlockPart(Id, types)   == [b \in Blocks(Id) |-> IF b.type \in types THEN <<b.id>> ELSE <<>>]
MessagePart(Id, types) == [m \in Messages(Id) |-> IdsOf(m.blocks, types)]

LEMMA BlockPartType ==
  ASSUME NEW Id, NEW types PROVE BlockPart(Id, types) \in [Blocks(Id) -> Seq(Id \cup {<<>>})]
<1>1. PICK X : X = Id \cup {<<>>}
  OBVIOUS
<1>2. ASSUME NEW b \in Blocks(Id) PROVE (IF b.type \in types THEN <<b.id>> ELSE <<>>) \in Seq(X)
  <2>1. b.id \in X
    BY <1>1 DEF Blocks
  <2>2. <<b.id>> \in Seq(X) /\ <<>> \in Seq(X)
    BY <2>1
  <2>3. QED BY <2>2
<1> HIDE DEF Blocks
<1>3. QED BY <1>1, <1>2 DEF BlockPart

LEMMA IdsThrough ==
  ASSUME NEW Id, NEW types, NEW bs \in Seq(Blocks(Id))
  PROVE  IdsOf(bs, types) = Through(BlockPart(Id, types), bs) /\ IdsOf(bs, types) \in Seq(Id \cup {<<>>})
<1>1. PICK F, B : F = BlockPart(Id, types) /\ B = Blocks(Id)
  OBVIOUS
<1>2. \A b \in B : F[b] = IF b.type \in types THEN <<b.id>> ELSE <<>>
  BY <1>1 DEF BlockPart
<1>3. \A i \in DOMAIN bs : bs[i] \in B
  BY <1>1
<1>4. Images(F, bs) = [i \in DOMAIN bs |-> IF bs[i].type \in types THEN <<bs[i].id>> ELSE <<>>]
  BY <1>2, <1>3 DEF Images
<1>5. IdsOf(bs, types) = Through(F, bs)
  BY <1>4 DEF IdsOf, Through
<1>6. F \in [B -> Seq(Id \cup {<<>>})]
  BY <1>1, BlockPartType
<1>7. Through(F, bs) \in Seq(Id \cup {<<>>})
  BY <1>1, <1>6, ThroughType
<1>8. QED BY <1>1, <1>5, <1>7

LEMMA MessagePartType ==
  ASSUME NEW Id, NEW types PROVE MessagePart(Id, types) \in [Messages(Id) -> Seq(Id \cup {<<>>})]
<1>1. ASSUME NEW m \in Messages(Id) PROVE IdsOf(m.blocks, types) \in Seq(Id \cup {<<>>})
  <2>1. m.blocks \in Seq(Blocks(Id))
    BY DEF Messages
  <2>2. QED BY <2>1, IdsThrough
<1>2. QED BY <1>1 DEF MessagePart

LEMMA AllThrough ==
  ASSUME NEW Id, NEW types, NEW ms \in Seq(Messages(Id))
  PROVE  AllIds(ms, types) = Through(MessagePart(Id, types), ms)
<1>1. PICK F, M : F = MessagePart(Id, types) /\ M = Messages(Id)
  OBVIOUS
<1>2. \A m \in M : F[m] = IdsOf(m.blocks, types)
  BY <1>1 DEF MessagePart
<1>3. \A i \in DOMAIN ms : ms[i] \in M
  BY <1>1
<1>4. Images(F, ms) = [i \in DOMAIN ms |-> IdsOf(ms[i].blocks, types)]
  BY <1>2, <1>3 DEF Images
<1>5. QED BY <1>1, <1>4 DEF AllIds, Through

LEMMA IdsConcat ==
  ASSUME NEW Id, NEW types, NEW bs \in Seq(Blocks(Id)), NEW cs \in Seq(Blocks(Id))
  PROVE  IdsOf(bs \o cs, types) = IdsOf(bs, types) \o IdsOf(cs, types) /\ bs \o cs \in Seq(Blocks(Id))
<1>1. PICK F, B, X : F = BlockPart(Id, types) /\ B = Blocks(Id) /\ X = Id \cup {<<>>}
  OBVIOUS
<1>2. F \in [B -> Seq(X)] /\ bs \in Seq(B) /\ cs \in Seq(B)
  BY <1>1, BlockPartType
<1>3. Through(F, bs \o cs) = Through(F, bs) \o Through(F, cs)
  <2>1. Maps(F, B, X)
    BY <1>2 DEF Maps
  <2>2. QED BY ONLY <1>2, <2>1, ThroughConcat
<1>4. bs \o cs \in Seq(B)
  BY <1>2
<1>5. QED BY <1>1, <1>2, <1>3, <1>4, IdsThrough

LEMMA IdsSelect ==
  ASSUME NEW Id, NEW types, NEW bs \in Seq(Blocks(Id)), NEW J,
         \A i \in 1..Len(bs) : bs[i].type \in types => i \in J
  PROVE  IdsOf(SelectAt(bs, J), types) = IdsOf(bs, types)
<1>1. PICK F, B, X : F = BlockPart(Id, types) /\ B = Blocks(Id) /\ X = Id \cup {<<>>}
  OBVIOUS
<1>2. F \in [B -> Seq(X)] /\ bs \in Seq(B)
  BY <1>1, BlockPartType
<1>3. \A i \in 1..Len(bs) : i \notin J => F[bs[i]] = <<>>
  <2>1. \A i \in 1..Len(bs) : bs[i] \in B
    BY <1>2
  <2>2. QED BY <1>1, <2>1 DEF BlockPart
<1>4. Through(F, SelectAt(bs, J)) = Through(F, bs)
  BY ONLY <1>2, <1>3, ThroughSelect
<1>5. SelectAt(bs, J) \in Seq(B)
  BY <1>2, SelectAtFacts
<1>6. QED BY <1>1, <1>2, <1>4, <1>5, IdsThrough

LEMMA IdsSame ==
  ASSUME NEW Id, NEW types, NEW others, NEW bs \in Seq(Blocks(Id)), NEW cs \in Seq(Blocks(Id)), Len(bs) = Len(cs),
         \A i \in 1..Len(bs) : /\ bs[i].type \in types <=> cs[i].type \in others
                               /\ bs[i].type \in types => bs[i].id = cs[i].id
  PROVE  IdsOf(bs, types) = IdsOf(cs, others)
<1>1. PICK F, G, B, X : F = BlockPart(Id, types) /\ G = BlockPart(Id, others) /\ B = Blocks(Id) /\ X = Id \cup {<<>>}
  OBVIOUS
<1>2. F \in [B -> Seq(X)] /\ G \in [B -> Seq(X)] /\ bs \in Seq(B) /\ cs \in Seq(B)
  BY <1>1, BlockPartType
<1>3. \A i \in 1..Len(bs) : F[bs[i]] = G[cs[i]]
  <2>1. \A i \in 1..Len(bs) : bs[i] \in B /\ cs[i] \in B
    BY <1>2
  <2>2. QED BY <1>1, <2>1 DEF BlockPart
<1>4. Through(F, bs) = Through(G, cs)
  <2>1. Maps(F, B, X) /\ Maps(G, B, X)
    BY <1>2 DEF Maps
  <2>2. bs \in Seq(B) /\ cs \in Seq(B) /\ Len(bs) = Len(cs)
    BY <1>2
  <2>3. QED BY ONLY <1>3, <2>1, <2>2, ThroughSame
<1>5. QED BY <1>1, <1>4, IdsThrough

LEMMA IdsFiller == ASSUME NEW Id, NEW types, "filler" \notin types PROVE IdsOf(<<Filler>>, types) = <<>>
<1>1. PICK F, B, X : F = BlockPart(Id, types) /\ B = Blocks(Id) /\ X = Id \cup {<<>>}
  OBVIOUS
<1>2. F \in [B -> Seq(X)] /\ Filler \in B /\ Filler.type = "filler"
  BY <1>1, BlockPartType, FillerBlock
<1>3. Through(F, <<Filler>>) = F[Filler]
  BY ONLY <1>2, ThroughOne
<1>4. F[Filler] = <<>>
  BY <1>1, <1>2 DEF BlockPart
<1>5. <<Filler>> \in Seq(B)
  BY <1>2
<1>6. QED BY <1>1, <1>3, <1>4, <1>5, IdsThrough

LEMMA AllAppend ==
  ASSUME NEW Id, NEW types, NEW ms \in Seq(Messages(Id)), NEW m \in Messages(Id)
  PROVE  AllIds(Append(ms, m), types) = AllIds(ms, types) \o IdsOf(m.blocks, types)
<1>1. PICK F, M, X : F = MessagePart(Id, types) /\ M = Messages(Id) /\ X = Id \cup {<<>>}
  OBVIOUS
<1>2. F \in [M -> Seq(X)] /\ ms \in Seq(M) /\ m \in M
  BY <1>1, MessagePartType
<1>3. Through(F, Append(ms, m)) = Through(F, ms) \o F[m]
  BY ONLY <1>2, ThroughAppend
<1>4. Append(ms, m) \in Seq(M) /\ F[m] = IdsOf(m.blocks, types)
  BY <1>1, <1>2 DEF MessagePart
<1>5. QED BY <1>1, <1>2, <1>3, <1>4, AllThrough

LEMMA AllType ==
  ASSUME NEW Id, NEW types, NEW ms \in Seq(Messages(Id)) PROVE AllIds(ms, types) \in Seq(Id \cup {<<>>})
<1>1. PICK F, M, X : F = MessagePart(Id, types) /\ M = Messages(Id) /\ X = Id \cup {<<>>}
  OBVIOUS
<1>2. F \in [M -> Seq(X)] /\ ms \in Seq(M)
  BY <1>1, MessagePartType
<1>3. Through(F, ms) \in Seq(X)
  BY ONLY <1>2, ThroughType
<1>4. QED BY <1>1, <1>3, AllThrough

\* Messages that have the same ids, one by one, have the same ids together.
LEMMA AllSame ==
  ASSUME NEW Id, NEW types, NEW others, NEW ms \in Seq(Messages(Id)), NEW ns \in Seq(Messages(Id)), Len(ms) = Len(ns),
         \A i \in 1..Len(ms) : IdsOf(ms[i].blocks, types) = IdsOf(ns[i].blocks, others)
  PROVE  AllIds(ms, types) = AllIds(ns, others)
<1>1. PICK F, G, M, X : F = MessagePart(Id, types) /\ G = MessagePart(Id, others) /\ M = Messages(Id) /\ X = Id \cup {<<>>}
  OBVIOUS
<1>2. F \in [M -> Seq(X)] /\ G \in [M -> Seq(X)] /\ ms \in Seq(M) /\ ns \in Seq(M)
  BY <1>1, MessagePartType
<1>3. \A i \in 1..Len(ms) : F[ms[i]] = G[ns[i]]
  <2>1. \A i \in 1..Len(ms) : ms[i] \in M /\ ns[i] \in M
    BY <1>2
  <2>2. QED BY <1>1, <2>1 DEF MessagePart
<1>4. Through(F, ms) = Through(G, ns)
  <2>1. Maps(F, M, X) /\ Maps(G, M, X)
    BY <1>2 DEF Maps
  <2>2. ms \in Seq(M) /\ ns \in Seq(M) /\ Len(ms) = Len(ns)
    BY <1>2
  <2>3. QED BY ONLY <1>3, <2>1, <2>2, ThroughSame
<1>5. QED BY <1>1, <1>4, AllThrough

-----------------------------------------------------------------------------
(* What no stage loses.                                                     *)

\* What a type of block, or a reference, becomes when references are swapped.
Becomes(types, others) ==
  \/ types = {"text"} /\ others = {"text"}
  \/ types = {"readRef", "uploadRef"} /\ others = {"file", "stub"}
Unswapped(m) == \A b \in ToSet(m.blocks) : b.type \notin {"file", "stub"}

LEMMA SwappedIds ==
  ASSUME NEW Id, NEW m \in Messages(Id), IsRow(Id, m), Unswapped(m), NEW bs \in Seq(Blocks(Id)), Len(bs) = Len(m.blocks),
         NEW types, NEW others, Becomes(types, others),
         \A j \in 1..Len(bs) :
           IF ~IsRef(m.blocks[j]) \/ m.role # "user" THEN bs[j] = m.blocks[j]
           ELSE bs[j] \in {Block("file", m.blocks[j].id), Block("stub", m.blocks[j].id)}
  PROVE  IdsOf(bs, others) = IdsOf(m.blocks, types)
<1>1. PICK cs : cs = m.blocks /\ cs \in Seq(Blocks(Id)) /\ Len(bs) = Len(cs)
  BY DEF Messages
<1>2. ASSUME NEW j \in 1..Len(bs)
      PROVE  /\ bs[j].type \in others <=> cs[j].type \in types
             /\ bs[j].type \in others => bs[j].id = cs[j].id
  <2>1. j \in DOMAIN cs /\ cs[j] \in ToSet(m.blocks)
    BY <1>1 DEF ToSet
  <2>2. cs[j].type \notin {"file", "stub"}
    BY <2>1 DEF Unswapped
  <2>3. m.role # "user" => ~IsRef(cs[j])
    BY <2>1 DEF IsRow, Shape, NoRefs
  <2>4. CASE ~IsRef(cs[j])
    <3>1. bs[j] = cs[j]
      BY <1>1, <2>4
    <3>2. QED BY <2>2, <2>4, <3>1 DEF Becomes, IsRef
  <2>5. CASE IsRef(cs[j])
    <3>1. bs[j] \in {Block("file", cs[j].id), Block("stub", cs[j].id)}
      BY <1>1, <2>3, <2>5
    <3>2. bs[j].type \in {"file", "stub"} /\ bs[j].id = cs[j].id
      BY <3>1 DEF Block
    <3>3. QED BY <2>5, <3>2 DEF Becomes, IsRef
  <2>6. QED BY <2>4, <2>5
<1>3. QED BY <1>1, <1>2, IdsSame

LEMMA RehydrateKeeps ==
  ASSUME NEW Id, NEW S, StoredRows(Id, S), S \subseteq Messages(Id), \A m \in S : Unswapped(m),
         NEW ms \in Seq(S), NEW loadable, NEW types, NEW others, Becomes(types, others)
  PROVE  AllIds(RehydrateDataRoomRefs(ms, loadable), others) = AllIds(ms, types)
<1>1. PICK k : k = Len(ms) /\ k \in Nat /\ DOMAIN ms = 1..k /\ \A i \in 1..k : ms[i] \in S
  OBVIOUS
<1>2. PICK ns, load : ns = RehydrateDataRoomRefs(ms, loadable) /\ load = RefsToLoad(ms)
  OBVIOUS
<1>3. ns \in Seq(Bare(Id)) /\ Len(ns) = k
  BY <1>1, <1>2, RehydrateBare DEF Likes
<1>4. ns = [row \in 1..k |->
              Msg(ms[row].role,
                  [col \in DOMAIN ms[row].blocks |->
                     IF ~IsRef(ms[row].blocks[col]) \/ ms[row].role # "user" THEN ms[row].blocks[col]
                     ELSE IF <<row, col>> \in load /\ ms[row].blocks[col].id[1] \in loadable
                          THEN Block("file", ms[row].blocks[col].id)
                          ELSE Block("stub", ms[row].blocks[col].id)])]
  BY <1>1, <1>2 DEF RehydrateDataRoomRefs
<1>5. \A i \in 1..k : ns[i] \in Messages(Id)
  <2>1. \A i \in 1..k : ns[i] \in Bare(Id)
    BY <1>1, <1>3
  <2>2. QED BY <2>1 DEF Bare
<1>6. ASSUME NEW i \in 1..k PROVE IdsOf(ns[i].blocks, others) = IdsOf(ms[i].blocks, types)
  <2>1. PICK m, bs : m = ms[i] /\ bs = [col \in DOMAIN ms[i].blocks |->
                     IF ~IsRef(ms[i].blocks[col]) \/ ms[i].role # "user" THEN ms[i].blocks[col]
                     ELSE IF <<i, col>> \in load /\ ms[i].blocks[col].id[1] \in loadable
                          THEN Block("file", ms[i].blocks[col].id)
                          ELSE Block("stub", ms[i].blocks[col].id)]
    OBVIOUS
  <2>2. ns[i] = Msg(m.role, bs)
    BY <1>4, <2>1
  <2>3. ns[i].blocks = bs /\ bs \in Seq(Blocks(Id))
    BY <1>5, <2>2 DEF Msg, Messages
  <2>4. m \in Messages(Id) /\ IsRow(Id, m) /\ Unswapped(m) /\ m.blocks \in Seq(Blocks(Id))
    BY <1>1, <2>1 DEF StoredRows, Messages
  <2>5. DOMAIN bs = DOMAIN m.blocks
    BY <2>1
  <2>6. Len(bs) = Len(m.blocks) /\ DOMAIN m.blocks = 1..Len(bs)
    BY <2>3, <2>4, <2>5
  <2>7. \A j \in 1..Len(bs) :
          IF ~IsRef(m.blocks[j]) \/ m.role # "user" THEN bs[j] = m.blocks[j]
          ELSE bs[j] \in {Block("file", m.blocks[j].id), Block("stub", m.blocks[j].id)}
    BY <2>1, <2>6
  <2>8. IdsOf(bs, others) = IdsOf(m.blocks, types)
    BY <2>3, <2>4, <2>6, <2>7, SwappedIds
  <2>9. QED BY <2>1, <2>3, <2>8
<1>7. ns \in Seq(Messages(Id)) /\ ms \in Seq(Messages(Id))
  BY <1>1, <1>3, <1>5
<1>8. AllIds(ns, others) = AllIds(ms, types)
  BY <1>1, <1>3, <1>6, <1>7, AllSame
<1>9. QED BY <1>2, <1>8

\* The types that no sanitizer takes out and no stage puts in.
Lasting(types) == types \cap {"use", "result", "srvResult", "filler"} = {}

LEMMA DropKeeps ==
  ASSUME NEW Id, NEW ms \in Seq(Bare(Id)), NEW types, Lasting(types)
  PROVE  AllIds(DropOrphanServerToolResults(ms), types) = AllIds(ms, types)
<1>1. PICK k : k = Len(ms) /\ k \in Nat /\ DOMAIN ms = 1..k /\ \A i \in 1..k : ms[i] \in Bare(Id)
  OBVIOUS
<1>2. PICK ns : ns = DropOrphanServerToolResults(ms)
  OBVIOUS
<1>3. ns \in Seq(Clean(Id)) /\ Len(ns) = k
  BY <1>1, <1>2, DropClean DEF Likes
<1>4. \A i \in 1..k : ns[i] \in Messages(Id) /\ ms[i] \in Messages(Id)
  <2>1. \A i \in 1..k : ns[i] \in Clean(Id)
    BY <1>1, <1>3
  <2>2. QED BY <1>1, <2>1 DEF Clean, Bare
<1>5. ASSUME NEW i \in 1..k PROVE IdsOf(ns[i].blocks, types) = IdsOf(ms[i].blocks, types)
  <2>1. PICK bs, J : bs = ms[i].blocks /\ J = {j \in DOMAIN ms[i].blocks : ms[i].blocks[j].type = "srvResult" =>
                        \E q \in 1..(j - 1) : ms[i].blocks[q] = Block("srvUse", ms[i].blocks[j].id)}
    OBVIOUS
  <2>2. ns[i] = Msg(ms[i].role, SelectAt(bs, J))
    BY <1>1, <1>2, <2>1 DEF DropOrphanServerToolResults
  <2>3. ns[i].blocks = SelectAt(bs, J) /\ bs \in Seq(Blocks(Id))
    BY <1>4, <2>1, <2>2 DEF Msg, Messages
  <2>4. \A j \in 1..Len(bs) : bs[j].type \in types => j \in J
    BY <2>1, <2>3 DEF Lasting
  <2>5. IdsOf(SelectAt(bs, J), types) = IdsOf(bs, types)
    BY <2>3, <2>4, IdsSelect
  <2>6. QED BY <2>1, <2>3, <2>5
<1>6. ns \in Seq(Messages(Id)) /\ ms \in Seq(Messages(Id))
  BY <1>1, <1>3, <1>4
<1>7. AllIds(ns, types) = AllIds(ms, types)
  BY <1>1, <1>3, <1>5, <1>6, AllSame
<1>8. QED BY <1>2, <1>7

LEMMA AllSteps ==
  ASSUME NEW Id, NEW types, NEW ms \in Seq(Messages(Id))
  PROVE  \E g : Accumulates(g, MessagePart(Id, types), Id \cup {<<>>}, ms)
  BY MessagePartType, ThroughSteps

\* What a stage that takes the messages one by one has made of the first of them.
LEMMA StagesKeep ==
  ASSUME NEW Id, NEW types, NEW ms \in Seq(Messages(Id)), NEW f, f[0] = <<>>,
         \A i \in 0..Len(ms) : f[i] \in Seq(Messages(Id)),
         \A i \in 1..Len(ms) : AllIds(f[i], types) = AllIds(f[i - 1], types) \o IdsOf(ms[i].blocks, types)
  PROVE  AllIds(f[Len(ms)], types) = AllIds(ms, types)
<1>1. PICK F, M, X : F = MessagePart(Id, types) /\ M = Messages(Id) /\ X = Id \cup {<<>>}
  OBVIOUS
<1>2. PICK g : Accumulates(g, F, X, ms)
  BY <1>1, AllSteps
<1> DEFINE n == Len(ms)
<1>3. n \in Nat /\ n = Len(ms) /\ \A i \in 1..n : ms[i] \in M
  BY <1>1
<1> HIDE DEF n
<1>4. PICK P : P = {i \in 0..n : AllIds(f[i], types) = g[i]}
  OBVIOUS
<1>5. 0 \in P
  <2>1. PICK e : e = <<>> /\ Len(e) = 0
    OBVIOUS
  <2>2. e \in Seq(M)
    BY <2>1
  <2>3. PICK h : Accumulates(h, F, X, e)
    BY <1>1, <2>2, AllSteps
  <2>4. AllIds(e, types) = <<>>
    BY <1>1, <2>1, <2>2, <2>3, AllThrough DEF Accumulates
  <2>5. QED BY <1>2, <1>3, <1>4, <2>1, <2>4 DEF Accumulates
<1>6. ASSUME NEW i \in 1..n, i - 1 \in P PROVE i \in P
  <2>1. i \in 0..n /\ i - 1 \in 0..n /\ i \in 1..Len(ms) /\ AllIds(f[i - 1], types) = g[i - 1]
    BY <1>3, <1>4, <1>6
  <2>2. g[i] = g[i - 1] \o F[ms[i]] /\ F[ms[i]] = IdsOf(ms[i].blocks, types)
    BY <1>1, <1>2, <1>3, <2>1 DEF Accumulates, MessagePart
  <2>3. QED BY <1>3, <1>4, <2>1, <2>2
<1>7. n \in P
  BY ONLY <1>3, <1>5, <1>6, n \in 0..n, Induction
<1>8. QED BY <1>1, <1>2, <1>3, <1>4, <1>7, AllThrough DEF Accumulates

LEMMA CleanMessages == ASSUME NEW Id, NEW s \in Seq(Clean(Id)) PROVE s \in Seq(Messages(Id))
<1>1. \A i \in 1..Len(s) : s[i] \in Clean(Id)
  <2> HIDE DEF Clean
  <2>1. QED OBVIOUS
<1>2. \A i \in 1..Len(s) : s[i] \in Messages(Id)
  BY <1>1 DEF Clean
<1>3. QED BY <1>2

LEMMA IdsEmpty == ASSUME NEW Id, NEW types PROVE IdsOf(<<>>, types) = <<>>
<1>1. PICK F, B, X, e : F = BlockPart(Id, types) /\ B = Blocks(Id) /\ X = Id \cup {<<>>} /\ e = <<>>
  OBVIOUS
<1>2. F \in [B -> Seq(X)] /\ e \in Seq(B) /\ Len(e) = 0
  <2>1. F \in [B -> Seq(X)]
    BY <1>1, BlockPartType
  <2>2. \A T : <<>> \in Seq(T)
    OBVIOUS
  <2>3. QED BY <1>1, <2>1, <2>2
<1>3. PICK h : Accumulates(h, F, X, e)
  BY <1>2, ThroughSteps
<1>4. Through(F, e) = <<>>
  BY <1>2, <1>3 DEF Accumulates
<1>5. QED BY <1>1, <1>2, <1>4, IdsThrough

LEMMA KeptIds ==
  ASSUME NEW Id, NEW m \in Messages(Id), NEW answered, NEW asked, NEW types, Lasting(types)
  PROVE  IdsOf(Kept(m, answered, asked), types) = IdsOf(m.blocks, types)
<1>1. PICK bs, J : /\ bs = m.blocks
                   /\ J = {j \in DOMAIN m.blocks :
                             /\ m.role = "assistant" /\ m.blocks[j].type = "use" => m.blocks[j].id \in answered
                             /\ m.role = "user" /\ m.blocks[j].type = "result" => m.blocks[j].id \in asked}
  OBVIOUS
<1>2. Kept(m, answered, asked) = SelectAt(bs, J) /\ bs \in Seq(Blocks(Id))
  BY <1>1 DEF Kept, Messages
<1>3. \A j \in 1..Len(bs) : bs[j].type \in types => j \in J
  BY <1>1, <1>2 DEF Lasting
<1>4. QED BY <1>1, <1>2, <1>3, IdsSelect

LEMMA SanitizeMessageIds ==
  ASSUME NEW Id, NEW ms \in Seq(Clean(Id)), NEW i \in 1..Len(ms), NEW out \in Seq(Clean(Id)), NEW types, Lasting(types)
  PROVE  AllIds(SanitizeMessage(ms, out, i), types) = AllIds(out, types) \o IdsOf(ms[i].blocks, types)
<1>1. PICK m, kept : m = ms[i] /\ kept = Kept(m, Answered(ms, i), AskedBy(out))
  OBVIOUS
<1>2. m \in Clean(Id)
  <2> HIDE DEF Clean
  <2>1. QED BY <1>1
<1>3. m \in Messages(Id) /\ m.blocks # <<>> /\ m.role \in {"user", "assistant"}
  BY <1>2 DEF Clean, Shape, Messages
<1>4. SanitizeMessage(ms, out, i) = IF kept = <<>> THEN out ELSE Append(out, Msg(m.role, kept))
  BY <1>1, <1>3 DEF SanitizeMessage, Answered, AskedBy
<1>5. IdsOf(kept, types) = IdsOf(m.blocks, types) /\ kept \in Seq(Blocks(Id))
  BY <1>1, <1>2, <1>3, KeptIds, KeptBlocks
<1>6. out \in Seq(Messages(Id))
  BY CleanMessages
<1>7. CASE kept = <<>>
  <2>1. IdsOf(m.blocks, types) = <<>>
    BY <1>5, <1>7, IdsEmpty
  <2>2. AllIds(out, types) \o <<>> = AllIds(out, types)
    BY <1>6, AllType
  <2>3. QED BY <1>1, <1>4, <1>7, <2>1, <2>2
<1>8. CASE kept # <<>>
  <2>1. PICK n : n = Msg(m.role, kept)
    OBVIOUS
  <2>2. n \in Messages(Id) /\ n.blocks = kept
    BY <1>3, <1>5, <2>1, MsgIs
  <2>3. AllIds(Append(out, n), types) = AllIds(out, types) \o IdsOf(n.blocks, types)
    BY ONLY <1>6, <2>2, AllAppend
  <2>4. QED BY <1>1, <1>4, <1>5, <1>8, <2>1, <2>2, <2>3
<1>9. QED BY <1>7, <1>8

LEMMA SanitizeKeeps ==
  ASSUME NEW Id, NEW ms \in Seq(Clean(Id)), NEW types, Lasting(types)
  PROVE  AllIds(SanitizeToolPairs(ms), types) = AllIds(ms, types)
<1>1. PICK f : Sanitizes(f, ms)
  <2> HIDE DEF Clean
  <2>1. QED BY SanitizeSteps
<1>2. PICK n : n = Len(ms) /\ n \in Nat
  OBVIOUS
<1>3. SanitizeToolPairs(ms) = f[n] /\ f[0] = <<>> /\ \A i \in 1..n : f[i] = SanitizeMessage(ms, f[i - 1], i)
  BY <1>1, <1>2 DEF Sanitizes
<1>4. PICK S, P : S = Seq(Clean(Id)) /\ P = {i \in 0..n : f[i] \in S}
  OBVIOUS
<1>5. \A i \in 0..n : f[i] \in S
  <2>1. 0 \in P
    <3>1. \A T : <<>> \in Seq(T)
      OBVIOUS
    <3>2. f[0] \in S /\ 0 \in 0..n
      BY <1>2, <1>3, <1>4, <3>1
    <3>3. QED BY <1>4, <3>2
  <2>2. ASSUME NEW i \in 1..n, i - 1 \in P PROVE i \in P
    <3>1. f[i - 1] \in Seq(Clean(Id)) /\ i \in 1..Len(ms) /\ i \in 0..n
      BY <1>2, <1>4, <2>2
    <3>2. SanitizeMessage(ms, f[i - 1], i) \in Seq(Clean(Id))
      BY <3>1, SanitizeType
    <3>3. QED BY <1>3, <1>4, <3>1, <3>2
  <2>3. ASSUME NEW k \in 0..n PROVE k \in P
    BY ONLY <1>2, <2>1, <2>2, k \in 0..n, Induction
  <2>4. QED BY <1>4, <2>3
<1>6. \A i \in 0..n : f[i] \in Seq(Messages(Id))
  BY <1>4, <1>5, CleanMessages
<1>7. ASSUME NEW i \in 1..n PROVE AllIds(f[i], types) = AllIds(f[i - 1], types) \o IdsOf(ms[i].blocks, types)
  <2>1. i \in 1..Len(ms) /\ i - 1 \in 0..n
    BY <1>2
  <2>2. f[i - 1] \in Seq(Clean(Id))
    BY <1>4, <1>5, <2>1
  <2>3. AllIds(SanitizeMessage(ms, f[i - 1], i), types) = AllIds(f[i - 1], types) \o IdsOf(ms[i].blocks, types)
    BY ONLY ms \in Seq(Clean(Id)), Lasting(types), <2>1, <2>2, SanitizeMessageIds
  <2>4. QED BY <1>3, <2>3
<1>8. ms \in Seq(Messages(Id))
  BY CleanMessages
<1>9. AllIds(f[Len(ms)], types) = AllIds(ms, types)
  BY <1>2, <1>3, <1>6, <1>7, <1>8, StagesKeep
<1>10. QED BY <1>2, <1>3, <1>9

LEMMA MergeMessageIds ==
  ASSUME NEW Id, NEW m \in Messages(Id), NEW out \in Seq(Messages(Id)), NEW types, Lasting(types)
  PROVE  AllIds(MergeMessage(out, m), types) = AllIds(out, types) \o IdsOf(m.blocks, types)
<1>1. PICK S, f, new, X : S = Messages(Id) /\ f = Msg("assistant", <<Filler>>) /\ new = MergeMessage(out, m) /\ X = Id \cup {<<>>}
  OBVIOUS
<1>2. out \in Seq(S) /\ m \in S /\ f \in S
  BY <1>1, FillerMessage DEF Clean
<1>3. CASE new = Append(out, m)
  <2>1. AllIds(Append(out, m), types) = AllIds(out, types) \o IdsOf(m.blocks, types)
    BY AllAppend
  <2>2. QED BY <1>1, <1>3, <2>1
<1>4. CASE new = out \o <<f, m>>
  <2>1. PICK mid : mid = Append(out, f)
    OBVIOUS
  <2>2. mid \in Seq(Messages(Id)) /\ new = Append(mid, m)
    <3>1. mid \in Seq(S) /\ new = Append(mid, m)
      BY <1>2, <1>4, <2>1
    <3>2. QED BY <1>1, <3>1
  <2>3. f \in Messages(Id) /\ IdsOf(f.blocks, types) = <<>>
    BY <1>1, <1>2, IdsFiller DEF Msg, Lasting
  <2>4. AllIds(Append(out, f), types) = AllIds(out, types) \o IdsOf(f.blocks, types)
    BY <2>3, AllAppend
  <2>5. AllIds(out, types) \o <<>> = AllIds(out, types)
    BY AllType
  <2>6. AllIds(Append(mid, m), types) = AllIds(mid, types) \o IdsOf(m.blocks, types)
    BY <2>2, AllAppend
  <2>7. QED BY <1>1, <2>1, <2>2, <2>3, <2>4, <2>5, <2>6
<1>5. CASE out # <<>> /\ new = Append(Front(out), Msg(m.role, Last(out).blocks \o m.blocks))
  <2>1. PICK front, last, x : front = Front(out) /\ last = Last(out) /\ x = Msg(m.role, last.blocks \o m.blocks)
    OBVIOUS
  <2>2. front \in Seq(S) /\ last \in S /\ out = Append(front, last)
    <3>1. PICK n : n = Len(out) /\ n \in Nat /\ n # 0
      BY <1>2, <1>5
    <3>2. last = out[n] /\ front = SubSeq(out, 1, n - 1)
      BY <2>1, <3>1 DEF Last, Front
    <3>3. QED BY <1>2, <3>1, <3>2
  <2>3. last.blocks \in Seq(Blocks(Id)) /\ m.blocks \in Seq(Blocks(Id)) /\ m.role \in {"user", "assistant"}
    BY <1>1, <1>2, <2>2 DEF Messages
  <2>4. PICK bs : bs = last.blocks \o m.blocks
    OBVIOUS
  <2>5. bs \in Seq(Blocks(Id)) /\ IdsOf(bs, types) = IdsOf(last.blocks, types) \o IdsOf(m.blocks, types)
    BY <2>3, <2>4, IdsConcat
  <2>6. x \in Messages(Id) /\ x.blocks = bs
    BY <1>1, <2>1, <2>3, <2>4, <2>5, MsgIs
  <2>7. AllIds(Append(front, last), types) = AllIds(front, types) \o IdsOf(last.blocks, types)
    BY <1>1, <2>2, AllAppend
  <2>8. AllIds(Append(front, x), types) = AllIds(front, types) \o IdsOf(x.blocks, types)
    BY <1>1, <2>2, <2>6, AllAppend
  <2>9. PICK a, b, c : a = AllIds(front, types) /\ b = IdsOf(last.blocks, types) /\ c = IdsOf(m.blocks, types)
    OBVIOUS
  <2>10. a \in Seq(X) /\ b \in Seq(X) /\ c \in Seq(X)
    BY <1>1, <2>2, <2>3, <2>9, AllType, IdsThrough
  <2>11. (a \o b) \o c = a \o (b \o c)
    BY <2>10, ConcatFacts
  <2>12. new = Append(front, x) /\ out = Append(front, last)
    BY <1>5, <2>1, <2>2
  <2>13. QED BY <1>1, <2>5, <2>6, <2>7, <2>8, <2>9, <2>11, <2>12
<1>6. QED BY <1>1, <1>3, <1>4, <1>5 DEF MergeMessage

LEMMA MergeKeeps ==
  ASSUME NEW Id, NEW ms \in Seq(Clean(Id)), NEW types, Lasting(types)
  PROVE  AllIds(MergeConsecutiveRoles(ms), types) = AllIds(ms, types)
<1>1. PICK f : Merges(f, ms)
  BY MergeSteps
<1>2. PICK n : n = Len(ms) /\ n \in Nat
  OBVIOUS
<1>3. MergeConsecutiveRoles(ms) = f[n] /\ f[0] = <<>> /\ \A i \in 1..n : f[i] = MergeMessage(f[i - 1], ms[i])
  BY <1>1, <1>2 DEF Merges
<1>4. ms \in Seq(Messages(Id)) /\ \A i \in 1..n : ms[i] \in Messages(Id)
  <2>1. ms \in Seq(Messages(Id))
    BY CleanMessages
  <2>2. QED BY <1>2, <2>1
<1>5. PICK S, P : S = Seq(Messages(Id)) /\ P = {i \in 0..n : f[i] \in S}
  OBVIOUS
<1>6. \A i \in 0..n : f[i] \in Seq(Messages(Id))
  <2>1. 0 \in P
    <3>1. \A T : <<>> \in Seq(T)
      OBVIOUS
    <3>2. f[0] \in S /\ 0 \in 0..n
      BY <1>2, <1>3, <1>5, <3>1
    <3>3. QED BY <1>5, <3>2
  <2>2. ASSUME NEW i \in 1..n, i - 1 \in P PROVE i \in P
    <3>1. f[i - 1] \in Seq(Messages(Id)) /\ ms[i] \in Messages(Id) /\ i \in 0..n
      BY <1>2, <1>4, <1>5, <2>2
    <3>2. MergeMessage(f[i - 1], ms[i]) \in Seq(Messages(Id))
      BY <3>1, MergeType
    <3>3. QED BY <1>3, <1>5, <3>1, <3>2
  <2>3. ASSUME NEW k \in 0..n PROVE k \in P
    BY ONLY <1>2, <2>1, <2>2, k \in 0..n, Induction
  <2>4. QED BY <1>5, <2>3
<1>7. ASSUME NEW i \in 1..n PROVE AllIds(f[i], types) = AllIds(f[i - 1], types) \o IdsOf(ms[i].blocks, types)
  <2>1. i - 1 \in 0..n
    BY <1>2
  <2>2. f[i - 1] \in Seq(Messages(Id)) /\ ms[i] \in Messages(Id)
    BY <1>4, <1>6, <2>1
  <2>3. QED BY <1>3, <2>2, MergeMessageIds
<1>8. AllIds(f[Len(ms)], types) = AllIds(ms, types)
  BY <1>2, <1>3, <1>4, <1>6, <1>7, StagesKeep
<1>9. QED BY <1>2, <1>3, <1>8

LEMMA RowOfOne ==
  ASSUME NEW S, NEW a \in S PROVE <<a>> \in Seq(S) /\ <<a>> # <<>> /\ ToSet(<<a>>) = {a}
<1>1. PICK s : s = <<a>>
  OBVIOUS
<1>2. s \in Seq(S) /\ s # <<>>
  BY <1>1
<1>3. QED BY <1>1, <1>2, SingleBlock

LEMMA SeedKeeps ==
  ASSUME NEW Id, NEW ms, Good(Id, ms), NEW types, Lasting(types)
  PROVE  AllIds(WithSeedSummary(ms), types) = AllIds(ms, types)
<1>1. PICK ns, fs : ns = WithSeedSummary(ms) /\ fs = <<Filler>>
  OBVIOUS
<1>2. Good(Id, ns) /\ Likes(ns, ms) /\ \A i \in 1..Len(ms) : ns[i].blocks \in {ms[i].blocks, fs \o ms[i].blocks}
  BY <1>1, SeedGood
<1>3. ms \in Seq(Messages(Id)) /\ ns \in Seq(Messages(Id)) /\ Len(ns) = Len(ms)
  BY <1>2, CleanMessages DEF Good, Likes
<1>4. fs \in Seq(Blocks(Id)) /\ IdsOf(fs, types) = <<>>
  <2>1. Filler \in Blocks(Id) /\ "filler" \notin types
    BY FillerBlock DEF Lasting
  <2>2. QED BY <1>1, <2>1, RowOfOne, IdsFiller
<1>5. ASSUME NEW i \in 1..Len(ns) PROVE IdsOf(ns[i].blocks, types) = IdsOf(ms[i].blocks, types)
  <2>1. ms[i] \in Messages(Id) /\ i \in 1..Len(ms)
    BY <1>3
  <2>2. PICK bs : bs = ms[i].blocks /\ bs \in Seq(Blocks(Id))
    BY <2>1 DEF Messages
  <2>3. IdsOf(fs \o bs, types) = IdsOf(fs, types) \o IdsOf(bs, types)
    <3>1. \A u \in Seq(Blocks(Id)), v \in Seq(Blocks(Id)) : IdsOf(u \o v, types) = IdsOf(u, types) \o IdsOf(v, types)
      BY IdsConcat
    <3>2. QED BY <1>4, <2>2, <3>1
  <2>4. <<>> \o IdsOf(bs, types) = IdsOf(bs, types)
    BY <2>2, IdsThrough
  <2>5. ns[i].blocks \in {bs, fs \o bs}
    BY <1>2, <2>1, <2>2
  <2>6. QED BY <1>4, <2>2, <2>3, <2>4, <2>5
<1>6. AllIds(ns, types) = AllIds(ms, types)
  BY <1>3, <1>5, AllSame
<1>7. QED BY <1>1, <1>6

(* What happens to a text or to a file pointer does not depend on the rows *)
(* around it: all that the last compaction leaves reach the model, in order *)
(* (rehydrateDataRoomRefs, sanitizeToolPairs, mergeConsecutiveRoles).      *)
THEOREM NothingIsLost ==
  ASSUME NEW Id, NEW S, StoredRows(Id, S), S \subseteq Messages(Id), \A m \in S : Unswapped(m),
         NEW rs \in Seq(S), Framed(rs), NEW loadable, NEW summed \in BOOLEAN,
         NEW types, NEW others, Becomes(types, others)
  PROVE  AllIds(History(rs, loadable, summed), others) = AllIds(TrimToLastCompaction(rs), types)
<1>1. PICK a, b, c, d, e :
        /\ a = TrimToLastCompaction(rs) /\ b = RehydrateDataRoomRefs(a, loadable)
        /\ c = DropOrphanServerToolResults(b) /\ d = SanitizeToolPairs(c) /\ e = MergeConsecutiveRoles(d)
  OBVIOUS
<1>2. Lasting(others)
  BY DEF Becomes, Lasting
<1>3. a \in Seq(S) /\ Framed(a)
  BY <1>1, TrimFramed
<1>4. b \in Seq(Bare(Id)) /\ Likes(b, a)
  BY <1>1, <1>3, RehydrateBare
<1>5. c \in Seq(Clean(Id)) /\ Likes(c, b)
  BY <1>1, <1>4, DropClean
<1>6. Framed(c)
  BY <1>3, <1>4, <1>5, LikesFramed
<1>7. /\ d \in Seq(Clean(Id)) /\ Pairs(d) /\ d # <<>> /\ d[1].role = "user" /\ Loose(d[Len(d)])
  BY <1>1, <1>5, <1>6, SanitizeFramed
<1>8. Good(Id, e)
  BY <1>1, <1>7, MergeGood DEF Loose
<1>9. AllIds(b, others) = AllIds(a, types)
  BY <1>1, <1>3, RehydrateKeeps
<1>10. AllIds(c, others) = AllIds(b, others)
  BY <1>1, <1>2, <1>4, DropKeeps
<1>11. AllIds(d, others) = AllIds(c, others)
  BY <1>1, <1>2, <1>5, SanitizeKeeps
<1>12. AllIds(e, others) = AllIds(d, others)
  BY <1>1, <1>2, <1>7, MergeKeeps
<1>13. AllIds(WithSeedSummary(e), others) = AllIds(e, others)
  BY <1>2, <1>8, SeedKeeps
<1>14. History(rs, loadable, summed) = IF summed THEN WithSeedSummary(e) ELSE e
  BY <1>1 DEF History
<1>15. QED BY <1>1, <1>9, <1>10, <1>11, <1>12, <1>13, <1>14

-----------------------------------------------------------------------------
(* Every history of Growth is one of stored rows that begins with a prompt. *)

HistoryId ==
  {<<n>> : n \in Nat} \cup {<<p[1], p[2]>> : p \in Nat \X Nat} \cup {<<f>> : f \in Files}
HistoryRows == {m \in Messages(HistoryId) : IsRow(HistoryId, m) /\ Unswapped(m)}

Grown ==
  /\ history \in Seq(HistoryRows) /\ history # <<>> /\ Loose(history[1])
  /\ seeded \in BOOLEAN

LEMMA IdsAreThere ==
  /\ \A n \in Nat : <<n>> \in HistoryId
  /\ \A n \in Nat, k \in Nat : <<n, k>> \in HistoryId
  /\ \A f \in Files : <<f>> \in HistoryId
<1>1. ASSUME NEW n \in Nat, NEW k \in Nat PROVE <<n, k>> \in {<<p[1], p[2]>> : p \in Nat \X Nat}
  <2>1. <<n, k>> \in Nat \X Nat /\ <<n, k>>[1] = n /\ <<n, k>>[2] = k
    OBVIOUS
  <2>2. QED BY <2>1
<1>2. QED BY <1>1, Zenon DEF HistoryId

LEMMA RowIs ==
  ASSUME NEW role \in {"user", "assistant"}, NEW bs, bs \in Seq(Blocks(HistoryId)), NEW B, ToSet(bs) = B,
         bs # <<>>, \E b \in B : b.type # "srvResult", \A b \in B : b.type \notin {"file", "stub"},
         role = "assistant" => \A b \in B : b.type \notin {"result", "readRef", "uploadRef"},
         role = "user" => \A b \in B : b.type # "use",
         \/ \A b \in B : b.type = "result"
         \/ \A b \in B : b.type # "result"
  PROVE  /\ Msg(role, bs) \in HistoryRows
         /\ role = "user" /\ (\A b \in B : b.type # "result") => Loose(Msg(role, bs))
<1>1. PICK m : m = Msg(role, bs)
  OBVIOUS
<1>2. m \in Messages(HistoryId) /\ m.role = role /\ m.blocks = bs
  BY <1>1, MsgIs
<1>3. Shape(m)
  BY <1>2 DEF Shape, UsesOf, ResultsOf, Ids, NoRefs, IsRef, Only
<1>4. IsRow(HistoryId, m)
  BY <1>2, <1>3 DEF IsRow
<1>5. role = "user" /\ (\A b \in B : b.type # "result") => Loose(m)
  BY <1>2 DEF Loose, ResultsOf, Ids
<1>6. Unswapped(m)
  BY <1>2 DEF Unswapped
<1>7. QED BY <1>1, <1>2, <1>4, <1>5, <1>6 DEF HistoryRows

\* Short rows, as sequences and as sets.
LEMMA RowOfTwo ==
  ASSUME NEW S, NEW a \in S, NEW b \in S
  PROVE  <<a, b>> \in Seq(S) /\ <<a, b>> # <<>> /\ ToSet(<<a, b>>) = {a, b}
<1>1. PICK s : s = <<a, b>>
  OBVIOUS
<1>2. DOMAIN s = {1, 2} /\ s[1] = a /\ s[2] = b /\ s \in Seq(S) /\ s # <<>>
  BY <1>1
<1>3. ToSet(s) = {a, b}
  BY <1>2 DEF ToSet
<1>4. QED BY <1>1, <1>2, <1>3

LEMMA RowOfThree ==
  ASSUME NEW S, NEW a \in S, NEW b \in S, NEW c \in S
  PROVE  <<a, b, c>> \in Seq(S) /\ <<a, b, c>> # <<>> /\ ToSet(<<a, b, c>>) = {a, b, c}
<1>1. PICK s : s = <<a, b, c>>
  OBVIOUS
<1>2. DOMAIN s = {1, 2, 3} /\ s[1] = a /\ s[2] = b /\ s[3] = c /\ s \in Seq(S) /\ s # <<>>
  BY <1>1
<1>3. ToSet(s) = {a, b, c}
  BY <1>2 DEF ToSet
<1>4. QED BY <1>1, <1>2, <1>3

LEMMA PromptRowIs ==
  ASSUME NEW n \in Nat, NEW bs \in PromptBlocks(Block("text", <<n>>))
  PROVE  Msg("user", bs) \in HistoryRows /\ Loose(Msg("user", bs))
<1>1. PICK t : t = Block("text", <<n>>)
  OBVIOUS
<1>2. t \in Blocks(HistoryId) /\ t.type = "text"
  BY <1>1, IdsAreThere, BlockIs DEF BlockType
<1>3. CASE bs = <<t>>
  <2>1. bs \in Seq(Blocks(HistoryId)) /\ bs # <<>> /\ ToSet(bs) = {t}
    BY <1>2, <1>3, RowOfOne
  <2>2. QED BY <1>2, <2>1, RowIs
<1>4. CASE \E f \in Files : bs = <<UploadRef(f), t>>
  <2>1. PICK f \in Files : bs = <<UploadRef(f), t>>
    BY <1>4
  <2>0. PICK u : u = UploadRef(f)
    OBVIOUS
  <2>2. u \in Blocks(HistoryId) /\ u.type = "uploadRef"
    BY <2>0, IdsAreThere, BlockIs DEF BlockType, UploadRef
  <2>3. bs \in Seq(Blocks(HistoryId)) /\ bs # <<>> /\ ToSet(bs) = {u, t}
    BY <1>2, <2>0, <2>1, <2>2, RowOfTwo
  <2>4. QED BY <1>2, <2>2, <2>3, RowIs
<1>5. QED BY <1>1, <1>3, <1>4 DEF PromptBlocks

LEMMA AssistantRowIs ==
  ASSUME history \in Seq(HistoryRows), NEW bs \in AssistantBlocks PROVE Msg("assistant", bs) \in HistoryRows
<1>1. PICK n : n = Fresh /\ n \in Nat
  BY DEF Fresh
<1>2. PICK S : S = Blocks(HistoryId)
  OBVIOUS
<1>3. PICK t, u, v, c, d, x, y :
        /\ t = Text /\ u = Use(1) /\ v = Use(2) /\ c = Block("compaction", <<>>) /\ d = Block("nullCompaction", <<>>)
        /\ x = Srv("srvUse") /\ y = Srv("srvResult")
  OBVIOUS
<1>4. /\ t \in S /\ t.type = "text" /\ u \in S /\ u.type = "use" /\ v \in S /\ v.type = "use"
      /\ x \in S /\ x.type = "srvUse" /\ y \in S /\ y.type = "srvResult"
  <2>1. <<n>> \in HistoryId /\ <<n, 1>> \in HistoryId /\ <<n, 2>> \in HistoryId
    BY <1>1, IdsAreThere
  <2>2. t = Block("text", <<n>>) /\ u = Block("use", <<n, 1>>) /\ v = Block("use", <<n, 2>>)
        /\ x = Block("srvUse", <<n>>) /\ y = Block("srvResult", <<n>>)
    BY <1>1, <1>3 DEF Text, Use, Srv
  <2>3. QED BY <1>2, <2>1, <2>2, BlockIs DEF BlockType
<1>5. c \in S /\ c.type = "compaction" /\ d \in S /\ d.type = "nullCompaction"
  BY <1>2, <1>3, BlockIs DEF BlockType
<1>6. bs \in {<<t>>, <<u>>, <<t, u, v>>, <<c, t>>, <<c, u>>, <<d>>, <<x, y, t>>, <<y, t>>}
  BY <1>3 DEF AssistantBlocks
<1>7. bs \in Seq(S) /\ bs # <<>>
  <2>1. CASE bs \in {<<t>>, <<u>>, <<d>>}
    BY <1>4, <1>5, <2>1, RowOfOne
  <2>2. \A a \in S, b \in S : <<a, b>> \in Seq(S) /\ <<a, b>> # <<>>
    BY ONLY RowOfTwo
  <2>3. \A a \in S, b \in S, e \in S : <<a, b, e>> \in Seq(S) /\ <<a, b, e>> # <<>>
    BY ONLY RowOfThree
  <2>4. CASE bs \in {<<c, t>>, <<c, u>>, <<y, t>>}
    BY <1>4, <1>5, <2>2, <2>4
  <2>5. CASE bs \in {<<t, u, v>>, <<x, y, t>>}
    BY <1>4, <1>5, <2>3, <2>5
  <2>6. QED BY <1>6, <2>1, <2>4, <2>5
<1>8. ToSet(bs) \in {{t}, {u}, {t, u, v}, {c, t}, {c, u}, {d}, {x, y, t}, {y, t}}
  BY <1>4, <1>5, <1>6, RowOfOne, RowOfTwo, RowOfThree
<1>9. \A b \in ToSet(bs) : b.type \notin {"result", "readRef", "uploadRef", "file", "stub"}
  BY <1>4, <1>5, <1>8
<1>10. \E b \in ToSet(bs) : b.type # "srvResult"
  BY <1>4, <1>5, <1>8
<1>11. QED BY <1>2, <1>7, <1>9, <1>10, RowIs

\* The blocks of a row are finitely many.
LEMMA ImageFinite ==
  ASSUME NEW S, NEW f, f = [x \in S |-> f[x]], IsFiniteSet(S) PROVE IsFiniteSet({f[x] : x \in S})
<1>1. f \in Surjection(S, {f[x] : x \in S})
  BY DEF Surjection
<1>2. QED BY <1>1, FS_Surjection

LEMMA IdsFinite ==
  ASSUME NEW S, NEW m, m.blocks \in Seq(S), NEW type PROVE IsFiniteSet(Ids(m, type))
<1>1. PICK s, n : s = m.blocks /\ n = Len(s) /\ n \in Nat /\ s \in Seq(S) /\ DOMAIN s = 1..n /\ s = [i \in 1..n |-> s[i]]
  OBVIOUS
<1>2. IsFiniteSet(1..n)
  BY <1>1, FS_Interval
<1>3. IsFiniteSet({s[i] : i \in 1..n})
  BY <1>1, <1>2, ImageFinite
<1>4. PICK T : T = {c \in ToSet(s) : c.type = type}
  OBVIOUS
<1>5. IsFiniteSet(T)
  <2>1. ToSet(s) = {s[i] : i \in 1..n}
    BY <1>1 DEF ToSet
  <2>2. T \in SUBSET ToSet(s)
    BY <1>4
  <2>3. QED BY <1>3, <2>1, <2>2, FS_Subset
<1>6. PICK f : f = [b \in T |-> b.id]
  OBVIOUS
<1>7. IsFiniteSet({f[b] : b \in T})
  BY <1>5, <1>6, ImageFinite
<1>8. Ids(m, type) = {f[b] : b \in T}
  BY <1>1, <1>4, <1>6 DEF Ids
<1>9. QED BY <1>7, <1>8

\* A finite set that is not empty, as a sequence.
LEMMA SetToSeqFacts ==
  ASSUME NEW S, IsFiniteSet(S), S # {}
  PROVE  SetToSeq(S) \in Seq(S) /\ SetToSeq(S) # <<>>
<1>1. PICK n : n = Cardinality(S) /\ n \in Nat /\ n # 0
  BY FS_CardinalityType, FS_EmptySet
<1>2. PICK f : f \in Bijection(1..n, S)
  BY <1>1, FS_CardinalityType DEF ExistsBijection
<1>3. f \in [1..n -> S] /\ IsInjective(f)
  BY <1>2 DEF Bijection, Injection
<1>4. PICK s : s = SetToSeq(S)
  OBVIOUS
<1>5. s \in [1..n -> S]
  BY <1>1, <1>3, <1>4 DEF SetToSeq
<1>6. s \in Seq(S) /\ Len(s) = n
  BY <1>1, <1>5
<1>7. s # <<>>
  BY <1>1, <1>6
<1>8. QED BY <1>4, <1>6, <1>7

LEMMA ResultRowIs ==
  ASSUME history \in Seq(HistoryRows), NEW bs \in ResultBlocks
  PROVE  Msg("user", bs) \in HistoryRows /\ \A b \in ToSet(bs) : b.type = "result"
<1>1. PICK i \in DOMAIN history : \E ids \in (SUBSET Ids(history[i], "use")) \ {{}} : bs = SetToSeq({Block("result", id) : id \in ids})
  BY DEF ResultBlocks
<1>2. PICK ids \in SUBSET Ids(history[i], "use") : ids # {} /\ bs = SetToSeq({Block("result", id) : id \in ids})
  BY <1>1
<1>3. PICK m : m = history[i]
  OBVIOUS
<1>4. m.blocks \in Seq(Blocks(HistoryId))
  BY <1>3 DEF HistoryRows, IsRow
<1>5. IsFiniteSet(ids)
  <2>1. IsFiniteSet(Ids(m, "use"))
    BY <1>4, IdsFinite
  <2>2. QED BY <1>2, <1>3, <2>1, FS_Subset
<1>6. PICK f : f = [id \in ids |-> Block("result", id)]
  OBVIOUS
<1>7. PICK B : B = {f[id] : id \in ids}
  OBVIOUS
<1>8. bs = SetToSeq(B)
  <2>1. {Block("result", id) : id \in ids} = B
    BY <1>6, <1>7
  <2>2. QED BY <1>2, <2>1
<1>9. IsFiniteSet(B) /\ B # {}
  BY <1>2, <1>5, <1>6, <1>7, ImageFinite
<1>10. bs \in Seq(B) /\ bs # <<>>
  BY <1>8, <1>9, SetToSeqFacts
<1>11. B \subseteq Blocks(HistoryId) /\ \A b \in B : b.type = "result"
  <2>1. ASSUME NEW id \in ids PROVE id \in HistoryId \cup {<<>>}
    <3>1. PICK b \in ToSet(m.blocks) : id = b.id
      BY <1>2, <1>3 DEF Ids
    <3>2. b \in Blocks(HistoryId)
      BY <1>4, InToSet
    <3>3. QED BY <3>1, <3>2 DEF Blocks
  <2>2. ASSUME NEW id \in ids PROVE f[id] \in Blocks(HistoryId) /\ f[id].type = "result"
    BY <1>6, <2>1, BlockIs DEF BlockType
  <2>3. QED BY <1>7, <2>2
<1>12. bs \in Seq(Blocks(HistoryId)) /\ \A b \in ToSet(bs) : b.type = "result"
  <2>1. \A b \in ToSet(bs) : b \in B
    BY <1>10, InToSet
  <2>2. bs \in Seq(Blocks(HistoryId))
    BY <1>10, <1>11
  <2>3. QED BY <1>11, <2>1, <2>2
<1>13. ToSet(bs) # {}
  BY <1>10, EmptyToSet
<1>14. QED BY <1>10, <1>12, <1>13, RowIs

LEMMA UserRowIs ==
  ASSUME history \in Seq(HistoryRows), NEW bs \in UserBlocks PROVE Msg("user", bs) \in HistoryRows
<1>1. CASE bs \in PromptBlocks(Text)
  <2>1. PICK n \in Nat : Text = Block("text", <<n>>)
    BY DEF Text, Fresh
  <2>2. QED BY <1>1, <2>1, PromptRowIs
<1>2. CASE bs \in ResultBlocks
  BY <1>2, ResultRowIs
<1>3. CASE bs \in {<<ReadRef(f)>> : f \in Files}
  <2>1. PICK f \in Files : bs = <<ReadRef(f)>>
    BY <1>3
  <2>2. PICK u : u = ReadRef(f)
    OBVIOUS
  <2>3. u \in Blocks(HistoryId) /\ u.type = "readRef"
    BY <2>2, IdsAreThere, BlockIs DEF BlockType, ReadRef
  <2>4. bs \in Seq(Blocks(HistoryId)) /\ bs # <<>> /\ ToSet(bs) = {u}
    BY <2>1, <2>2, <2>3, RowOfOne
  <2>5. QED BY <2>3, <2>4, RowIs
<1>4. QED BY <1>1, <1>2, <1>3 DEF UserBlocks

LEMMA InitGrown == FirstRow => Grown
<1> SUFFICES ASSUME FirstRow PROVE Grown
  OBVIOUS
<1>1. PICK bs \in PromptBlocks(Block("text", <<1>>)) : history = <<Msg("user", bs)>>
  BY DEF FirstRow
<1>2. PICK m : m = Msg("user", bs)
  OBVIOUS
<1>3. m \in HistoryRows /\ Loose(m)
  BY <1>2, PromptRowIs
<1>4. history \in Seq(HistoryRows) /\ history # <<>> /\ history[1] = m
  BY <1>1, <1>2, <1>3, RowOfOne
<1>5. QED BY <1>3, <1>4 DEF Grown, FirstRow

LEMMA NextGrown == Grown /\ [NextRow]_historyVars => Grown'
<1> SUFFICES ASSUME Grown, [NextRow]_historyVars PROVE Grown'
  OBVIOUS
<1>1. CASE UNCHANGED historyVars
  BY <1>1 DEF Grown, historyVars
<1>2. CASE NextRow
  <2>1. PICK m \in HistoryRows : history' = Append(history, m)
    <3>1. CASE Store("assistant", AssistantBlocks)
      BY <3>1, AssistantRowIs DEF Store, Grown
    <3>2. CASE Store("user", UserBlocks)
      BY <3>2, UserRowIs DEF Store, Grown
    <3>3. QED BY <1>2, <3>1, <3>2 DEF NextRow
  <2>2. history' \in Seq(HistoryRows) /\ history' # <<>> /\ history'[1] = history[1]
    <3>1. history \in Seq(HistoryRows) /\ history # <<>>
      BY DEF Grown
    <3>2. PICK s, t : s = history /\ t = history'
      OBVIOUS
    <3>3. Len(s) # 0 /\ Len(t) = Len(s) + 1 /\ t \in Seq(HistoryRows) /\ t[1] = s[1]
      BY <2>1, <3>1, <3>2
    <3>4. t # <<>>
      BY <3>1, <3>2, <3>3
    <3>5. QED BY <3>2, <3>3, <3>4
  <2>3. QED BY <1>2, <2>2 DEF Grown, NextRow
<1>3. QED BY <1>1, <1>2

\* With the run's prompt, such a history is one that the lemmas above are about.
LEMMA AskedFramed ==
  ASSUME Grown PROVE Asked \in Seq(HistoryRows) /\ Framed(Asked) /\ StoredRows(HistoryId, HistoryRows)
<1>1. PICK bs, m, s : bs = <<Text>> /\ m = Msg("user", bs) /\ s = history
  OBVIOUS
<1>2. m \in HistoryRows /\ Loose(m)
  <2>1. PICK n \in Nat : Text = Block("text", <<n>>)
    BY DEF Text, Fresh, Grown
  <2>2. bs \in PromptBlocks(Text)
    BY <1>1 DEF PromptBlocks
  <2>3. QED BY <1>1, <2>1, <2>2, PromptRowIs
<1>3. PICK t : t = Append(s, m)
  OBVIOUS
<1>4. s \in Seq(HistoryRows) /\ s # <<>> /\ Loose(s[1])
  BY <1>1 DEF Grown
<1>5. t \in Seq(HistoryRows) /\ Len(t) = Len(s) + 1 /\ t[1] = s[1] /\ t[Len(t)] = m /\ Len(s) # 0 /\ Len(s) \in Nat
  BY <1>2, <1>3, <1>4
<1>6. Framed(t)
  <2>1. t # <<>>
    BY <1>5
  <2>2. QED BY <1>2, <1>4, <1>5, <2>1 DEF Framed
<1>7. Asked = t
  BY <1>1, <1>3 DEF Asked
<1>8. StoredRows(HistoryId, HistoryRows)
  <2>1. PICK f, fs : fs = <<Filler>> /\ f = Msg("user", fs)
    OBVIOUS
  <2>2. Filler \in Blocks(HistoryId) /\ Filler.type = "filler"
    BY FillerBlock
  <2>3. fs \in Seq(Blocks(HistoryId)) /\ fs # <<>> /\ ToSet(fs) = {Filler}
    BY <2>1, <2>2, RowOfOne
  <2>4. f \in HistoryRows
    BY <2>1, <2>2, <2>3, RowIs
  <2>5. QED BY <2>1, <2>4 DEF StoredRows, HistoryRows
<1>9. QED BY <1>5, <1>6, <1>7, <1>8

LEMMA GrownAccepted == Grown => RequestAccepted
<1> SUFFICES ASSUME Grown PROVE RequestAccepted
  OBVIOUS
<1>1. PICK rs, S, Id : rs = Asked /\ S = HistoryRows /\ Id = HistoryId
  OBVIOUS
<1>2. StoredRows(Id, S) /\ rs \in Seq(S) /\ Framed(rs)
  BY <1>1, AskedFramed
<1>3. seeded \in BOOLEAN
  BY DEF Grown
<1>4. Good(Id, History(rs, readable, seeded))
  BY ONLY <1>2, <1>3, HistoryGood
<1>5. Good(Id, Loaded)
  BY <1>1, <1>4 DEF Loaded
<1>6. \A writeUp \in BOOLEAN : WellFormed(Request(Loaded, writeUp))
  BY <1>5, GoodRequest
<1>7. QED BY <1>6 DEF RequestAccepted

(* Whatever was stored, and in whatever order, after a first prompt, the    *)
(* next turn sends a request the API accepts, and so does its write-up      *)
(* (runTurn, shapeMessages).                                               *)
THEOREM AllGrowthAccepted == Growth => []RequestAccepted
<1>1. Growth => []Grown
  BY InitGrown, NextGrown, PTL DEF Growth
<1>2. QED BY <1>1, GrownAccepted, PTL

LEMMA GrownKeeps == Grown => WholeRoundsKept
<1> SUFFICES ASSUME Grown PROVE WholeRoundsKept
  OBVIOUS
<1>1. PICK rs, S, Id : rs = Asked /\ S = HistoryRows /\ Id = HistoryId
  OBVIOUS
<1>2. StoredRows(Id, S) /\ rs \in Seq(S) /\ Framed(rs) /\ seeded \in BOOLEAN
  BY <1>1, AskedFramed DEF Grown
<1>3. SUFFICES ASSUME NEW i \in 1..(Len(rs) - 1), i >= LastCompactionIndex(rs), rs[i + 1].role = "user",
                      NEW id \in Ids(rs[i], "use") \cap Ids(rs[i + 1], "result")
               PROVE  \E m \in ToSet(Loaded) : id \in Ids(m, "use")
  BY <1>1 DEF WholeRoundsKept
<1>4. id \in UsesOf(rs[i]) /\ id \in ResultsOf(rs[i + 1])
  BY <1>3 DEF UsesOf, ResultsOf
<1>5. id \in UsesIn(History(rs, readable, seeded))
  BY ONLY <1>2, <1>3, <1>4, HistoryKeepsUse
<1>6. id \in UsesIn(Loaded)
  BY <1>1, <1>5 DEF Loaded
<1>7. QED BY <1>6 DEF UsesIn, UsesOf, ToSet

(* No use and result that stand next to each other in the rows are lost on  *)
(* the way to the model, whatever stands around them (sanitizeToolPairs).   *)
THEOREM AllRoundsKept == Growth => []WholeRoundsKept
<1>1. Growth => []Grown
  BY InitGrown, NextGrown, PTL DEF Growth
<1>2. QED BY <1>1, GrownKeeps, PTL

LEMMA GrownNothingLost == Grown => NothingLost
<1> SUFFICES ASSUME Grown PROVE NothingLost
  OBVIOUS
<1>1. PICK rs, S, Id : rs = Asked /\ S = HistoryRows /\ Id = HistoryId
  OBVIOUS
<1>2. StoredRows(Id, S) /\ rs \in Seq(S) /\ Framed(rs) /\ seeded \in BOOLEAN
  BY <1>1, AskedFramed DEF Grown
<1>3. S \subseteq Messages(Id) /\ \A m \in S : Unswapped(m)
  BY <1>1 DEF HistoryRows
<1>4. ASSUME NEW types, NEW others, Becomes(types, others)
      PROVE  AllIds(Loaded, others) = AllIds(TrimToLastCompaction(Asked), types)
  <2>1. AllIds(History(rs, readable, seeded), others) = AllIds(TrimToLastCompaction(rs), types)
    BY ONLY <1>2, <1>3, <1>4, NothingIsLost
  <2>2. QED BY <1>1, <2>1 DEF Loaded
<1>5. Becomes({"text"}, {"text"}) /\ Becomes({"readRef", "uploadRef"}, {"file", "stub"})
  BY DEF Becomes
<1>6. QED BY <1>4, <1>5 DEF NothingLost

(* However a history has grown, repairing it for the API loses no text and *)
(* no file of it after the last compaction, and puts none in another place  *)
(* (runTurn).                                                               *)
THEOREM AllKept == Growth => []NothingLost
<1>1. Growth => []Grown
  BY InitGrown, NextGrown, PTL DEF Growth
<1>2. QED BY <1>1, GrownNothingLost, PTL

-----------------------------------------------------------------------------
(* The files that fit: positions in order.                                  *)

\* Where a block stands: its message and its place in it.
Spots == Nat \X Nat

LEMMA SpotsOrdered ==
  ASSUME NEW p \in Spots, NEW q \in Spots
  PROVE  /\ ~Before(p, p) /\ (p # q => Before(p, q) \/ Before(q, p)) /\ (Before(p, q) => ~Before(q, p))
         /\ \A r \in Spots : Before(p, q) /\ Before(q, r) => Before(p, r)
<1>1. PICK a \in Nat, b \in Nat, c \in Nat, d \in Nat : p = <<a, b>> /\ q = <<c, d>>
  BY DEF Spots
<1>2. ASSUME NEW r \in Spots PROVE Before(p, q) /\ Before(q, r) => Before(p, r)
  <2>1. PICK e \in Nat, f \in Nat : r = <<e, f>>
    BY DEF Spots
  <2>2. QED BY <1>1, <2>1 DEF Before
<1>3. QED BY <1>1, <1>2 DEF Before

\* Some positions have an oldest.
LEMMA Oldest ==
  ASSUME NEW T \in SUBSET Spots, T # {}
  PROVE  \E p \in T : \A q \in T : q # p => Before(p, q)
<1>1. PICK rs : rs = {p[1] : p \in T}
  OBVIOUS
<1>2. rs \in SUBSET Nat /\ rs # {}
  BY <1>1 DEF Spots
<1>3. PICK a \in rs : \A r \in rs : a <= r
  BY <1>2, LeastNumber
<1>4. PICK cs : cs = {p[2] : p \in {q \in T : q[1] = a}}
  OBVIOUS
<1>5. cs \in SUBSET Nat /\ cs # {}
  BY <1>1, <1>3, <1>4 DEF Spots
<1>6. PICK b \in cs : \A c \in cs : b <= c
  BY <1>5, LeastNumber
<1>7. PICK p \in T : p[1] = a /\ p[2] = b
  BY <1>4, <1>6
<1>8. ASSUME NEW q \in T, q # p PROVE Before(p, q)
  <2>1. PICK x \in Nat, y \in Nat, u \in Nat, v \in Nat : p = <<x, y>> /\ q = <<u, v>>
    BY DEF Spots
  <2>2. a <= q[1]
    BY <1>1, <1>3
  <2>3. q[1] = a => b <= q[2]
    BY <1>4, <1>6
  <2>4. QED BY <1>7, <1>8, <2>1, <2>2, <2>3 DEF Before
<1>9. QED BY <1>8

\* The newest first.
Sorted(s, n) == \A i, j \in 1..n : i < j => Before(s[j], s[i])
Lists(s, T)  == s \in [1..Cardinality(T) -> T] /\ Sorted(s, Cardinality(T))

LEMMA Enumerated ==
  ASSUME NEW T \in SUBSET Spots, IsFiniteSet(T) PROVE \E s : Lists(s, T)
<1> DEFINE Fails(n) == \E U \in SUBSET Spots : IsFiniteSet(U) /\ Cardinality(U) = n /\ ~\E s : Lists(s, U)
           N == {n \in Nat : Fails(n)}
<1>1. SUFFICES ASSUME N # {} PROVE FALSE
  <2>1. Cardinality(T) \in Nat
    BY FS_CardinalityType
  <2>2. QED BY <1>1, <2>1
<1>2. PICK n \in N : \A m \in N : n <= m
  <2>1. N \in SUBSET Nat
    OBVIOUS
  <2> HIDE DEF N
  <2>2. QED BY <1>1, <2>1, LeastNumber
<1>3. PICK U \in SUBSET Spots : IsFiniteSet(U) /\ Cardinality(U) = n /\ ~\E s : Lists(s, U)
  BY <1>2
<1>4. n \in Nat
  BY <1>2
<1>5. U # {}
  <2> SUFFICES ASSUME U = {} PROVE FALSE
    OBVIOUS
  <2>1. Cardinality(U) = 0
    BY FS_EmptySet
  <2>2. PICK s : s = [i \in 1..0 |-> i]
    OBVIOUS
  <2>3. s \in [1..0 -> U] /\ Sorted(s, 0)
    BY <2>2 DEF Sorted
  <2>4. QED BY <1>3, <2>1, <2>3 DEF Lists
<1>6. PICK p \in U : \A q \in U : q # p => Before(p, q)
  BY <1>5, Oldest
<1>7. PICK V : V = U \ {p}
  OBVIOUS
<1>8. IsFiniteSet(V) /\ Cardinality(V) = n - 1 /\ V \in SUBSET Spots
  BY <1>3, <1>6, <1>7, FS_RemoveElement
<1>9. n - 1 \in Nat
  <2>1. Cardinality(V) \in Nat
    BY <1>8, FS_CardinalityType
  <2>2. QED BY <1>8, <2>1
<1>10. n - 1 \notin N
  BY <1>2, <1>4, <1>9
<1>11. PICK s : Lists(s, V)
  BY <1>8, <1>9, <1>10
<1>12. PICK t : t = [i \in 1..n |-> IF i = n THEN p ELSE s[i]]
  OBVIOUS
<1>13. s \in [1..(n - 1) -> V] /\ Sorted(s, n - 1)
  BY <1>8, <1>11 DEF Lists
<1>14. \A i \in 1..n : i # n => i \in 1..(n - 1)
  BY <1>4
<1>15. t \in [1..n -> U]
  BY <1>6, <1>7, <1>12, <1>13, <1>14
<1>16. ASSUME NEW i \in 1..n, NEW j \in 1..n, i < j PROVE Before(t[j], t[i])
  <2>1. i \in 1..(n - 1) /\ t[i] = s[i] /\ s[i] \in V
    BY <1>4, <1>12, <1>13, <1>16
  <2>2. CASE j = n
    BY <1>6, <1>7, <1>12, <2>1, <2>2
  <2>3. CASE j # n
    BY <1>12, <1>13, <1>14, <1>16, <2>1, <2>3 DEF Sorted
  <2>4. QED BY <2>2, <2>3
<1>17. QED BY <1>3, <1>15, <1>16 DEF Lists, Sorted

\* Such a list leaves nothing out.
LEMMA ListsAll ==
  ASSUME NEW T \in SUBSET Spots, IsFiniteSet(T), NEW s, Lists(s, T)
  PROVE  \A p \in T : \E i \in 1..Cardinality(T) : s[i] = p
<1>1. PICK n : n = Cardinality(T) /\ n \in Nat
  BY FS_CardinalityType
<1>2. s \in [1..n -> T] /\ Sorted(s, n)
  BY <1>1 DEF Lists
<1>3. ASSUME NEW i \in 1..n, NEW j \in 1..n, s[i] = s[j] PROVE i = j
  <2>1. s[i] \in Spots /\ s[j] \in Spots
    BY <1>2
  <2>2. ~Before(s[i], s[j]) /\ ~Before(s[j], s[i])
    BY <1>3, <2>1, SpotsOrdered
  <2>3. QED BY <1>1, <1>2, <2>2 DEF Sorted
<1>4. s \in Injection(1..n, T)
  BY <1>2, <1>3 DEF Injection, IsInjective
<1>5. Cardinality(1..n) = Cardinality(T)
  <2>1. Cardinality(1..n) = IF 1 > n THEN 0 ELSE n - 1 + 1
    <3>1. 1 \in Int /\ n \in Int
      BY <1>1
    <3>2. QED BY ONLY <3>1, FS_Interval
  <2>2. QED BY <1>1, <2>1
<1>6. s \in Surjection(1..n, T)
  BY <1>4, <1>5, FS_Injection
<1>7. QED BY <1>1, <1>6 DEF Surjection

\* The newest of them comes first.
LEMMA NewestFirst ==
  ASSUME NEW T \in SUBSET Spots, IsFiniteSet(T), NEW s, Lists(s, T), NEW p \in T, \A q \in T : ~Before(p, q)
  PROVE  1 \in 1..Cardinality(T) /\ s[1] = p
<1>1. PICK n : n = Cardinality(T) /\ n \in Nat
  BY FS_CardinalityType
<1>2. PICK i \in 1..n : s[i] = p
  BY <1>1, ListsAll
<1>3. 1 \in 1..n
  BY <1>1, <1>2
<1>4. s[1] \in T
  BY <1>1, <1>3 DEF Lists
<1>5. i # 1 => Before(s[i], s[1])
  BY <1>1, <1>2, <1>3 DEF Lists, Sorted
<1>6. QED BY <1>1, <1>2, <1>3, <1>4, <1>5

\* Finitely many finite sets have finitely many elements.
LEMMA FiniteUnion ==
  ASSUME NEW n \in Nat, NEW f, \A i \in 1..n : IsFiniteSet(f[i])
  PROVE  IsFiniteSet(UNION {f[i] : i \in 1..n})
<1>1. PICK u : u = [k \in 0..n |-> UNION {f[i] : i \in 1..k}]
  OBVIOUS
<1>2. PICK P : P = {k \in 0..n : IsFiniteSet(u[k])}
  OBVIOUS
<1>3. 0 \in P
  <2>1. u[0] = {} /\ 0 \in 0..n
    BY <1>1
  <2>2. QED BY <1>2, <2>1, FS_EmptySet
<1>4. ASSUME NEW k \in 1..n, k - 1 \in P PROVE k \in P
  <2>1. k \in 0..n /\ k - 1 \in 0..n /\ IsFiniteSet(u[k - 1])
    BY <1>2, <1>4
  <2>2. \A i \in 1..k : i = k \/ i \in 1..(k - 1)
    OBVIOUS
  <2>3. \A i \in 1..(k - 1) : i \in 1..k
    OBVIOUS
  <2>4. u[k] = u[k - 1] \cup f[k]
    BY <1>1, <2>1, <2>2, <2>3
  <2>5. IsFiniteSet(u[k - 1] \cup f[k])
    BY <2>1, FS_Union
  <2>6. QED BY <1>2, <2>1, <2>4, <2>5
<1>5. n \in P
  BY ONLY <1>3, <1>4, n \in Nat, n \in 0..n, Induction
<1>6. QED BY <1>1, <1>2, <1>5

-----------------------------------------------------------------------------
(* What files weigh together.                                               *)

FileIds == {<<f>> : f \in Files}
Weight(id) == FileSize[id[1]]

\* The values that the recursion of SizeOf goes through.
Sums(f, ids) ==
  /\ SizeOf(ids) = f[Len(ids)] /\ f[0] = 0
  /\ \A i \in 0..Len(ids) : f[i] \in Nat
  /\ \A i \in 1..Len(ids) : f[i] = f[i - 1] + Weight(ids[i])

LEMMA WeightType == \A id \in FileIds : Weight(id) \in Nat
  BY FileAssumption DEF FileIds, Weight, Files

LEMMA SizeSteps ==
  ASSUME NEW ids \in Seq(FileIds) PROVE \E f : Sums(f, ids)
<1>1. PICK n, A, a : n = Len(ids) /\ A = Nat /\ a = 0
  OBVIOUS
<1> DEFINE Upto(f) == [i \in 0..n |-> IF i = 0 THEN 0 ELSE f[i - 1] + FileSize[ids[i][1]]]
<1>2. PICK step : step = [p \in A \X (1..n) |-> p[1] + Weight(ids[p[2]])]
  OBVIOUS
<1>3. n \in Nat /\ a \in A /\ \A i \in 1..n : Weight(ids[i]) \in Nat
  BY <1>1, WeightType
<1>4. \A x \in A, i \in 1..n : step[<<x, i>>] = x + Weight(ids[i])
  BY <1>2
<1>5. step \in Steps(n, A)
  <2>1. \A p \in A \X (1..n) : p[1] + Weight(ids[p[2]]) \in A
    <3>1. ASSUME NEW p \in A \X (1..n) PROVE p[1] \in Nat /\ Weight(ids[p[2]]) \in Nat
      BY <1>1, <1>3
    <3>2. QED BY <1>1, <3>1
  <2>2. QED BY <1>2, <2>1 DEF Steps
<1>6. PICK f \in [0..n -> A] : Iterates(f, n, A, a, step)
  BY ONLY <1>3, <1>5, Iteration
<1>7. \A i \in 0..n : i # 0 => i \in 1..n /\ i - 1 \in 0..n
  BY <1>3
<1>8. ASSUME NEW i \in 0..n PROVE f[i] = IF i = 0 THEN 0 ELSE f[i - 1] + FileSize[ids[i][1]]
  <2>1. i # 0 => f[i - 1] \in A
    BY <1>7
  <2>2. f[0] = a /\ \A k \in 1..n : f[k] = step[<<f[k - 1], k>>]
    <3>1. \A k \in 1..n : k - 1 \in 0..n
      BY <1>3
    <3>2. \A k \in 1..n : f[k - 1] \in A
      BY ONLY <3>1, f \in [0..n -> A]
    <3>3. Iterates(f, n, A, a, step)
      BY <1>6
    <3>4. QED BY ONLY <3>2, <3>3 DEF Iterates
  <2>3. CASE i = 0
    BY <1>1, <2>2, <2>3
  <2>4. CASE i # 0
    <3>1. i \in 1..n /\ f[i - 1] \in A
      BY <1>7, <2>1, <2>4
    <3>2. f[i] = f[i - 1] + Weight(ids[i])
      BY <1>4, <2>2, <3>1
    <3>3. QED BY <2>4, <3>2 DEF Weight
  <2>5. QED BY <2>3, <2>4
<1>9. f = Upto(f)
  BY <1>8
<1>10. PICK g : g = CHOOSE h : h = Upto(h)
  OBVIOUS
<1>11. g = Upto(g)
  <2> HIDE DEF Upto
  <2>1. QED BY <1>9, <1>10
<1>12. SizeOf(ids) = g[n]
  BY <1>1, <1>10 DEF SizeOf
<1>13. g[0] = 0 /\ \A i \in 1..n : g[i] = g[i - 1] + Weight(ids[i])
  <2>1. 0 \in 0..n /\ \A i \in 1..n : i \in 0..n /\ i # 0
    BY <1>3
  <2>2. \A i \in 0..n : g[i] = IF i = 0 THEN 0 ELSE g[i - 1] + FileSize[ids[i][1]]
    BY <1>11
  <2>3. QED BY <2>1, <2>2 DEF Weight
<1>14. \A i \in 0..n : g[i] \in A
  <2>1. Iterates(g, n, A, a, step)
    BY <1>1, <1>4, <1>13 DEF Iterates
  <2>2. QED BY ONLY <1>3, <1>5, <2>1, IterationType
<1>15. QED BY <1>1, <1>12, <1>13, <1>14 DEF Sums

LEMMA SizeType == ASSUME NEW ids \in Seq(FileIds) PROVE SizeOf(ids) \in Nat /\ (ids = <<>> => SizeOf(ids) = 0)
<1>1. PICK f : Sums(f, ids)
  BY SizeSteps
<1>2. PICK n : n = Len(ids) /\ n \in Nat /\ (ids = <<>> => n = 0)
  OBVIOUS
<1>3. n \in 0..n
  BY <1>2
<1>4. QED BY <1>1, <1>2, <1>3 DEF Sums

LEMMA SizeAppend ==
  ASSUME NEW ids \in Seq(FileIds), NEW id \in FileIds PROVE SizeOf(Append(ids, id)) = SizeOf(ids) + Weight(id)
<1>1. PICK longer : longer = Append(ids, id)
  OBVIOUS
<1>2. PICK n : n = Len(ids) /\ n \in Nat
  OBVIOUS
<1>3. longer \in Seq(FileIds) /\ Len(longer) = n + 1 /\ longer[n + 1] = id /\ \A i \in 1..n : longer[i] = ids[i]
  BY <1>1, <1>2
<1>4. PICK f : Sums(f, ids)
  BY SizeSteps
<1>5. PICK g : Sums(g, longer)
  BY <1>3, SizeSteps
<1>6. PICK P : P = {i \in 0..n : f[i] = g[i]}
  OBVIOUS
<1>7. 0 \in P
  BY <1>2, <1>4, <1>5, <1>6 DEF Sums
<1>8. ASSUME NEW i \in 1..n, i - 1 \in P PROVE i \in P
  <2>1. i \in 1..(n + 1) /\ i \in 0..n
    BY <1>2
  <2>2. f[i] = f[i - 1] + Weight(ids[i]) /\ g[i] = g[i - 1] + Weight(longer[i])
    BY <1>2, <1>3, <1>4, <1>5, <2>1 DEF Sums
  <2>3. QED BY <1>3, <1>6, <1>8, <2>1, <2>2
<1>9. n \in P
  BY ONLY <1>2, <1>7, <1>8, n \in 0..n, Induction
<1>10. n + 1 \in 1..(n + 1) /\ (n + 1) - 1 = n
  BY <1>2
<1>11. SizeOf(longer) = g[n + 1] /\ SizeOf(ids) = f[n]
  BY <1>2, <1>3, <1>4, <1>5 DEF Sums
<1>12. g[n + 1] = g[n] + Weight(id)
  BY <1>3, <1>5, <1>10 DEF Sums
<1>13. QED BY <1>1, <1>6, <1>9, <1>11, <1>12

\* A sequence without repetitions, and one element more.
LEMMA InjectiveAppend ==
  ASSUME NEW S, NEW s \in Seq(S), IsInjective(s), NEW x \in S, x \notin ToSet(s)
  PROVE  IsInjective(Append(s, x))
<1>0. PICK t : t = Append(s, x)
  OBVIOUS
<1>1. PICK n : t = Append(s, x) /\ n = Len(s) /\ n \in Nat
  BY <1>0
<1>2. DOMAIN t = 1..(n + 1) /\ DOMAIN s = 1..n /\ t[n + 1] = x /\ \A i \in 1..n : t[i] = s[i] /\ s[i] # x
  BY <1>1 DEF ToSet
<1>3. \A i \in 1..(n + 1) : i = n + 1 \/ i \in 1..n
  BY <1>1
<1>4. QED BY <1>1, <1>2, <1>3 DEF IsInjective

\* Files without one of them.
LeftBy(rest, ids, i) ==
  /\ rest \in Seq(FileIds) /\ IsInjective(rest) /\ SizeOf(ids) = SizeOf(rest) + Weight(ids[i])
  /\ \A x \in ToSet(rest) : x \in ToSet(ids) /\ x # ids[i]

LEMMA SizeLeftBy ==
  ASSUME NEW ids \in Seq(FileIds), IsInjective(ids), NEW i \in 1..Len(ids) PROVE \E rest : LeftBy(rest, ids, i)
<1>1. PICK n : n = Len(ids) /\ n \in Nat
  OBVIOUS
<1> DEFINE Shrinks(k) == \A t \in Seq(FileIds) : Len(t) = k /\ IsInjective(t) => \A j \in 1..k : \E rest : LeftBy(rest, t, j)
           P == {k \in 0..n : Shrinks(k)}
<1>2. 0 \in P
  BY <1>1
<1>3. ASSUME NEW k \in 1..n, k - 1 \in P PROVE k \in P
  <2>1. Shrinks(k - 1)
    BY <1>3
  <2>2. SUFFICES ASSUME NEW t \in Seq(FileIds), Len(t) = k, IsInjective(t), NEW j \in 1..k PROVE \E rest : LeftBy(rest, t, j)
    OBVIOUS
  <2>3. PICK s, x : s = SubSeq(t, 1, k - 1) /\ x = t[k]
    OBVIOUS
  <2>4. /\ s \in Seq(FileIds) /\ Len(s) = k - 1 /\ x \in FileIds /\ DOMAIN s = 1..(k - 1) /\ DOMAIN t = 1..k
        /\ \A i2 \in 1..(k - 1) : s[i2] = t[i2]
    BY <2>2, <2>3
  <2>5. t = Append(s, x)
    <3>1. PICK u : u = Append(s, x)
      OBVIOUS
    <3>2. u \in Seq(FileIds) /\ Len(u) = Len(t) /\ \A i2 \in 1..Len(t) : t[i2] = u[i2]
      BY <2>2, <2>3, <2>4, <3>1
    <3>3. QED BY ONLY <3>1, <3>2, t \in Seq(FileIds), SameSequence
  <2>6. IsInjective(s) /\ x \notin ToSet(s)
    BY <2>2, <2>3, <2>4 DEF IsInjective, ToSet
  <2>7. SizeOf(t) = SizeOf(s) + Weight(x) /\ SizeOf(s) \in Nat /\ Weight(x) \in Nat
    BY <2>4, <2>5, SizeAppend, SizeType, WeightType
  <2>8. \A y \in ToSet(s) : y \in ToSet(t)
    BY <2>4 DEF ToSet
  <2>9. CASE j = k
    <3>1. LeftBy(s, t, j)
      BY <2>3, <2>4, <2>6, <2>7, <2>8, <2>9 DEF LeftBy
    <3>2. QED BY <3>1
  <2>10. CASE j # k
    <3>1. j \in 1..(k - 1) /\ s[j] = t[j]
      BY <2>4, <2>10
    <3>2. PICK rest : LeftBy(rest, s, j)
      BY <2>1, <2>4, <2>6, <3>1
    <3>3. PICK more : more = Append(rest, x)
      OBVIOUS
    <3>4. rest \in Seq(FileIds) /\ IsInjective(rest) /\ x \notin ToSet(rest) /\ x # s[j]
      BY <2>4, <2>6, <3>1, <3>2 DEF LeftBy, ToSet
    <3>5. more \in Seq(FileIds) /\ IsInjective(more)
      BY <2>4, <3>3, <3>4, InjectiveAppend
    <3>6. SizeOf(more) = SizeOf(rest) + Weight(x) /\ SizeOf(rest) \in Nat
      BY <2>4, <3>3, <3>4, SizeAppend, SizeType
    <3>7. Weight(t[j]) \in Nat
      BY <2>2, WeightType
    <3>8. SizeOf(t) = SizeOf(more) + Weight(t[j])
      BY <2>7, <3>1, <3>2, <3>6, <3>7 DEF LeftBy
    <3>9. ToSet(more) = ToSet(rest) \cup {x}
      BY <2>4, <3>3, <3>4, ToSetAppend
    <3>10. x \in ToSet(t)
      BY <2>3, <2>4 DEF ToSet
    <3>11. \A y \in ToSet(more) : y \in ToSet(t) /\ y # t[j]
      BY <2>8, <3>1, <3>2, <3>4, <3>9, <3>10 DEF LeftBy
    <3>12. LeftBy(more, t, j)
      BY <3>5, <3>8, <3>11 DEF LeftBy
    <3>13. QED BY <3>12
  <2>11. QED BY <2>9, <2>10
<1>4. n \in P
  <2> HIDE DEF P
  <2>1. QED BY ONLY <1>1, <1>2, <1>3, n \in 0..n, Induction
<1>5. QED BY <1>1, <1>4

-----------------------------------------------------------------------------
(* The walk over the references, newest first.                              *)

Windowed(ms) == {p \in LastRefs(ms) : Cardinality(PromptsAfter(ms, p[1])) < WindowPrompts}

\* References are finitely many and stand at spots, and each is of a file.
Referring(ms) ==
  /\ Windowed(ms) \in SUBSET Spots /\ IsFiniteSet(Windowed(ms))
  /\ \A p \in Windowed(ms) : FileAt(ms, p) \in Files

\* The values that the recursion of RefsToLoad goes through.
Loads(f, s, ms) ==
  /\ RefsToLoad(ms) = f[Cardinality(Windowed(ms))].load
  /\ f[0] = [used |-> 0, load |-> {}]
  /\ \A k \in 0..Cardinality(Windowed(ms)) : f[k] \in [used : Nat, load : SUBSET Windowed(ms)]
  /\ \A k \in 1..Cardinality(Windowed(ms)) :
       f[k] = IF FitsBudget(f[k - 1].used, FileSize[FileAt(ms, s[k])])
              THEN [used |-> f[k - 1].used + FileSize[FileAt(ms, s[k])], load |-> f[k - 1].load \cup {s[k]}]
              ELSE f[k - 1]

LEMMA LoadSteps ==
  ASSUME NEW ms, Referring(ms) PROVE \E f, s : Lists(s, Windowed(ms)) /\ Loads(f, s, ms)
<1>1. PICK T, n : T = Windowed(ms) /\ n = Cardinality(Windowed(ms))
  OBVIOUS
<1>2. T \in SUBSET Spots /\ IsFiniteSet(T) /\ n = Cardinality(T) /\ n \in Nat
  BY <1>1, FS_CardinalityType DEF Referring
<1>3. PICK s : s = CHOOSE t \in [1..n -> T] : \A i, j \in 1..n : i < j => Before(t[j], t[i])
  OBVIOUS
<1>4. s \in [1..n -> T] /\ Lists(s, T)
  <2>1. PICK t : Lists(t, T)
    BY <1>2, Enumerated
  <2>2. t \in [1..n -> T] /\ \A i, j \in 1..n : i < j => Before(t[j], t[i])
    BY <1>2, <2>1 DEF Lists, Sorted
  <2>3. s \in [1..n -> T] /\ \A i, j \in 1..n : i < j => Before(s[j], s[i])
    BY <1>3, <2>2
  <2>4. QED BY <1>2, <2>3 DEF Lists, Sorted
<1>5. PICK A, a : A = [used : Nat, load : SUBSET T] /\ a = [used |-> 0, load |-> {}]
  OBVIOUS
<1> DEFINE Size(k)   == FileSize[FileAt(ms, s[k])]
           Grow(x, k) == IF FitsBudget(x.used, Size(k)) THEN [used |-> x.used + Size(k), load |-> x.load \cup {s[k]}] ELSE x
           Upto(f)   == [k \in 0..n |-> IF k = 0 THEN a ELSE Grow(f[k - 1], k)]
<1>6. PICK step : step = [p \in A \X (1..n) |-> Grow(p[1], p[2])]
  OBVIOUS
<1>7. \A x \in A, k \in 1..n : step[<<x, k>>] = Grow(x, k)
  BY <1>6
<1>8. ASSUME NEW x \in A, NEW k \in 1..n PROVE Grow(x, k) \in A
  <2>1. s[k] \in T /\ Size(k) \in Nat
    BY <1>1, <1>4, FileAssumption DEF Referring, Files
  <2> HIDE DEF Size
  <2>2. QED BY <1>5, <2>1
<1>9. a \in A
  BY <1>5
<1>10. step \in Steps(n, A)
  <2> HIDE DEF Grow
  <2>1. \A p \in A \X (1..n) : Grow(p[1], p[2]) \in A
    BY <1>8
  <2>2. QED BY <1>6, <2>1 DEF Steps
<1>11. PICK f \in [0..n -> A] : Iterates(f, n, A, a, step)
  BY ONLY <1>2, <1>9, <1>10, Iteration
<1>12. \A k \in 0..n : k # 0 => k \in 1..n /\ k - 1 \in 0..n
  BY <1>2
<1>13. ASSUME NEW k \in 0..n PROVE f[k] = IF k = 0 THEN a ELSE Grow(f[k - 1], k)
  <2> HIDE DEF Grow
  <2>1. k # 0 => f[k - 1] \in A
    BY <1>12
  <2>2. QED BY <1>7, <1>11, <1>12, <2>1 DEF Iterates
<1>14. f = Upto(f)
  BY <1>13
<1>15. PICK g : g = CHOOSE h : h = Upto(h)
  OBVIOUS
<1>16. g = Upto(g)
  <2> HIDE DEF Upto
  <2>1. QED BY <1>14, <1>15
<1>17. RefsToLoad(ms) = g[n].load
  BY <1>1, <1>3, <1>5, <1>15 DEF RefsToLoad, Windowed
<1>18. g[0] = a /\ \A k \in 1..n : g[k] = Grow(g[k - 1], k)
  <2>1. 0 \in 0..n /\ \A k \in 1..n : k \in 0..n /\ k # 0
    BY <1>2
  <2>2. \A k \in 0..n : g[k] = IF k = 0 THEN a ELSE Grow(g[k - 1], k)
    BY <1>16
  <2> HIDE DEF Grow
  <2>3. QED BY <2>1, <2>2
<1>19. \A k \in 0..n : g[k] \in A
  <2>1. Iterates(g, n, A, a, step)
    BY <1>7, <1>18 DEF Iterates
  <2>2. QED BY ONLY <1>2, <1>9, <1>10, <2>1, IterationType
<1>20. Loads(g, s, ms)
  BY <1>1, <1>5, <1>17, <1>18, <1>19 DEF Loads
<1>21. QED BY <1>1, <1>4, <1>20

\* The files of these references, as ids.
Named(ms, refs) == {<<FileAt(ms, p)>> : p \in refs}

\* Whatever is loaded is in the window, and together it weighs no more than the budget.
LEMMA LoadFits ==
  ASSUME NEW ms, Referring(ms)
  PROVE  /\ RefsToLoad(ms) \subseteq Windowed(ms)
         /\ \A ids \in Seq(FileIds) : IsInjective(ids) /\ ToSet(ids) \subseteq Named(ms, RefsToLoad(ms)) => SizeOf(ids) <= FileBudget
<1>1. PICK f, s : Lists(s, Windowed(ms)) /\ Loads(f, s, ms)
  BY LoadSteps
<1>2. PICK n : n = Cardinality(Windowed(ms)) /\ n \in Nat
  BY FS_CardinalityType DEF Referring
<1>3. s \in [1..n -> Windowed(ms)]
  BY <1>1, <1>2 DEF Lists
<1>4. \A k \in 0..n : f[k].used \in Nat /\ f[k].load \subseteq Windowed(ms)
  BY <1>1, <1>2 DEF Loads
<1> DEFINE Below(k) == \A ids \in Seq(FileIds) : IsInjective(ids) /\ ToSet(ids) \subseteq Named(ms, f[k].load) => SizeOf(ids) <= f[k].used
           P == {k \in 0..n : f[k].used <= FileBudget /\ Below(k)}
<1>5. 0 \in P
  <2>1. f[0].used = 0 /\ f[0].load = {} /\ 0 \in 0..n /\ 0 <= FileBudget
    BY <1>1, <1>2, FileAssumption DEF Loads
  <2>2. ASSUME NEW ids \in Seq(FileIds), ToSet(ids) \subseteq Named(ms, f[0].load) PROVE SizeOf(ids) <= f[0].used
    <3>1. ToSet(ids) = {}
      BY <2>1, <2>2 DEF Named
    <3>2. ids = <<>>
      BY <3>1, EmptyToSet
    <3>3. SizeOf(ids) = 0
      BY <3>2, SizeType
    <3>4. QED BY <2>1, <3>3
  <2>3. QED BY <2>1, <2>2
<1>6. ASSUME NEW k \in 1..n, k - 1 \in P PROVE k \in P
  <2>1. k \in 0..n /\ k - 1 \in 0..n /\ f[k - 1].used <= FileBudget /\ f[k - 1].used \in Nat
    BY <1>2, <1>4, <1>6
  <2>2. Below(k - 1)
    BY <1>6
  <2>3. PICK p, size, x : p = s[k] /\ size = FileSize[FileAt(ms, s[k])] /\ x = f[k - 1]
    OBVIOUS
  <2>4. size \in Nat /\ p \in Windowed(ms)
    BY <1>3, <2>3, FileAssumption DEF Referring, Files
  <2>5. f[k] = IF FitsBudget(x.used, size) THEN [used |-> x.used + size, load |-> x.load \cup {p}] ELSE x
    BY <1>1, <1>2, <2>3 DEF Loads
  <2>6. CASE ~FitsBudget(x.used, size)
    BY <2>1, <2>2, <2>3, <2>5, <2>6
  <2>7. CASE FitsBudget(x.used, size)
    <3>1. f[k].used = x.used + size /\ f[k].load = x.load \cup {p} /\ x.used + size <= FileBudget
      BY <2>5, <2>7 DEF FitsBudget
    <3>2. ASSUME NEW ids \in Seq(FileIds), IsInjective(ids), ToSet(ids) \subseteq Named(ms, f[k].load)
          PROVE  SizeOf(ids) <= f[k].used
      <4>1. \A id \in ToSet(ids) : id = <<FileAt(ms, p)>> \/ id \in Named(ms, x.load)
        BY <3>1, <3>2 DEF Named
      <4>2. CASE <<FileAt(ms, p)>> \notin ToSet(ids)
        <5>1. ToSet(ids) \subseteq Named(ms, x.load)
          BY <4>1, <4>2
        <5>2. SizeOf(ids) <= x.used /\ SizeOf(ids) \in Nat
          BY <2>2, <2>3, <3>2, <5>1, SizeType
        <5>3. QED BY <2>1, <2>3, <2>4, <3>1, <5>2
      <4>3. CASE <<FileAt(ms, p)>> \in ToSet(ids)
        <5>1. PICK i \in 1..Len(ids) : ids[i] = <<FileAt(ms, p)>>
          BY <4>3 DEF ToSet
        <5>2. PICK rest : LeftBy(rest, ids, i)
          BY <3>2, SizeLeftBy
        <5>3. rest \in Seq(FileIds) /\ IsInjective(rest) /\ ToSet(rest) \subseteq Named(ms, x.load)
          BY <4>1, <5>1, <5>2 DEF LeftBy
        <5>4. SizeOf(rest) <= x.used /\ SizeOf(rest) \in Nat
          BY <2>2, <2>3, <5>3, SizeType
        <5>5. Weight(ids[i]) = size
          BY <2>3, <5>1 DEF Weight
        <5>6. SizeOf(ids) = SizeOf(rest) + size
          BY <5>2, <5>5 DEF LeftBy
        <5>7. QED BY <2>1, <2>3, <2>4, <3>1, <5>4, <5>6
      <4>4. QED BY <4>2, <4>3
    <3>3. QED BY <2>1, <2>3, <3>1, <3>2
  <2>8. QED BY <2>6, <2>7
<1>7. n \in P
  <2> HIDE DEF P
  <2>1. QED BY ONLY <1>2, <1>5, <1>6, n \in 0..n, Induction
<1>8. RefsToLoad(ms) = f[n].load /\ n \in 0..n
  BY <1>1, <1>2 DEF Loads
<1>9. \A ids \in Seq(FileIds) : IsInjective(ids) /\ ToSet(ids) \subseteq Named(ms, RefsToLoad(ms)) => SizeOf(ids) <= FileBudget
  <2>1. f[n].used <= FileBudget /\ Below(n) /\ f[n].used \in Nat /\ FileBudget \in Nat
    BY <1>4, <1>7, <1>8, FileAssumption
  <2>2. ASSUME NEW ids \in Seq(FileIds), IsInjective(ids), ToSet(ids) \subseteq Named(ms, RefsToLoad(ms)) PROVE SizeOf(ids) <= FileBudget
    <3>1. SizeOf(ids) <= f[n].used /\ SizeOf(ids) \in Nat
      BY <1>8, <2>1, <2>2, SizeType
    <3>2. QED BY <2>1, <3>1
  <2>3. QED BY <2>2
<1>10. QED BY <1>4, <1>8, <1>9

\* The newest reference is loaded if its file fits alone.
LEMMA NewestLoads ==
  ASSUME NEW ms, Referring(ms), NEW p \in Windowed(ms), \A q \in Windowed(ms) : ~Before(p, q),
         FileSize[FileAt(ms, p)] <= FileBudget
  PROVE  p \in RefsToLoad(ms)
<1>1. PICK f, s : Lists(s, Windowed(ms)) /\ Loads(f, s, ms)
  BY LoadSteps
<1>2. PICK n : n = Cardinality(Windowed(ms)) /\ n \in Nat
  BY FS_CardinalityType DEF Referring
<1>3. 1 \in 1..n /\ s[1] = p
  BY <1>1, <1>2, NewestFirst DEF Referring
<1>4. p \in f[1].load
  <2>1. FileSize[FileAt(ms, p)] \in Nat
    BY FileAssumption DEF Referring, Files
  <2>2. 1 - 1 = 0 /\ f[0].used = 0 /\ f[0].load = {}
    BY <1>1 DEF Loads
  <2>3. f[1] = IF FitsBudget(f[1 - 1].used, FileSize[FileAt(ms, p)])
               THEN [used |-> f[1 - 1].used + FileSize[FileAt(ms, p)], load |-> f[1 - 1].load \cup {p}]
               ELSE f[1 - 1]
    BY <1>1, <1>2, <1>3 DEF Loads
  <2>4. FitsBudget(f[1 - 1].used, FileSize[FileAt(ms, p)])
    BY <2>1, <2>2 DEF FitsBudget
  <2>5. QED BY <2>3, <2>4
<1>5. PICK P : P = {k \in 0..n : k = 0 \/ p \in f[k].load}
  OBVIOUS
<1>6. 0 \in P
  BY <1>2, <1>5
<1>7. ASSUME NEW k \in 1..n, k - 1 \in P PROVE k \in P
  <2>1. k \in 0..n /\ (k = 1 \/ p \in f[k - 1].load)
    BY <1>2, <1>5, <1>7
  <2>2. f[k] = f[k - 1] \/ f[k].load = f[k - 1].load \cup {s[k]}
    <3>1. f[k] = IF FitsBudget(f[k - 1].used, FileSize[FileAt(ms, s[k])])
                 THEN [used |-> f[k - 1].used + FileSize[FileAt(ms, s[k])], load |-> f[k - 1].load \cup {s[k]}]
                 ELSE f[k - 1]
      BY <1>1, <1>2 DEF Loads
    <3>2. QED BY <3>1
  <2>3. QED BY <1>4, <1>5, <2>1, <2>2
<1>8. n \in P
  BY ONLY <1>2, <1>6, <1>7, n \in 0..n, Induction
<1>9. QED BY <1>1, <1>2, <1>3, <1>5, <1>8 DEF Loads

-----------------------------------------------------------------------------
(* Ids that come once.                                                      *)

LEMMA InjectiveConcat ==
  ASSUME NEW S, NEW s \in Seq(S), NEW t \in Seq(S), IsInjective(s), IsInjective(t), ToSet(s) \cap ToSet(t) = {}
  PROVE  IsInjective(s \o t)
<1>1. PICK u : u = s \o t
  OBVIOUS
<1>2. PICK n, m : n = Len(s) /\ m = Len(t) /\ n \in Nat /\ m \in Nat
  <2>1. Len(s) \in Nat /\ Len(t) \in Nat
    OBVIOUS
  <2>2. QED BY ONLY <2>1
<1>3. u \in Seq(S) /\ Len(u) = n + m /\ \A k \in 1..(n + m) : u[k] = IF k <= n THEN s[k] ELSE t[k - n]
  BY ONLY <1>1, <1>2, s \in Seq(S), t \in Seq(S), Concat
<1>4. DOMAIN s = 1..n /\ DOMAIN t = 1..m /\ DOMAIN u = 1..(n + m)
  BY <1>2, <1>3
<1>5. \A i \in 1..n, j \in 1..m : s[i] # t[j]
  BY <1>4 DEF ToSet
<1>6. ASSUME NEW i \in 1..(n + m), NEW j \in 1..(n + m), u[i] = u[j] PROVE i = j
  <2>1. CASE i <= n /\ j <= n
    <3>1. i \in 1..n /\ j \in 1..n /\ s[i] = s[j]
      BY <1>2, <1>3, <1>6, <2>1
    <3>2. QED BY <1>4, <3>1 DEF IsInjective
  <2>2. CASE ~(i <= n) /\ ~(j <= n)
    <3>1. i - n \in 1..m /\ j - n \in 1..m /\ t[i - n] = t[j - n]
      BY <1>2, <1>3, <1>6, <2>2
    <3>2. i - n = j - n
      BY <1>4, <3>1 DEF IsInjective
    <3>3. QED BY <1>2, <3>2
  <2>3. CASE i <= n /\ ~(j <= n)
    <3>1. i \in 1..n /\ j - n \in 1..m /\ s[i] = t[j - n]
      BY <1>2, <1>3, <1>6, <2>3
    <3>2. QED BY <1>5, <3>1
  <2>4. CASE ~(i <= n) /\ j <= n
    <3>1. j \in 1..n /\ i - n \in 1..m /\ s[j] = t[i - n]
      BY <1>2, <1>3, <1>6, <2>4
    <3>2. QED BY <1>5, <3>1
  <2>5. QED BY <2>1, <2>2, <2>3, <2>4
<1>7. QED BY <1>1, <1>4, <1>6 DEF IsInjective

\* What the sequences have, and what their join has.
Apart(ss) ==
  \A i, j \in 1..Len(ss) : IsInjective(ss[i]) /\ (i # j => ToSet(ss[i]) \cap ToSet(ss[j]) = {})

LEMMA JoinedElements ==
  ASSUME NEW S, NEW ss \in Seq(Seq(S))
  PROVE  /\ \A x : x \in ToSet(Joined(ss)) <=> \E i \in 1..Len(ss) : x \in ToSet(ss[i])
         /\ Apart(ss) => IsInjective(Joined(ss))
<1>1. PICK n : n = Len(ss) /\ n \in Nat /\ \A i \in 1..n : ss[i] \in Seq(S)
  OBVIOUS
<1>2. PICK f : Joins(f, S, ss)
  BY JoinedSteps
<1>3. \A i \in 1..n : i \in 0..n /\ i - 1 \in 0..n /\ f[i] = f[i - 1] \o ss[i] /\ f[i - 1] \in Seq(S)
  <2>1. \A i \in 1..n : i \in 0..n /\ i - 1 \in 0..n
    BY <1>1
  <2>2. (\A i \in 0..n : f[i] \in Seq(S)) /\ \A i \in 1..n : f[i] = f[i - 1] \o ss[i]
    BY <1>1, <1>2 DEF Joins
  <2>3. QED BY <2>1, <2>2
<1> DEFINE Found(k, x) == \E i \in 1..k : x \in ToSet(ss[i])
           P == {k \in 0..n : (\A x : x \in ToSet(f[k]) <=> Found(k, x)) /\ (Apart(ss) => IsInjective(f[k]))}
<1>4. 0 \in P
  <2>1. f[0] = <<>> /\ 0 \in 0..n /\ ToSet(<<>>) = {} /\ IsInjective(<<>>)
    BY <1>1, <1>2 DEF Joins, ToSet, IsInjective
  <2>2. QED BY <2>1
<1>5. ASSUME NEW k \in 1..n, k - 1 \in P PROVE k \in P
  <2>1. /\ \A x : x \in ToSet(f[k - 1]) <=> Found(k - 1, x)
        /\ Apart(ss) => IsInjective(f[k - 1])
    BY <1>5
  <2>2. ToSet(f[k]) = ToSet(f[k - 1]) \cup ToSet(ss[k])
    <3>1. PICK s, t : s = f[k - 1] /\ t = ss[k]
      OBVIOUS
    <3>2. s \in Seq(S) /\ t \in Seq(S) /\ f[k] = s \o t
      BY <1>1, <1>3, <3>1
    <3>3. ToSet(s \o t) = ToSet(s) \cup ToSet(t)
      BY <3>2, ToSetConcat
    <3>4. QED BY <3>1, <3>2, <3>3
  <2>3. \A i \in 1..k : i = k \/ i \in 1..(k - 1)
    BY <1>1
  <2>4. \A i \in 1..(k - 1) : i \in 1..k /\ i # k /\ i \in 1..n
    BY <1>1
  <2>5. \A x : x \in ToSet(f[k]) <=> Found(k, x)
    BY <2>1, <2>2, <2>3, <2>4
  <2>6. ASSUME Apart(ss) PROVE IsInjective(f[k])
    <3>1. ToSet(f[k - 1]) \cap ToSet(ss[k]) = {}
      BY <1>1, <2>1, <2>4, <2>6 DEF Apart
    <3>2. IsInjective(f[k - 1]) /\ IsInjective(ss[k])
      BY <1>1, <2>1, <2>6 DEF Apart
    <3>3. QED BY <1>1, <1>3, <3>1, <3>2, InjectiveConcat
  <2>7. k \in 0..n
    BY <1>3
  <2>8. QED BY <2>5, <2>6, <2>7
<1>6. n \in P
  <2> HIDE DEF P
  <2>1. QED BY ONLY <1>1, <1>4, <1>5, n \in 0..n, Induction
<1>7. Joined(ss) = f[n]
  BY <1>1, <1>2 DEF Joins
<1>8. QED BY <1>1, <1>6, <1>7

\* The ids that a message has of these types.
LEMMA IdsElements ==
  ASSUME NEW Id, NEW types, NEW bs \in Seq(Blocks(Id))
  PROVE  /\ \A x : x \in ToSet(IdsOf(bs, types)) <=> \E j \in 1..Len(bs) : bs[j].type \in types /\ bs[j].id = x
         /\ (\A i, j \in 1..Len(bs) : bs[i].type \in types /\ bs[j].type \in types /\ bs[i].id = bs[j].id => i = j)
              => IsInjective(IdsOf(bs, types))
<1>1. PICK F, B, X : F = BlockPart(Id, types) /\ B = Blocks(Id) /\ X = Id \cup {<<>>}
  OBVIOUS
<1>2. F \in [B -> Seq(X)] /\ bs \in Seq(B)
  BY <1>1, BlockPartType
<1>3. PICK ss : ss = Images(F, bs)
  OBVIOUS
<1>4. PICK n : n = Len(bs) /\ n \in Nat
  OBVIOUS
<1>5. ss \in Seq(Seq(X)) /\ Len(ss) = n /\ \A i \in 1..n : ss[i] = F[bs[i]] /\ bs[i] \in B
  <2>1. Imaged(Images(F, bs), F, X, bs)
    BY <1>2, ImagesFacts
  <2>2. ss \in Seq(Seq(X)) /\ Len(ss) = n /\ \A i \in 1..n : ss[i] = F[bs[i]]
    BY <1>3, <1>4, <2>1 DEF Imaged
  <2>3. \A i \in 1..n : bs[i] \in B
    BY <1>2, <1>4
  <2>4. QED BY <2>2, <2>3
<1>6. IdsOf(bs, types) = Joined(ss)
  BY <1>1, <1>3, IdsThrough DEF Through
<1>7. \A i \in 1..n : ss[i] = IF bs[i].type \in types THEN <<bs[i].id>> ELSE <<>>
  BY <1>1, <1>5 DEF BlockPart
<1>8. ASSUME NEW i \in 1..n
      PROVE  /\ \A x : x \in ToSet(ss[i]) <=> bs[i].type \in types /\ bs[i].id = x
             /\ IsInjective(ss[i])
  <2>1. ToSet(<<>>) = {} /\ IsInjective(<<>>)
    BY DEF ToSet, IsInjective
  <2>2. PICK id, one : id = bs[i].id /\ one = <<id>>
    OBVIOUS
  <2>3. ToSet(one) = {id}
    BY <2>2, SingleBlock
  <2>4. DOMAIN one = {1}
    BY <2>2
  <2>5. IsInjective(one)
    BY <2>4 DEF IsInjective
  <2>6. QED BY <1>7, <2>1, <2>2, <2>3, <2>5
<1>9. \A x : x \in ToSet(Joined(ss)) <=> \E i \in 1..n : x \in ToSet(ss[i])
  BY <1>5, JoinedElements
<1>10. Apart(ss) => IsInjective(Joined(ss))
  BY <1>5, JoinedElements
<1>11. ASSUME \A i, j \in 1..n : bs[i].type \in types /\ bs[j].type \in types /\ bs[i].id = bs[j].id => i = j PROVE Apart(ss)
  <2>1. \A i, j \in 1..n : i # j => ToSet(ss[i]) \cap ToSet(ss[j]) = {}
    BY <1>8, <1>11
  <2>2. QED BY <1>5, <1>8, <2>1 DEF Apart
<1>12. \A x : x \in ToSet(IdsOf(bs, types)) <=> \E i \in 1..n : bs[i].type \in types /\ bs[i].id = x
  BY <1>6, <1>8, <1>9
<1>13. ASSUME \A i, j \in 1..n : bs[i].type \in types /\ bs[j].type \in types /\ bs[i].id = bs[j].id => i = j
       PROVE  IsInjective(IdsOf(bs, types))
  BY <1>6, <1>10, <1>11, <1>13
<1>14. QED BY <1>4, <1>12, <1>13

\* The block at a place, if it has one of these types.
HasAt(ms, types, i, j) == i \in 1..Len(ms) /\ j \in 1..Len(ms[i].blocks) /\ ms[i].blocks[j].type \in types

\* No two places have blocks of these types with the same id.
OnceEach(ms, types) ==
  \A i, j, k, l : HasAt(ms, types, i, j) /\ HasAt(ms, types, k, l) /\ ms[i].blocks[j].id = ms[k].blocks[l].id => i = k /\ j = l

LEMMA AllElements ==
  ASSUME NEW Id, NEW types, NEW ms \in Seq(Messages(Id))
  PROVE  /\ \A x : x \in ToSet(AllIds(ms, types)) <=> \E i, j : HasAt(ms, types, i, j) /\ ms[i].blocks[j].id = x
         /\ OnceEach(ms, types) => IsInjective(AllIds(ms, types))
<1>1. PICK F, M, X : F = MessagePart(Id, types) /\ M = Messages(Id) /\ X = Id \cup {<<>>}
  OBVIOUS
<1>2. F \in [M -> Seq(X)] /\ ms \in Seq(M)
  BY <1>1, MessagePartType
<1>3. PICK ss : ss = Images(F, ms)
  OBVIOUS
<1>4. PICK n : n = Len(ms) /\ n \in Nat
  OBVIOUS
<1>5. ss \in Seq(Seq(X)) /\ Len(ss) = n /\ \A i \in 1..n : ss[i] = F[ms[i]] /\ ms[i] \in M
  <2>1. Imaged(Images(F, ms), F, X, ms)
    BY <1>2, ImagesFacts
  <2>2. ss \in Seq(Seq(X)) /\ Len(ss) = n /\ \A i \in 1..n : ss[i] = F[ms[i]]
    BY <1>3, <1>4, <2>1 DEF Imaged
  <2>3. \A i \in 1..n : ms[i] \in M
    BY <1>2, <1>4
  <2>4. QED BY <2>2, <2>3
<1>6. AllIds(ms, types) = Joined(ss)
  BY <1>1, <1>3, AllThrough DEF Through
<1>7. \A i \in 1..n : ss[i] = IdsOf(ms[i].blocks, types) /\ ms[i].blocks \in Seq(Blocks(Id))
  BY <1>1, <1>5 DEF MessagePart, Messages
<1>8. ASSUME NEW i \in 1..n
      PROVE  \A x : x \in ToSet(ss[i]) <=> \E j : HasAt(ms, types, i, j) /\ ms[i].blocks[j].id = x
  <2>1. \A x : x \in ToSet(ss[i]) <=> \E j \in 1..Len(ms[i].blocks) : ms[i].blocks[j].type \in types /\ ms[i].blocks[j].id = x
    BY <1>7, IdsElements
  <2>2. QED BY <1>4, <2>1 DEF HasAt
<1>9. \A x : x \in ToSet(Joined(ss)) <=> \E i \in 1..n : x \in ToSet(ss[i])
  BY <1>5, JoinedElements
<1>10. \A x : x \in ToSet(Joined(ss)) <=> \E i, j : HasAt(ms, types, i, j) /\ ms[i].blocks[j].id = x
  <2>1. \A i, j : HasAt(ms, types, i, j) => i \in 1..n
    BY <1>4 DEF HasAt
  <2>2. ASSUME NEW x, x \in ToSet(Joined(ss)) PROVE \E i, j : HasAt(ms, types, i, j) /\ ms[i].blocks[j].id = x
    <3>1. PICK i \in 1..n : x \in ToSet(ss[i])
      BY <1>9, <2>2
    <3>2. \E j : HasAt(ms, types, i, j) /\ ms[i].blocks[j].id = x
      BY <1>8, <3>1
    <3>3. QED BY <3>2
  <2>3. ASSUME NEW x, NEW i, NEW j, HasAt(ms, types, i, j), ms[i].blocks[j].id = x PROVE x \in ToSet(Joined(ss))
    <3>1. i \in 1..n
      BY <2>1, <2>3
    <3>2. x \in ToSet(ss[i])
      BY <1>8, <2>3, <3>1
    <3>3. QED BY <1>9, <3>1, <3>2
  <2>4. QED BY <2>2, <2>3
<1>11. ASSUME OnceEach(ms, types) PROVE IsInjective(Joined(ss))
  <2>1. ASSUME NEW i \in 1..n PROVE IsInjective(ss[i])
    <3>1. PICK bs : bs = ms[i].blocks /\ bs \in Seq(Blocks(Id))
      BY <1>7
    <3>2. \A j \in 1..Len(bs) : bs[j].type \in types => HasAt(ms, types, i, j)
      BY <1>4, <3>1 DEF HasAt
    <3>3. \A j, l \in 1..Len(bs) : bs[j].type \in types /\ bs[l].type \in types /\ bs[j].id = bs[l].id => j = l
      BY <1>11, <3>1, <3>2 DEF OnceEach
    <3>4. IsInjective(IdsOf(bs, types))
      BY <3>1, <3>3, IdsElements
    <3>5. QED BY <1>7, <3>1, <3>4
  <2>2. ASSUME NEW i \in 1..n, NEW k \in 1..n, i # k PROVE ToSet(ss[i]) \cap ToSet(ss[k]) = {}
    <3>1. SUFFICES ASSUME NEW x, x \in ToSet(ss[i]), x \in ToSet(ss[k]) PROVE FALSE
      OBVIOUS
    <3>2. PICK j : HasAt(ms, types, i, j) /\ ms[i].blocks[j].id = x
      BY <1>8, <3>1
    <3>3. PICK l : HasAt(ms, types, k, l) /\ ms[k].blocks[l].id = x
      BY <1>8, <3>1
    <3>4. QED BY <1>11, <2>2, <3>2, <3>3 DEF OnceEach
  <2>3. Apart(ss)
    BY <1>5, <2>1, <2>2 DEF Apart
  <2>4. QED BY <1>5, <2>3, JoinedElements
<1>12. QED BY <1>6, <1>10, <1>11

-----------------------------------------------------------------------------
(* The files of a request.                                                  *)

\* References are of files.
Filed(m) == \A b \in ToSet(m.blocks) : IsRef(b) => b.id \in FileIds

FiledRows(Id, S) == StoredRows(Id, S) /\ S \subseteq Messages(Id) /\ \A m \in S : Unswapped(m) /\ Filed(m)

\* A reference of such rows, and its place.
RefAt(ms, i, j) == i \in 1..Len(ms) /\ j \in 1..Len(ms[i].blocks) /\ ms[i].role = "user" /\ IsRef(ms[i].blocks[j])

LEMMA RefsAre ==
  ASSUME NEW Id, NEW S, FiledRows(Id, S), NEW ms \in Seq(S)
  PROVE  /\ \A p : p \in RefPositions(ms) <=> \E i, j : p = <<i, j>> /\ RefAt(ms, i, j)
         /\ \A i, j : RefAt(ms, i, j) => ms[i].blocks[j].id = <<FileAt(ms, <<i, j>>)>> /\ FileAt(ms, <<i, j>>) \in Files
<1>1. DOMAIN ms = 1..Len(ms)
  OBVIOUS
<1>2. ASSUME NEW i \in 1..Len(ms) PROVE ms[i].blocks \in Seq(Blocks(Id)) /\ Filed(ms[i])
  <2>1. ms[i] \in S
    OBVIOUS
  <2>2. QED BY <2>1 DEF FiledRows, Messages
<1>3. \A i \in 1..Len(ms) : DOMAIN ms[i].blocks = 1..Len(ms[i].blocks)
  BY <1>2
<1>4. ASSUME NEW p PROVE p \in RefPositions(ms) <=> \E i, j : p = <<i, j>> /\ RefAt(ms, i, j)
  BY <1>1, <1>3 DEF RefPositions, RefAt
<1>5. ASSUME NEW i, NEW j, RefAt(ms, i, j)
      PROVE  ms[i].blocks[j].id = <<FileAt(ms, <<i, j>>)>> /\ FileAt(ms, <<i, j>>) \in Files
  <2>1. PICK b : b = ms[i].blocks[j] /\ b \in ToSet(ms[i].blocks) /\ IsRef(b) /\ i \in 1..Len(ms)
    BY <1>3, <1>5 DEF RefAt, ToSet
  <2>2. b.id \in FileIds
    BY <1>2, <2>1 DEF Filed
  <2>3. FileAt(ms, <<i, j>>) = b.id[1]
    BY <2>1 DEF FileAt
  <2>4. PICK f \in Files : b.id = <<f>>
    BY <2>2 DEF FileIds
  <2>5. QED BY <2>1, <2>3, <2>4
<1>6. QED BY <1>4, <1>5

LEMMA RefsRefer ==
  ASSUME NEW Id, NEW S, FiledRows(Id, S), NEW ms \in Seq(S) PROVE Referring(ms)
<1>1. PICK n : n = Len(ms) /\ n \in Nat
  OBVIOUS
<1>2. \A i \in 1..n : Len(ms[i].blocks) \in Nat
  <2>1. ASSUME NEW i \in 1..n PROVE ms[i].blocks \in Seq(Blocks(Id))
    <3>1. ms[i] \in S
      BY <1>1
    <3>2. QED BY <3>1 DEF FiledRows, Messages
  <2>2. QED BY <2>1
<1>3. \A p : p \in RefPositions(ms) <=> \E i, j : p = <<i, j>> /\ RefAt(ms, i, j)
  BY RefsAre
<1>4. \A i, j : RefAt(ms, i, j) => i \in 1..n /\ j \in 1..Len(ms[i].blocks) /\ FileAt(ms, <<i, j>>) \in Files
  BY <1>1, RefsAre DEF RefAt
<1>5. RefPositions(ms) \in SUBSET Spots
  <2>1. ASSUME NEW i, NEW j, RefAt(ms, i, j) PROVE <<i, j>> \in Spots
    BY <1>2, <1>4, <2>1 DEF Spots
  <2>2. QED BY <1>3, <2>1
<1>6. IsFiniteSet(RefPositions(ms))
  <2>1. PICK f : f = [i \in 1..n |-> {<<i, j>> : j \in 1..Len(ms[i].blocks)}]
    OBVIOUS
  <2>2. ASSUME NEW i \in 1..n PROVE IsFiniteSet(f[i])
    <3>1. PICK k : k = Len(ms[i].blocks) /\ k \in Nat
      BY <1>2
    <3>2. IsFiniteSet(1..k)
      <4>1. 1 \in Int /\ k \in Int
        BY <3>1
      <4>2. QED BY ONLY <4>1, FS_Interval
    <3>3. PICK g : g = [j \in 1..k |-> <<i, j>>]
      OBVIOUS
    <3>4. IsFiniteSet({g[j] : j \in 1..k})
      <4>1. PICK J : J = 1..k
        OBVIOUS
      <4>2. IsFiniteSet(J) /\ g = [j \in J |-> g[j]]
        BY <3>2, <3>3, <4>1
      <4>3. IsFiniteSet({g[j] : j \in J})
        BY ONLY <4>2, ImageFinite
      <4>4. QED BY <4>1, <4>3
    <3>5. f[i] = {g[j] : j \in 1..k}
      BY <2>1, <3>1, <3>3
    <3>6. QED BY <3>4, <3>5
  <2>3. IsFiniteSet(UNION {f[i] : i \in 1..n})
    BY <1>1, <2>2, FiniteUnion
  <2>4. RefPositions(ms) \in SUBSET (UNION {f[i] : i \in 1..n})
    <3>1. ASSUME NEW i, NEW j, RefAt(ms, i, j) PROVE <<i, j>> \in f[i] /\ i \in 1..n
      BY <1>4, <2>1, <3>1
    <3>2. QED BY <1>3, <3>1
  <2>5. QED BY <2>3, <2>4, FS_Subset
<1>7. Windowed(ms) \in SUBSET RefPositions(ms)
  BY DEF Windowed, LastRefs
<1>8. IsFiniteSet(Windowed(ms))
  BY <1>6, <1>7, FS_Subset
<1>9. ASSUME NEW p \in Windowed(ms) PROVE FileAt(ms, p) \in Files
  BY <1>3, <1>4, <1>7
<1>10. QED BY <1>5, <1>7, <1>8, <1>9 DEF Referring

\* The blocks that are files after the references are swapped.
LEMMA FilesSwapped ==
  ASSUME NEW Id, NEW S, FiledRows(Id, S), NEW ms \in Seq(S), NEW loadable, NEW ns, ns = RehydrateDataRoomRefs(ms, loadable)
  PROVE  /\ ns \in Seq(Messages(Id))
         /\ \A i, j : HasAt(ns, {"file"}, i, j) <=>
                        RefAt(ms, i, j) /\ <<i, j>> \in RefsToLoad(ms) /\ FileAt(ms, <<i, j>>) \in loadable
         /\ \A i, j : HasAt(ns, {"file"}, i, j) => ns[i].blocks[j].id = ms[i].blocks[j].id
<1>1. PICK n : n = Len(ms) /\ n \in Nat /\ DOMAIN ms = 1..n /\ \A i \in 1..n : ms[i] \in S
  OBVIOUS
<1>2. PICK load : load = RefsToLoad(ms)
  OBVIOUS
<1>3. ns \in Seq(Bare(Id)) /\ Len(ns) = n
  <2>1. StoredRows(Id, S)
    BY DEF FiledRows
  <2>2. QED BY <1>1, <2>1, RehydrateBare DEF Likes
<1>4. ns = [row \in 1..n |->
              Msg(ms[row].role,
                  [col \in DOMAIN ms[row].blocks |->
                     IF ~IsRef(ms[row].blocks[col]) \/ ms[row].role # "user" THEN ms[row].blocks[col]
                     ELSE IF <<row, col>> \in load /\ ms[row].blocks[col].id[1] \in loadable
                          THEN Block("file", ms[row].blocks[col].id)
                          ELSE Block("stub", ms[row].blocks[col].id)])]
  BY <1>1, <1>2 DEF RehydrateDataRoomRefs
<1>5. \A i \in 1..n : ns[i] \in Messages(Id)
  <2>1. \A i \in 1..n : ns[i] \in Bare(Id)
    BY <1>1, <1>3
  <2>2. QED BY <2>1 DEF Bare
<1>6. ASSUME NEW i \in 1..n
      PROVE  /\ Len(ns[i].blocks) = Len(ms[i].blocks)
             /\ \A j \in 1..Len(ms[i].blocks) :
                  /\ ns[i].blocks[j].type = "file" <=>
                       ms[i].role = "user" /\ IsRef(ms[i].blocks[j]) /\ <<i, j>> \in load /\ ms[i].blocks[j].id[1] \in loadable
                  /\ ns[i].blocks[j].id = ms[i].blocks[j].id
  <2>1. PICK m, bs : m = ms[i] /\ bs = [col \in DOMAIN ms[i].blocks |->
                     IF ~IsRef(ms[i].blocks[col]) \/ ms[i].role # "user" THEN ms[i].blocks[col]
                     ELSE IF <<i, col>> \in load /\ ms[i].blocks[col].id[1] \in loadable
                          THEN Block("file", ms[i].blocks[col].id)
                          ELSE Block("stub", ms[i].blocks[col].id)]
    OBVIOUS
  <2>2. ns[i] = Msg(m.role, bs)
    BY <1>4, <2>1
  <2>3. ns[i].blocks = bs /\ bs \in Seq(Blocks(Id))
    BY <1>5, <2>2 DEF Msg, Messages
  <2>4. m \in Messages(Id) /\ Unswapped(m) /\ m.blocks \in Seq(Blocks(Id))
    BY <1>1, <2>1 DEF FiledRows, Messages
  <2>5. Len(bs) = Len(m.blocks) /\ DOMAIN m.blocks = 1..Len(m.blocks)
    <3>1. DOMAIN bs = DOMAIN m.blocks
      BY <2>1
    <3>2. QED BY <2>3, <2>4, <3>1
  <2>6. \A j \in 1..Len(m.blocks) : m.blocks[j].type # "file"
    BY <2>4, <2>5 DEF Unswapped, ToSet
  <2>7. \A j \in 1..Len(m.blocks) :
          bs[j] = IF ~IsRef(m.blocks[j]) \/ m.role # "user" THEN m.blocks[j]
                  ELSE IF <<i, j>> \in load /\ m.blocks[j].id[1] \in loadable
                       THEN Block("file", m.blocks[j].id)
                       ELSE Block("stub", m.blocks[j].id)
    BY <2>1, <2>5
  <2>8. \A id : Block("file", id).type = "file" /\ Block("stub", id).type = "stub" /\ Block("file", id).id = id /\ Block("stub", id).id = id
    BY DEF Block
  <2>9. ASSUME NEW j \in 1..Len(m.blocks)
        PROVE  /\ bs[j].type = "file" <=> m.role = "user" /\ IsRef(m.blocks[j]) /\ <<i, j>> \in load /\ m.blocks[j].id[1] \in loadable
               /\ bs[j].id = m.blocks[j].id
    BY <2>6, <2>7, <2>8
  <2>10. QED BY <2>1, <2>3, <2>5, <2>9
<1>7. \A i, j : RefAt(ms, i, j) => ms[i].blocks[j].id = <<FileAt(ms, <<i, j>>)>>
  BY RefsAre
<1>8. \A i, j : RefAt(ms, i, j) => ms[i].blocks[j].id[1] = FileAt(ms, <<i, j>>)
  BY DEF FileAt
<1>9. ns \in Seq(Messages(Id))
  BY <1>1, <1>3, <1>5
<1>10. \A i, j : HasAt(ns, {"file"}, i, j) <=> i \in 1..n /\ j \in 1..Len(ms[i].blocks) /\ ns[i].blocks[j].type = "file"
  BY <1>3, <1>6 DEF HasAt
<1>11. ASSUME NEW i, NEW j, HasAt(ns, {"file"}, i, j)
       PROVE  /\ RefAt(ms, i, j) /\ <<i, j>> \in RefsToLoad(ms) /\ FileAt(ms, <<i, j>>) \in loadable
              /\ ns[i].blocks[j].id = ms[i].blocks[j].id
  <2>1. i \in 1..n /\ j \in 1..Len(ms[i].blocks) /\ ns[i].blocks[j].type = "file"
    BY <1>10, <1>11
  <2>2. /\ ms[i].role = "user" /\ IsRef(ms[i].blocks[j]) /\ <<i, j>> \in load /\ ms[i].blocks[j].id[1] \in loadable
        /\ ns[i].blocks[j].id = ms[i].blocks[j].id
    BY <1>6, <2>1
  <2>3. RefAt(ms, i, j)
    BY <1>1, <2>1, <2>2 DEF RefAt
  <2>4. QED BY <1>2, <1>8, <2>2, <2>3
<1>12. ASSUME NEW i, NEW j, RefAt(ms, i, j), <<i, j>> \in RefsToLoad(ms), FileAt(ms, <<i, j>>) \in loadable
       PROVE  HasAt(ns, {"file"}, i, j)
  <2>1. i \in 1..n /\ j \in 1..Len(ms[i].blocks) /\ ms[i].role = "user" /\ IsRef(ms[i].blocks[j])
    BY <1>1, <1>12 DEF RefAt
  <2>2. ms[i].blocks[j].id[1] \in loadable
    BY <1>8, <1>12
  <2>3. ns[i].blocks[j].type = "file"
    BY <1>2, <1>6, <1>12, <2>1, <2>2
  <2>4. QED BY <1>10, <2>1, <2>3
<1>13. QED BY <1>9, <1>11, <1>12

\* What the swapped references load: each file once, and no more than the budget.
LEMMA SwappedFit ==
  ASSUME NEW Id, NEW S, FiledRows(Id, S), NEW ms \in Seq(S), NEW loadable, NEW ids,
         ids = AllIds(RehydrateDataRoomRefs(ms, loadable), {"file"})
  PROVE  /\ SizeOf(ids) <= FileBudget /\ IsInjective(ids)
         /\ \A p \in RefsToLoad(ms) : FileAt(ms, p) \in loadable => <<FileAt(ms, p)>> \in ToSet(ids)
<1>1. PICK ns, load, types : ns = RehydrateDataRoomRefs(ms, loadable) /\ load = RefsToLoad(ms) /\ types = {"file"}
  OBVIOUS
<1>2. /\ ns \in Seq(Messages(Id))
      /\ \A i, j : HasAt(ns, types, i, j) <=> RefAt(ms, i, j) /\ <<i, j>> \in load /\ FileAt(ms, <<i, j>>) \in loadable
      /\ \A i, j : HasAt(ns, types, i, j) => ns[i].blocks[j].id = ms[i].blocks[j].id
  BY <1>1, FilesSwapped
<1>3. /\ \A p : p \in RefPositions(ms) <=> \E i, j : p = <<i, j>> /\ RefAt(ms, i, j)
      /\ \A i, j : RefAt(ms, i, j) => ms[i].blocks[j].id = <<FileAt(ms, <<i, j>>)>> /\ FileAt(ms, <<i, j>>) \in Files
  BY RefsAre
<1>4. Referring(ms)
  BY RefsRefer
<1>5. load \subseteq Windowed(ms) /\ Windowed(ms) \subseteq LastRefs(ms) /\ Windowed(ms) \subseteq Spots
      /\ LastRefs(ms) \subseteq RefPositions(ms)
  BY <1>1, <1>4, LoadFits DEF Windowed, LastRefs, Referring
<1>6. \A p, q \in load : FileAt(ms, p) = FileAt(ms, q) => p = q
  <2>1. SUFFICES ASSUME NEW p \in load, NEW q \in load, FileAt(ms, p) = FileAt(ms, q), p # q PROVE FALSE
    OBVIOUS
  <2>2. p \in LastRefs(ms) /\ q \in LastRefs(ms) /\ p \in Spots /\ q \in Spots /\ p \in RefPositions(ms) /\ q \in RefPositions(ms)
    BY <1>5
  <2>3. ~Before(p, q) /\ ~Before(q, p)
    BY <2>1, <2>2 DEF LastRefs
  <2>4. QED BY <2>1, <2>2, <2>3, SpotsOrdered
<1>7. \A i, j : HasAt(ns, types, i, j) => ns[i].blocks[j].id = <<FileAt(ms, <<i, j>>)>> /\ <<i, j>> \in load
  BY <1>2, <1>3
<1>8. OnceEach(ns, types)
  <2>1. SUFFICES ASSUME NEW i, NEW j, NEW k, NEW l, HasAt(ns, types, i, j), HasAt(ns, types, k, l),
                        ns[i].blocks[j].id = ns[k].blocks[l].id
                 PROVE  i = k /\ j = l
    BY DEF OnceEach
  <2>2. <<FileAt(ms, <<i, j>>)>> = <<FileAt(ms, <<k, l>>)>> /\ <<i, j>> \in load /\ <<k, l>> \in load
    BY <1>7, <2>1
  <2>3. FileAt(ms, <<i, j>>) = FileAt(ms, <<k, l>>)
    BY <2>2
  <2>4. <<i, j>> = <<k, l>>
    BY <1>6, <2>2, <2>3
  <2>5. QED BY <2>4
<1>9. ids = AllIds(ns, types)
  BY <1>1
<1>10. (\A x : x \in ToSet(ids) <=> \E i, j : HasAt(ns, types, i, j) /\ ns[i].blocks[j].id = x) /\ IsInjective(ids)
  BY <1>2, <1>8, <1>9, AllElements
<1>11. ids \in Seq(Id \cup {<<>>})
  BY <1>2, <1>9, AllType
<1>12. \A x \in ToSet(ids) : x \in Named(ms, load) /\ x \in FileIds
  <2>1. SUFFICES ASSUME NEW x \in ToSet(ids) PROVE x \in Named(ms, load) /\ x \in FileIds
    OBVIOUS
  <2>2. PICK i, j : HasAt(ns, types, i, j) /\ ns[i].blocks[j].id = x
    BY <1>10
  <2>3. x = <<FileAt(ms, <<i, j>>)>> /\ <<i, j>> \in load /\ FileAt(ms, <<i, j>>) \in Files
    BY <1>2, <1>3, <1>7, <2>2
  <2>4. QED BY <2>3 DEF Named, FileIds
<1>13. ids \in Seq(FileIds)
  <2>0. PICK n : n = Len(ids) /\ n \in Nat
    BY <1>11
  <2>1. n = Len(ids) /\ n \in Nat /\ DOMAIN ids = 1..n /\ ids = [i \in 1..n |-> ids[i]]
    BY <1>11, <2>0
  <2>2. \A i \in 1..n : ids[i] \in FileIds
    BY <1>12, <2>1 DEF ToSet
  <2>3. QED BY ONLY <2>1, <2>2, SequenceIs
<1>14. SizeOf(ids) <= FileBudget
  BY <1>1, <1>4, <1>10, <1>12, <1>13, LoadFits
<1>15. ASSUME NEW p \in load, FileAt(ms, p) \in loadable PROVE <<FileAt(ms, p)>> \in ToSet(ids)
  <2>1. PICK i, j : p = <<i, j>> /\ RefAt(ms, i, j)
    BY <1>3, <1>5
  <2>2. HasAt(ns, types, i, j)
    BY <1>2, <1>15, <2>1
  <2>3. QED BY <1>7, <1>10, <2>1, <2>2
<1>16. QED BY <1>1, <1>10, <1>14, <1>15

(* Whatever is stored, the files loaded into one request stay within the   *)
(* budget, each of them comes once, and the newest of them is left out     *)
(* only if it is too large or cannot be read (collectRefs, swapRefs).      *)
THEOREM OnlyFilesThatFit ==
  ASSUME NEW Id, NEW S, FiledRows(Id, S), NEW rs \in Seq(S), Framed(rs), NEW loadable, NEW summed \in BOOLEAN,
         NEW ms, ms = TrimToLastCompaction(rs), NEW ids, ids = AllIds(History(rs, loadable, summed), {"file"})
  PROVE  /\ SizeOf(ids) <= FileBudget /\ IsInjective(ids)
         /\ \A p \in Windowed(ms) :
              (\A q \in Windowed(ms) : ~Before(p, q)) /\ FileSize[FileAt(ms, p)] <= FileBudget /\ FileAt(ms, p) \in loadable
                => <<FileAt(ms, p)>> \in ToSet(ids)
<1>1. PICK b, c, d, e, types :
        /\ b = RehydrateDataRoomRefs(ms, loadable) /\ c = DropOrphanServerToolResults(b)
        /\ d = SanitizeToolPairs(c) /\ e = MergeConsecutiveRoles(d) /\ types = {"file"}
  OBVIOUS
<1>2. Lasting(types) /\ StoredRows(Id, S)
  BY <1>1 DEF Lasting, FiledRows
<1>3. ms \in Seq(S) /\ Framed(ms)
  BY <1>2, TrimFramed
<1>4. b \in Seq(Bare(Id)) /\ Likes(b, ms)
  BY <1>1, <1>2, <1>3, RehydrateBare
<1>5. c \in Seq(Clean(Id)) /\ Likes(c, b)
  BY <1>1, <1>4, DropClean
<1>6. Framed(c)
  BY <1>3, <1>4, <1>5, LikesFramed
<1>7. /\ d \in Seq(Clean(Id)) /\ Pairs(d) /\ d # <<>> /\ d[1].role = "user" /\ Loose(d[Len(d)])
  BY <1>1, <1>5, <1>6, SanitizeFramed
<1>8. Good(Id, e)
  BY <1>1, <1>7, MergeGood DEF Loose
<1>9. AllIds(c, types) = AllIds(b, types)
  BY <1>1, <1>2, <1>4, DropKeeps
<1>10. AllIds(d, types) = AllIds(c, types)
  BY <1>1, <1>2, <1>5, SanitizeKeeps
<1>11. AllIds(e, types) = AllIds(d, types)
  BY <1>1, <1>2, <1>7, MergeKeeps
<1>12. AllIds(WithSeedSummary(e), types) = AllIds(e, types)
  BY <1>2, <1>8, SeedKeeps
<1>13. History(rs, loadable, summed) = IF summed THEN WithSeedSummary(e) ELSE e
  BY <1>1 DEF History
<1>14. ids = AllIds(RehydrateDataRoomRefs(ms, loadable), {"file"})
  BY <1>1, <1>9, <1>10, <1>11, <1>12, <1>13
<1>15. \A p \in Windowed(ms) :
         (\A q \in Windowed(ms) : ~Before(p, q)) /\ FileSize[FileAt(ms, p)] <= FileBudget => p \in RefsToLoad(ms)
  BY <1>3, RefsRefer, NewestLoads
<1>16. QED BY <1>3, <1>14, <1>15, SwappedFit

-----------------------------------------------------------------------------
(* The references of every history of Growth are of files.                  *)

Referable == {m \in HistoryRows : Filed(m)}

LEMMA PromptFiled ==
  ASSUME NEW n \in Nat, NEW bs \in PromptBlocks(Block("text", <<n>>)) PROVE Msg("user", bs) \in Referable
<1>0. PICK m, t : m = Msg("user", bs) /\ t = Block("text", <<n>>)
  OBVIOUS
<1>1. m = Msg("user", bs) /\ m.blocks = bs /\ t = Block("text", <<n>>) /\ ~IsRef(t)
  BY <1>0 DEF Msg, Block, IsRef
<1>2. m \in HistoryRows
  BY <1>1, PromptRowIs
<1>3. CASE bs = <<t>>
  <2>1. ToSet(bs) = {t}
    BY <1>3, SingleBlock
  <2>2. QED BY <1>1, <1>2, <2>1 DEF Referable, Filed
<1>4. CASE \E f \in Files : bs = <<UploadRef(f), t>>
  <2>1. PICK f \in Files : bs = <<UploadRef(f), t>>
    BY <1>4
  <2>2. ToSet(bs) = {UploadRef(f), t}
    <3>1. PICK u, S : u = UploadRef(f) /\ S = {u, t}
      OBVIOUS
    <3>2. ToSet(<<u, t>>) = {u, t}
      <4>1. u \in S /\ t \in S
        BY <3>1
      <4>2. QED BY ONLY <4>1, RowOfTwo
    <3>3. QED BY <2>1, <3>1, <3>2
  <2>3. UploadRef(f).id \in FileIds
    BY DEF UploadRef, Block, FileIds
  <2>4. QED BY <1>1, <1>2, <2>2, <2>3 DEF Referable, Filed
<1>5. QED BY <1>1, <1>3, <1>4 DEF PromptBlocks

LEMMA UserFiled ==
  ASSUME history \in Seq(HistoryRows), NEW bs \in UserBlocks PROVE Msg("user", bs) \in Referable
<1>1. PICK m : m = Msg("user", bs) /\ m.blocks = bs /\ m \in HistoryRows
  BY UserRowIs DEF Msg
<1>2. CASE bs \in PromptBlocks(Text)
  <2>1. PICK n \in Nat : Text = Block("text", <<n>>)
    BY DEF Text, Fresh
  <2>2. QED BY <1>2, <2>1, PromptFiled
<1>3. CASE bs \in ResultBlocks
  <2>1. \A b \in ToSet(bs) : ~IsRef(b)
    BY <1>3, ResultRowIs DEF IsRef
  <2>2. QED BY <1>1, <2>1 DEF Referable, Filed
<1>4. CASE bs \in {<<ReadRef(f)>> : f \in Files}
  <2>1. PICK f \in Files : bs = <<ReadRef(f)>>
    BY <1>4
  <2>2. ToSet(bs) = {ReadRef(f)}
    BY <2>1, SingleBlock
  <2>3. ReadRef(f).id \in FileIds
    BY DEF ReadRef, Block, FileIds
  <2>4. QED BY <1>1, <2>2, <2>3 DEF Referable, Filed
<1>5. QED BY <1>2, <1>3, <1>4 DEF UserBlocks

LEMMA AssistantFiled == \A m \in HistoryRows : m.role = "assistant" => m \in Referable
  BY DEF HistoryRows, IsRow, Shape, NoRefs, Referable, Filed

GrownFiled == history \in Seq(Referable)

LEMMA InitGrownFiled == FirstRow => GrownFiled
<1> SUFFICES ASSUME FirstRow PROVE GrownFiled
  OBVIOUS
<1>1. PICK bs \in PromptBlocks(Block("text", <<1>>)) : history = <<Msg("user", bs)>>
  BY DEF FirstRow
<1>2. PICK m : m = Msg("user", bs) /\ m \in Referable
  BY <1>1, PromptFiled
<1>3. <<m>> \in Seq(Referable)
  BY <1>2, RowOfOne
<1>4. QED BY <1>1, <1>2, <1>3 DEF GrownFiled

LEMMA NextGrownFiled == Grown /\ GrownFiled /\ [NextRow]_historyVars => GrownFiled'
<1> SUFFICES ASSUME Grown, GrownFiled, [NextRow]_historyVars PROVE GrownFiled'
  OBVIOUS
<1>1. CASE UNCHANGED historyVars
  BY <1>1 DEF GrownFiled, historyVars
<1>2. CASE NextRow
  <2>1. PICK m \in Referable : history' = Append(history, m)
    <3>1. CASE Store("assistant", AssistantBlocks)
      <4>1. PICK bs \in AssistantBlocks : history' = Append(history, Msg("assistant", bs))
        BY <3>1 DEF Store
      <4>2. Msg("assistant", bs) \in HistoryRows
        BY AssistantRowIs DEF Grown
      <4>3. Msg("assistant", bs).role = "assistant"
        BY DEF Msg
      <4>4. QED BY <4>1, <4>2, <4>3, AssistantFiled
    <3>2. CASE Store("user", UserBlocks)
      BY <3>2, UserFiled DEF Store, Grown
    <3>3. QED BY <1>2, <3>1, <3>2 DEF NextRow
  <2>2. QED BY <2>1 DEF GrownFiled
<1>3. QED BY <1>1, <1>2

LEMMA GrownFits == Grown /\ GrownFiled => FilesInBudget
<1> SUFFICES ASSUME Grown, GrownFiled PROVE FilesInBudget
  OBVIOUS
<1>1. PICK rs, S, Id, ms, ids : rs = Asked /\ S = Referable /\ Id = HistoryId /\ ms = TrimToLastCompaction(Asked)
                                /\ ids = AllIds(Loaded, {"file"})
  OBVIOUS
<1>2. Framed(rs) /\ StoredRows(Id, HistoryRows) /\ seeded \in BOOLEAN
  BY <1>1, AskedFramed DEF Grown
<1>3. rs \in Seq(S)
  <2>1. PICK n \in Nat : Text = Block("text", <<n>>)
    BY DEF Text, Fresh
  <2>2. <<Text>> \in PromptBlocks(Text)
    BY DEF PromptBlocks
  <2>3. PICK m : m = Msg("user", <<Text>>) /\ m \in S
    BY <1>1, <2>1, <2>2, PromptFiled
  <2>4. QED BY <1>1, <2>3 DEF Asked, GrownFiled
<1>4. FiledRows(Id, S)
  <2>1. \A m \in S : IsRow(Id, m) /\ m \in Messages(Id) /\ Unswapped(m) /\ Filed(m)
    BY <1>1 DEF Referable, HistoryRows
  <2>2. Msg("user", <<Filler>>) \in S
    <3>1. PICK m, bs : bs = <<Filler>> /\ m = Msg("user", bs)
      OBVIOUS
    <3>2. m \in HistoryRows /\ m.blocks = bs /\ ToSet(bs) = {Filler} /\ ~IsRef(Filler)
      BY <1>2, <3>1, SingleBlock DEF StoredRows, Msg, Filler, Block, IsRef
    <3>3. QED BY <1>1, <3>1, <3>2 DEF Referable, Filed
  <2>3. QED BY <2>1, <2>2 DEF FiledRows, StoredRows
<1>5. ids = AllIds(History(rs, readable, seeded), {"file"})
  BY <1>1 DEF Loaded
<1>6. /\ SizeOf(ids) <= FileBudget /\ IsInjective(ids)
      /\ \A p \in Windowed(ms) :
           (\A q \in Windowed(ms) : ~Before(p, q)) /\ FileSize[FileAt(ms, p)] <= FileBudget /\ FileAt(ms, p) \in readable
             => <<FileAt(ms, p)>> \in ToSet(ids)
  <2>1. ms = TrimToLastCompaction(rs)
    BY <1>1
  <2>2. QED BY ONLY <1>2, <1>3, <1>4, <1>5, <2>1, OnlyFilesThatFit
<1>7. ASSUME Files \subseteq readable, NEW p \in LastRefs(ms), Cardinality(PromptsAfter(ms, p[1])) < WindowPrompts,
             {q \in LastRefs(ms) : Before(p, q)} = {}, FileSize[FileAt(ms, p)] <= FileBudget
      PROVE  <<FileAt(ms, p)>> \in ToSet(ids)
  <2>1. p \in Windowed(ms) /\ \A q \in Windowed(ms) : ~Before(p, q)
    BY <1>7 DEF Windowed
  <2>2. ms \in Seq(S)
    BY <1>1, <1>2, <1>3, <1>4, TrimFramed DEF FiledRows
  <2>3. FileAt(ms, p) \in Files
    BY <1>4, <2>1, <2>2, RefsRefer DEF Referring
  <2>4. QED BY <1>6, <1>7, <2>1, <2>3
<1>8. QED BY <1>1, <1>6, <1>7 DEF FilesInBudget

(* However a history has grown, the files loaded for a turn stay within     *)
(* the budget, each is loaded once, and the newest that fits is loaded      *)
(* (collectRefs, runTurn).                                                 *)
THEOREM AllFilesFit == Growth => []FilesInBudget
<1>1. Growth => [](Grown /\ GrownFiled)
  BY InitGrown, NextGrown, InitGrownFiled, NextGrownFiled, PTL DEF Growth
<1>2. QED BY <1>1, GrownFits, PTL

-----------------------------------------------------------------------------
(* Taking elements, and mapping them one by one.                            *)

\* All of a sequence is taken when every position is.
LEMMA SelectAll == ASSUME NEW S, NEW s \in Seq(S), NEW J, 1..Len(s) \subseteq J PROVE SelectAt(s, J) = s
<1>1. PICK f, n, T : Selects(f, S, s, J) /\ n = Len(s) /\ T = Seq(S)
  BY SelectAtSteps
<1>2a. n \in Nat /\ \A i \in 1..n : s[i] \in S /\ i \in J
  BY <1>1
<1>2. /\ SelectAt(s, J) = f[n] /\ f[0] = <<>> /\ n \in Nat
      /\ \A i \in 0..n : f[i] \in T
      /\ \A i \in 1..n : f[i] = Append(f[i - 1], s[i]) /\ s[i] \in S
  BY <1>1, <1>2a DEF Selects
<1> DEFINE P == {i \in 0..n : Len(f[i]) = i /\ \A k \in 1..i : f[i][k] = s[k]}
<1>3. 0 \in P
  BY <1>2
<1>4. ASSUME NEW i \in 1..n, i - 1 \in P PROVE i \in P
  <2>1. i \in 0..n /\ i - 1 \in 0..n /\ (i - 1) + 1 = i /\ \A k \in 1..i : k = i \/ k \in 1..(i - 1)
    BY <1>2
  <2>2. PICK t : t = f[i - 1] /\ t \in Seq(S) /\ Len(t) = i - 1 /\ \A k \in 1..(i - 1) : t[k] = s[k]
    BY <1>1, <1>2, <1>4, <2>1
  <2>3. /\ Len(Append(t, s[i])) = Len(t) + 1 /\ Append(t, s[i])[Len(t) + 1] = s[i]
        /\ \A k \in 1..Len(t) : Append(t, s[i])[k] = t[k]
    BY ONLY <2>2, <1>2, i \in 1..n, Appended
  <2>4. QED BY <1>2, <2>1, <2>2, <2>3
<1>5. n \in P
  <2>1. n \in 0..n
    BY <1>2
  <2> HIDE DEF P
  <2>2. QED BY <1>2, <1>3, <1>4, <2>1, Induction
<1>6. QED
  <2>1. f[n] \in Seq(S) /\ Len(f[n]) = Len(s) /\ \A k \in 1..Len(s) : f[n][k] = s[k]
    BY <1>1, <1>2, <1>5
  <2>2. f[n] = s
    BY <2>1, SameSequence
  <2>3. QED BY <1>2, <2>2

\* One more element is taken after the others, or is not.
LEMMA SelectAtAppend ==
  ASSUME NEW S, NEW s \in Seq(S), NEW e \in S, NEW J, NEW K, \A i \in 1..Len(s) : i \in J <=> i \in K
  PROVE  SelectAt(Append(s, e), K) = IF Len(s) + 1 \in K THEN Append(SelectAt(s, J), e) ELSE SelectAt(s, J)
<1>1. PICK t, n : t = Append(s, e) /\ n = Len(s)
  OBVIOUS
<1>2. n \in Nat /\ t \in Seq(S) /\ Len(t) = n + 1 /\ t[n + 1] = e /\ \A k \in 1..n : t[k] = s[k]
  BY ONLY <1>1, s \in Seq(S), e \in S, Appended
<1>3. PICK f : Selects(f, S, s, J)
  BY SelectAtSteps
<1>4. PICK g : Selects(g, S, t, K)
  BY <1>2, SelectAtSteps
<1>5. /\ SelectAt(s, J) = f[n] /\ f[0] = <<>>
      /\ \A i \in 1..n : f[i] = IF i \in J THEN Append(f[i - 1], s[i]) ELSE f[i - 1]
  BY <1>1, <1>3 DEF Selects
<1>6. /\ SelectAt(t, K) = g[n + 1] /\ g[0] = <<>>
      /\ \A i \in 1..(n + 1) : g[i] = IF i \in K THEN Append(g[i - 1], t[i]) ELSE g[i - 1]
  BY <1>2, <1>4 DEF Selects
<1> DEFINE P == {i \in 0..n : g[i] = f[i]}
<1>7. ASSUME NEW i \in 1..n, i - 1 \in P PROVE i \in P
  <2>1. i \in 1..(n + 1) /\ i \in 0..n /\ g[i - 1] = f[i - 1] /\ t[i] = s[i] /\ (i \in J <=> i \in K)
    BY <1>1, <1>2, <1>7
  <2>2. QED BY <1>5, <1>6, <2>1
<1>8. g[n] = f[n]
  <2>1. n \in 0..n /\ 0 \in P
    BY <1>2, <1>5, <1>6
  <2>2. P \subseteq {i \in 0..n : g[i] = f[i]}
    OBVIOUS
  <2> HIDE DEF P
  <2>3. n \in P
    BY <1>2, <1>7, <2>1, Induction
  <2>4. QED BY <2>2, <2>3
<1>9. n + 1 \in 1..(n + 1) /\ (n + 1) - 1 = n
  BY <1>2
<1>10. QED BY <1>1, <1>2, <1>5, <1>6, <1>8, <1>9

\* A sequence mapped element by element.
Into(F, A, B) == F \in [A -> B]
EachOf(h, F, B, s) == h \in Seq(B) /\ Len(h) = Len(s) /\ Len(s) \in Nat /\ \A i \in 1..Len(s) : h[i] = F[s[i]]

LEMMA EachFacts == ASSUME NEW A, NEW B, NEW F, Into(F, A, B), NEW s \in Seq(A) PROVE EachOf(Images(F, s), F, B, s)
<1>1. PICK h : h = Images(F, s)
  OBVIOUS
<1> DEFINE n == Len(s)
<1>2. n \in Nat /\ DOMAIN s = 1..n /\ \A i \in 1..n : s[i] \in A
  OBVIOUS
<1> HIDE DEF n
<1>3. DOMAIN h = 1..n /\ h = [i \in 1..n |-> h[i]] /\ \A i \in 1..n : h[i] = F[s[i]]
  BY <1>1, <1>2 DEF Images
<1>4. \A i \in 1..n : h[i] \in B
  BY <1>1, <1>2, <1>3 DEF Into
<1>5. h \in Seq(B) /\ Len(h) = n
  BY ONLY <1>2, <1>3, <1>4, SequenceIs
<1>6. QED BY <1>1, <1>2, <1>3, <1>5 DEF n, EachOf

LEMMA EachConcat ==
  ASSUME NEW A, NEW B, NEW F, Into(F, A, B), NEW s \in Seq(A), NEW t \in Seq(A)
  PROVE  Images(F, s \o t) = Images(F, s) \o Images(F, t)
<1>1. PICK h, g, k, u : h = Images(F, s) /\ g = Images(F, t) /\ u = s \o t /\ k = Images(F, u)
  OBVIOUS
<1>2. EachOf(h, F, B, s) /\ EachOf(g, F, B, t)
  BY <1>1, EachFacts
<1>3a. PICK n : n = Len(s) /\ n \in Nat
  OBVIOUS
<1>3b. PICK m : m = Len(t) /\ m \in Nat
  OBVIOUS
<1>3. n = Len(s) /\ m = Len(t) /\ n \in Nat /\ m \in Nat
  BY <1>3a, <1>3b
<1>4. u \in Seq(A) /\ Len(u) = n + m /\ \A i \in 1..(n + m) : u[i] = IF i <= n THEN s[i] ELSE t[i - n]
  BY ONLY <1>1, <1>3, s \in Seq(A), t \in Seq(A), Concat
<1>5. EachOf(k, F, B, u)
  BY <1>1, <1>4, EachFacts
<1>6. PICK v : v = h \o g
  OBVIOUS
<1>7. h \in Seq(B) /\ g \in Seq(B) /\ Len(h) = n /\ Len(g) = m
  BY <1>2, <1>3 DEF EachOf
<1>8a. h \in Seq(B) /\ g \in Seq(B)
  BY <1>7
<1>8b. v \in Seq(B) /\ Len(v) = Len(h) + Len(g) /\ \A i \in 1..(Len(h) + Len(g)) : v[i] = IF i <= Len(h) THEN h[i] ELSE g[i - Len(h)]
  BY ONLY <1>6, <1>8a, Concat
<1>8. v \in Seq(B) /\ Len(v) = n + m /\ \A i \in 1..(n + m) : v[i] = IF i <= n THEN h[i] ELSE g[i - n]
  BY <1>7, <1>8b
<1>8c. /\ \A i \in 1..n : h[i] = F[s[i]]
       /\ \A i \in 1..m : g[i] = F[t[i]]
       /\ \A i \in 1..(n + m) : k[i] = F[u[i]]
  BY <1>2, <1>3, <1>4, <1>5 DEF EachOf
<1>9. ASSUME NEW i \in 1..(n + m) PROVE k[i] = v[i]
  <2>1. CASE i <= n
    <3>1. i \in 1..n
      BY <1>3, <2>1
    <3>2. QED BY <1>4, <1>8, <1>8c, <2>1, <3>1
  <2>2. CASE ~(i <= n)
    <3>1. i - n \in 1..m
      BY <1>3, <2>2
    <3>2. QED BY <1>4, <1>8, <1>8c, <2>2, <3>1
  <2>3. QED BY <2>1, <2>2
<1>10. k \in Seq(B) /\ Len(k) = n + m
  BY <1>4, <1>5 DEF EachOf
<1>11. k = v
  BY <1>7, <1>8, <1>9, <1>10, SameSequence
<1>12. QED BY <1>1, <1>6, <1>11

LEMMA EachAppend ==
  ASSUME NEW A, NEW B, NEW F, Into(F, A, B), NEW s \in Seq(A), NEW a \in A
  PROVE  Images(F, Append(s, a)) = Append(Images(F, s), F[a])
<1>1. PICK t, u, k : t = <<a>> /\ u = Images(F, t) /\ k = Images(F, s)
  OBVIOUS
<1>2. t \in Seq(A) /\ Len(t) = 1 /\ t[1] = a
  BY <1>1
<1>3. EachOf(u, F, B, t) /\ EachOf(k, F, B, s)
  BY <1>1, <1>2, EachFacts
<1>4. u \in Seq(B) /\ Len(u) = 1 /\ u[1] = F[a] /\ F[a] \in B /\ k \in Seq(B)
  BY <1>2, <1>3 DEF EachOf, Into
<1>5. u = <<F[a]>>
  BY <1>4
<1>6. Images(F, s \o t) = k \o u
  <2>1. \A x \in Seq(A), y \in Seq(A) : Images(F, x \o y) = Images(F, x) \o Images(F, y)
    BY EachConcat
  <2>2. QED BY <1>1, <1>2, <2>1
<1>7. s \o <<a>> = Append(s, a) /\ k \o <<F[a]>> = Append(k, F[a])
  BY <1>4
<1>8. QED BY <1>1, <1>5, <1>6, <1>7

\* Taking elements commutes with mapping them.
LEMMA SelectAtEach ==
  ASSUME NEW A, NEW B, NEW F, Into(F, A, B), NEW s \in Seq(A), NEW J
  PROVE  SelectAt(Images(F, s), J) = Images(F, SelectAt(s, J))
<1>1. PICK h, n : h = Images(F, s) /\ n = Len(s)
  OBVIOUS
<1>2. EachOf(h, F, B, s)
  BY <1>1, EachFacts
<1>2a. h \in Seq(B) /\ Len(h) = n /\ n \in Nat /\ \A i \in 1..n : h[i] = F[s[i]] /\ s[i] \in A
  BY <1>1, <1>2 DEF EachOf
<1>3. PICK f : Selects(f, A, s, J)
  BY SelectAtSteps
<1>4. PICK g : Selects(g, B, h, J)
  BY <1>2a, SelectAtSteps
<1>5. /\ SelectAt(s, J) = f[n] /\ f[0] = <<>> /\ \A i \in 0..n : f[i] \in Seq(A)
      /\ \A i \in 1..n : f[i] = IF i \in J THEN Append(f[i - 1], s[i]) ELSE f[i - 1]
  BY <1>1, <1>3 DEF Selects
<1>6. /\ SelectAt(h, J) = g[n] /\ g[0] = <<>>
      /\ \A i \in 1..n : g[i] = IF i \in J THEN Append(g[i - 1], h[i]) ELSE g[i - 1]
  BY <1>2a, <1>4 DEF Selects
<1> DEFINE P == {i \in 0..n : g[i] = Images(F, f[i])}
<1>7. 0 \in P
  <2>1. Images(F, <<>>) = <<>>
    BY DEF Images
  <2>2. QED BY <1>2a, <1>5, <1>6, <2>1
<1>8. ASSUME NEW i \in 1..n, i - 1 \in P PROVE i \in P
  <2>1. i \in 0..n /\ i - 1 \in 0..n /\ g[i - 1] = Images(F, f[i - 1]) /\ h[i] = F[s[i]] /\ s[i] \in A
    BY <1>2a, <1>8
  <2>2. f[i - 1] \in Seq(A)
    BY <1>5, <2>1
  <2>3. Images(F, Append(f[i - 1], s[i])) = Append(Images(F, f[i - 1]), F[s[i]])
    <3>1. \A x \in Seq(A), a \in A : Images(F, Append(x, a)) = Append(Images(F, x), F[a])
      BY EachAppend
    <3>2. QED BY ONLY <2>1, <2>2, <3>1
  <2>4. g[i] = Images(F, f[i])
    BY <1>5, <1>6, <2>1, <2>3
  <2>5. QED BY <2>1, <2>4
<1>9. n \in P
  <2>1. n \in 0..n
    BY <1>2a
  <2> HIDE DEF P
  <2>2. QED BY <1>2a, <1>7, <1>8, <2>1, Induction
<1>10. QED BY <1>1, <1>5, <1>6, <1>9

-----------------------------------------------------------------------------
(* Files that become stubs: nothing the repairs look at.                    *)

BlockFade(Id)   == [b \in Blocks(Id) |-> IF b.type = "file" THEN Block("stub", b.id) ELSE b]
MessageFade(Id) == [m \in Messages(Id) |-> Msg(m.role, Images(BlockFade(Id), m.blocks))]

\* What a message and the one it fades to have in common.
FadesTo(n, m) ==
  /\ n.role = m.role /\ Len(n.blocks) = Len(m.blocks)
  /\ \A j \in 1..Len(m.blocks) : n.blocks[j] = IF m.blocks[j].type = "file" THEN Block("stub", m.blocks[j].id) ELSE m.blocks[j]
  /\ \A type \in BlockType \ {"file", "stub"} :
       Ids(n, type) = Ids(m, type) /\ (Has(n, type) <=> Has(m, type)) /\ (Only(n, type) <=> Only(m, type))

LEMMA BlockFadeType == ASSUME NEW Id PROVE Into(BlockFade(Id), Blocks(Id), Blocks(Id))
<1>1. ASSUME NEW b \in Blocks(Id) PROVE Block("stub", b.id) \in Blocks(Id)
  BY BlockIs DEF Blocks, BlockType
<1>2. QED BY <1>1 DEF BlockFade, Into

LEMMA MessageFades ==
  ASSUME NEW Id, NEW m \in Messages(Id), NEW n, n = MessageFade(Id)[m]
  PROVE  /\ n \in Messages(Id) /\ FadesTo(n, m) /\ n = Msg(m.role, Images(BlockFade(Id), m.blocks))
         /\ n.blocks = Images(BlockFade(Id), m.blocks)
<1>1. m.role \in {"user", "assistant"} /\ m.blocks \in Seq(Blocks(Id))
  BY DEF Messages
<1>2. PICK bs : bs = Images(BlockFade(Id), m.blocks)
  OBVIOUS
<1>3. EachOf(bs, BlockFade(Id), Blocks(Id), m.blocks)
  BY <1>1, <1>2, EachFacts, BlockFadeType
<1>4. n = Msg(m.role, bs)
  BY <1>2 DEF MessageFade
<1>5. n \in Messages(Id) /\ n.role = m.role /\ n.blocks = bs
  <2>1. bs \in Seq(Blocks(Id))
    BY <1>3 DEF EachOf
  <2>2. QED BY <1>1, <1>4, <2>1, MsgIs
<1>6. PICK k : k = Len(m.blocks) /\ k \in Nat /\ DOMAIN m.blocks = 1..k /\ Len(bs) = k /\ DOMAIN bs = 1..k
  BY <1>1, <1>3 DEF EachOf
<1>7. ASSUME NEW j \in 1..k
      PROVE  bs[j] = IF m.blocks[j].type = "file" THEN Block("stub", m.blocks[j].id) ELSE m.blocks[j]
  <2>1. m.blocks[j] \in Blocks(Id) /\ bs[j] = BlockFade(Id)[m.blocks[j]]
    BY <1>1, <1>3, <1>6 DEF EachOf
  <2>2. QED BY <2>1 DEF BlockFade
<1>8. ASSUME NEW type \in BlockType \ {"file", "stub"}
      PROVE  Ids(n, type) = Ids(m, type) /\ (Has(n, type) <=> Has(m, type)) /\ (Only(n, type) <=> Only(m, type))
  <2>1. ToSet(n.blocks) = {bs[j] : j \in 1..k} /\ ToSet(m.blocks) = {m.blocks[j] : j \in 1..k}
    BY <1>5, <1>6 DEF ToSet
  <2>2. ASSUME NEW j \in 1..k
        PROVE  /\ bs[j].type = type <=> m.blocks[j].type = type
               /\ bs[j].id = m.blocks[j].id
    <3>1. \A i : Block("stub", i).type = "stub" /\ Block("stub", i).id = i
      BY DEF Block
    <3>2. type # "file" /\ type # "stub"
      OBVIOUS
    <3>3. CASE m.blocks[j].type = "file"
      BY <1>7, <3>1, <3>2, <3>3
    <3>4. CASE m.blocks[j].type # "file"
      BY <1>7, <3>4
    <3>5. QED BY <3>3, <3>4
  <2>3. Ids(n, type) = Ids(m, type)
    BY <2>1, <2>2 DEF Ids
  <2>4. QED BY <2>1, <2>2, <2>3 DEF Has, Only
<1>9. QED BY <1>2, <1>4, <1>5, <1>6, <1>7, <1>8 DEF FadesTo

LEMMA MessageFadeType == ASSUME NEW Id PROVE Into(MessageFade(Id), Messages(Id), Messages(Id))
  BY MessageFades DEF MessageFade, Into

LEMMA CleanFades ==
  ASSUME NEW Id, NEW m \in Clean(Id), NEW n, n = MessageFade(Id)[m]
  PROVE  n \in Clean(Id) /\ Like(n, m)
<1>1. m \in Messages(Id) /\ Shape(m) /\ NoRefs(m) /\ Served(m.blocks) /\ m.blocks \in Seq(Blocks(Id))
  BY DEF Clean, Messages
<1>2. n \in Messages(Id) /\ FadesTo(n, m)
  BY <1>1, MessageFades
<1>3. /\ n.role = m.role /\ UsesOf(n) = UsesOf(m) /\ ResultsOf(n) = ResultsOf(m)
      /\ Only(n, "result") <=> Only(m, "result")
      /\ Has(n, "readRef") <=> Has(m, "readRef")
      /\ Has(n, "uploadRef") <=> Has(m, "uploadRef")
  BY <1>2 DEF FadesTo, UsesOf, ResultsOf, BlockType
<1>4. NoRefs(n)
  BY <1>1, <1>3 DEF NoRefs, IsRef, Has
<1>5. PICK bs, cs : bs = n.blocks /\ cs = m.blocks
  OBVIOUS
<1>6. PICK k : /\ k \in Nat /\ Len(bs) = k /\ Len(cs) = k /\ DOMAIN bs = 1..k /\ DOMAIN cs = 1..k
  BY <1>1, <1>2, <1>5 DEF FadesTo, Messages
<1>6a. \A j \in 1..k : bs[j] = IF cs[j].type = "file" THEN Block("stub", cs[j].id) ELSE cs[j]
  BY <1>2, <1>5, <1>6 DEF FadesTo
<1>7. n.blocks # <<>>
  <2>1. cs # <<>>
    BY <1>1, <1>5 DEF Shape
  <2>2. QED BY <1>1, <1>5, <1>6, <2>1
<1>8. Served(n.blocks)
  <2>1. ASSUME NEW j \in 1..k, bs[j].type = "srvResult" PROVE \E q \in 1..(j - 1) : bs[q] = Block("srvUse", bs[j].id)
    <3>0. \A i : Block("stub", i).type = "stub"
      BY DEF Block
    <3>1. cs[j] = bs[j]
      BY <1>6a, <2>1, <3>0
    <3>2. PICK q \in 1..(j - 1) : cs[q] = Block("srvUse", cs[j].id)
      BY <1>1, <1>5, <1>6, <2>1, <3>1 DEF Served
    <3>3. q \in 1..k /\ cs[q].type # "file"
      BY <1>6, <3>2 DEF Block
    <3>4. QED BY <1>6a, <3>1, <3>2, <3>3
  <2>2. QED BY <1>5, <1>6, <2>1 DEF Served
<1>9. QED BY <1>1, <1>2, <1>3, <1>4, <1>7, <1>8 DEF Clean, Shape, Like

\* Conversations fade message by message.
LEMMA FadedClean ==
  ASSUME NEW Id, NEW ms \in Seq(Clean(Id))
  PROVE  /\ ms \in Seq(Messages(Id)) /\ EachOf(Images(MessageFade(Id), ms), MessageFade(Id), Messages(Id), ms)
         /\ Images(MessageFade(Id), ms) \in Seq(Clean(Id)) /\ Likes(Images(MessageFade(Id), ms), ms)
<1>1. PICK ns : ns = Images(MessageFade(Id), ms)
  OBVIOUS
<1>2. ms \in Seq(Messages(Id))
  BY CleanMessages
<1>3. EachOf(ns, MessageFade(Id), Messages(Id), ms)
  BY <1>1, <1>2, EachFacts, MessageFadeType
<1>4. PICK n : n = Len(ms) /\ n \in Nat /\ Len(ns) = n /\ ns \in Seq(Messages(Id)) /\ \A i \in 1..n : ns[i] = MessageFade(Id)[ms[i]]
  BY <1>3 DEF EachOf
<1>5. ASSUME NEW i \in 1..n PROVE ns[i] \in Clean(Id) /\ Like(ns[i], ms[i])
  <2>1. ms[i] \in Clean(Id)
    BY <1>4
  <2>2. QED BY <1>4, <2>1, CleanFades
<1>6. ns \in Seq(Clean(Id))
  <2>1. DOMAIN ns = 1..n /\ ns = [i \in 1..n |-> ns[i]]
    BY <1>4
  <2>2. n \in Nat
    BY <1>4
  <2> HIDE DEF Clean
  <2>3. QED BY ONLY <1>5, <2>1, <2>2, SequenceIs
<1>7. QED BY <1>1, <1>2, <1>3, <1>4, <1>5, <1>6 DEF Likes

EndOf(h, F, A, s) ==
  /\ h = <<>> <=> s = <<>>
  /\ s # <<>> => /\ Last(h) = F[Last(s)] /\ Last(s) \in A
                 /\ Front(s) \in Seq(A) /\ Front(h) = Images(F, Front(s))

LEMMA EachLast ==
  ASSUME NEW A, NEW B, NEW F, Into(F, A, B), NEW s \in Seq(A) PROVE EndOf(Images(F, s), F, A, s)
<1>1. PICK h, n : h = Images(F, s) /\ n = Len(s)
  OBVIOUS
<1>2. EachOf(h, F, B, s)
  BY <1>1, EachFacts
<1>3. h \in Seq(B) /\ Len(h) = n /\ n \in Nat /\ \A i \in 1..n : h[i] = F[s[i]]
  BY <1>1, <1>2 DEF EachOf
<1>4. h = <<>> <=> s = <<>>
  BY <1>1, <1>3
<1>5. ASSUME s # <<>>
      PROVE  /\ Last(h) = F[Last(s)] /\ Last(s) \in A
             /\ Front(s) \in Seq(A) /\ Front(h) = Images(F, Front(s))
  <2>1. n \in 1..n /\ n - 1 \in Nat
    BY <1>1, <1>3, <1>5
  <2>2. Last(h) = F[Last(s)] /\ Last(s) \in A
    BY <1>1, <1>3, <2>1 DEF Last
  <2>3. PICK u, v : u = Front(s) /\ v = Front(h)
    OBVIOUS
  <2>4. u \in Seq(A) /\ Len(u) = n - 1 /\ \A i \in 1..(n - 1) : u[i] = s[i]
    BY <1>1, <1>3, <2>1, <2>3 DEF Front
  <2>5. v \in Seq(B) /\ Len(v) = n - 1 /\ \A i \in 1..(n - 1) : v[i] = h[i]
    BY <1>3, <2>1, <2>3 DEF Front
  <2>6. PICK w : w = Images(F, u)
    OBVIOUS
  <2>7. EachOf(w, F, B, u)
    BY <2>4, <2>6, EachFacts
  <2>8. w \in Seq(B) /\ Len(w) = n - 1 /\ \A i \in 1..(n - 1) : w[i] = F[u[i]]
    BY <2>4, <2>7 DEF EachOf
  <2>9. \A i \in 1..(n - 1) : v[i] = w[i]
    <3>1. \A i \in 1..(n - 1) : i \in 1..n
      BY <1>3
    <3>2. QED BY <1>3, <2>4, <2>5, <2>8, <3>1
  <2>10. v = w
    BY <2>5, <2>8, <2>9, SameSequence
  <2>11. QED BY <2>2, <2>3, <2>4, <2>6, <2>10
<1>6. QED BY <1>1, <1>4, <1>5 DEF EndOf

LEMMA KeptFades ==
  ASSUME NEW Id, NEW m \in Clean(Id), NEW n, n = MessageFade(Id)[m], NEW answered, NEW asked
  PROVE  Kept(n, answered, asked) = Images(BlockFade(Id), Kept(m, answered, asked))
<1>1. m \in Messages(Id) /\ m.blocks \in Seq(Blocks(Id))
  BY DEF Clean, Messages
<1>2. n \in Messages(Id) /\ FadesTo(n, m) /\ n.blocks = Images(BlockFade(Id), m.blocks)
  BY <1>1, MessageFades
<1>3. PICK bs, cs : bs = n.blocks /\ cs = m.blocks
  OBVIOUS
<1>4. PICK k : k = Len(cs) /\ k \in Nat /\ Len(bs) = k /\ DOMAIN bs = 1..k /\ DOMAIN cs = 1..k
  BY <1>1, <1>2, <1>3 DEF FadesTo, Messages
<1>5. n.role = m.role /\ \A j \in 1..k : bs[j] = IF cs[j].type = "file" THEN Block("stub", cs[j].id) ELSE cs[j]
  BY <1>2, <1>3, <1>4 DEF FadesTo
<1>6. ASSUME NEW j \in 1..k
      PROVE  (bs[j].type = "use" <=> cs[j].type = "use") /\ (bs[j].type = "result" <=> cs[j].type = "result")
             /\ bs[j].id = cs[j].id
  <2>1. \A i : Block("stub", i).type = "stub" /\ Block("stub", i).id = i
    BY DEF Block
  <2>2. QED BY <1>5, <2>1
<1> DEFINE Places(role, s) ==
      {j \in 1..k : /\ role = "assistant" /\ s[j].type = "use" => s[j].id \in answered
                    /\ role = "user" /\ s[j].type = "result" => s[j].id \in asked}
<1>7. Kept(n, answered, asked) = SelectAt(bs, Places(n.role, bs))
  BY <1>3, <1>4 DEF Kept
<1>8. Kept(m, answered, asked) = SelectAt(cs, Places(m.role, cs))
  BY <1>3, <1>4 DEF Kept
<1>9. Places(n.role, bs) = Places(m.role, cs)
  BY <1>5, <1>6
<1>10. PICK J : J = Places(m.role, cs)
  OBVIOUS
<1>10a. PICK B, T : B = BlockFade(Id) /\ T = Blocks(Id)
  OBVIOUS
<1>10b. Into(B, T, T) /\ cs \in Seq(T)
  BY <1>1, <1>3, <1>10a, BlockFadeType
<1>11. SelectAt(Images(B, cs), J) = Images(B, SelectAt(cs, J))
  BY ONLY <1>10b, SelectAtEach
<1>12. QED BY <1>2, <1>3, <1>7, <1>8, <1>9, <1>10, <1>10a, <1>11

LEMMA SanitizeMessageFades ==
  ASSUME NEW Id, NEW ms \in Seq(Clean(Id)), NEW i \in 1..Len(ms), NEW out \in Seq(Clean(Id)), NEW F, F = MessageFade(Id)
  PROVE  SanitizeMessage(Images(F, ms), Images(F, out), i) = Images(F, SanitizeMessage(ms, out, i))
<1>1. PICK ns, nout, m, n : ns = Images(F, ms) /\ nout = Images(F, out) /\ m = ms[i] /\ n = ns[i]
  OBVIOUS
<1>1a. Into(F, Messages(Id), Messages(Id))
  BY MessageFadeType
<1>2. /\ EachOf(ns, F, Messages(Id), ms) /\ Likes(ns, ms) /\ out \in Seq(Messages(Id))
  BY <1>1, FadedClean
<1>3. PICK k : k = Len(ms) /\ k \in Nat /\ i \in 1..k /\ Len(ns) = k /\ n = F[m]
  BY <1>1, <1>2 DEF EachOf
<1>4. m \in Clean(Id) /\ m \in Messages(Id) /\ m.role \in {"user", "assistant"} /\ m.blocks \in Seq(Blocks(Id))
  <2>1. m \in Clean(Id)
    <3> HIDE DEF Clean
    <3>1. QED BY <1>1
  <2>2. QED BY <2>1 DEF Clean, Messages
<1>5. Answered(ns, i) = Answered(ms, i)
  <2>1. i < k => Like(ns[i + 1], ms[i + 1])
    <3>1. i < k => i + 1 \in 1..k
      BY <1>3
    <3>2. QED BY <1>2, <1>3, <3>1 DEF Likes
  <2>2. QED BY <1>3, <2>1 DEF Answered, IdsIf, Like, ResultsOf
<1>6. AskedBy(nout) = AskedBy(out) /\ (nout = <<>> <=> out = <<>>)
  <2>1. /\ nout = <<>> <=> out = <<>>
        /\ out # <<>> => Last(nout) = F[Last(out)] /\ Last(out) \in Messages(Id)
    <3>1. EndOf(nout, F, Messages(Id), out)
      BY <1>1, <1>1a, <1>2, EachLast
    <3>2. QED BY ONLY <3>1 DEF EndOf
  <2>2. CASE out = <<>>
    BY <2>1, <2>2 DEF AskedBy
  <2>3. CASE out # <<>>
    <3>1. FadesTo(Last(nout), Last(out))
      BY <2>1, <2>3, MessageFades
    <3>2. QED BY <2>1, <2>3, <3>1 DEF AskedBy, IdsIf, FadesTo, BlockType
  <2>4. QED BY <2>2, <2>3
<1>7. PICK kept, nkept : kept = Kept(m, Answered(ms, i), AskedBy(out)) /\ nkept = Kept(n, Answered(ms, i), AskedBy(out))
  OBVIOUS
<1>8. nkept = Images(BlockFade(Id), kept)
  BY <1>3, <1>4, <1>7, KeptFades
<1>9. kept \in Seq(Blocks(Id))
  BY <1>4, <1>7, KeptBlocks
<1>10. nkept = <<>> <=> kept = <<>>
  <2>1. EndOf(Images(BlockFade(Id), kept), BlockFade(Id), Blocks(Id), kept)
    BY <1>9, EachLast, BlockFadeType
  <2>2. QED BY ONLY <1>8, <2>1 DEF EndOf
<1>11. n.role = m.role /\ (n.blocks = <<>> <=> m.blocks = <<>>)
  <2>1. n.blocks = Images(BlockFade(Id), m.blocks) /\ FadesTo(n, m)
    BY <1>3, <1>4, MessageFades
  <2>2. EndOf(Images(BlockFade(Id), m.blocks), BlockFade(Id), Blocks(Id), m.blocks)
    BY <1>4, EachLast, BlockFadeType
  <2>3. n.blocks = <<>> <=> m.blocks = <<>>
    BY ONLY <2>1, <2>2 DEF EndOf
  <2>4. QED BY <2>1, <2>3 DEF FadesTo
<1>12. SanitizeMessage(ms, out, i) = IF kept = <<>> /\ m.blocks # <<>> THEN out ELSE Append(out, Msg(m.role, kept))
  BY <1>1, <1>7 DEF SanitizeMessage, Answered, AskedBy
<1>13. SanitizeMessage(ns, nout, i) = IF nkept = <<>> /\ n.blocks # <<>> THEN nout ELSE Append(nout, Msg(n.role, nkept))
  BY <1>1, <1>5, <1>6, <1>7 DEF SanitizeMessage, Answered, AskedBy
<1>14. PICK x : x = Msg(m.role, kept) /\ x \in Messages(Id) /\ x.role = m.role /\ x.blocks = kept
  BY <1>4, <1>9, MsgIs
<1>15. F[x] = Msg(n.role, nkept)
  BY <1>8, <1>11, <1>14 DEF MessageFade
<1>16. Images(F, Append(out, x)) = Append(nout, F[x])
  BY <1>1, <1>1a, <1>2, <1>14, EachAppend
<1>17. QED BY <1>1, <1>10, <1>11, <1>12, <1>13, <1>14, <1>15, <1>16

LEMMA SanitizeFades ==
  ASSUME NEW Id, NEW ms \in Seq(Clean(Id)), NEW F, F = MessageFade(Id)
  PROVE  SanitizeToolPairs(Images(F, ms)) = Images(F, SanitizeToolPairs(ms)) /\ SanitizeToolPairs(ms) \in Seq(Clean(Id))
<1>1. PICK ns : ns = Images(F, ms) /\ ns \in Seq(Clean(Id)) /\ Len(ns) = Len(ms)
  BY FadedClean DEF Likes
<1>2. PICK n : n = Len(ms) /\ n \in Nat
  OBVIOUS
<1>3. PICK f : Sanitizes(f, ms)
  <2> HIDE DEF Clean
  <2>1. QED BY SanitizeSteps
<1>4. PICK g : Sanitizes(g, ns)
  <2> HIDE DEF Clean
  <2>1. QED BY <1>1, SanitizeSteps
<1>5. /\ SanitizeToolPairs(ms) = f[n] /\ f[0] = <<>> /\ \A i \in 1..n : f[i] = SanitizeMessage(ms, f[i - 1], i)
      /\ SanitizeToolPairs(ns) = g[n] /\ g[0] = <<>> /\ \A i \in 1..n : g[i] = SanitizeMessage(ns, g[i - 1], i)
  BY <1>1, <1>2, <1>3, <1>4 DEF Sanitizes
<1>6. PICK P : P = {i \in 0..n : f[i] \in Seq(Clean(Id)) /\ g[i] = Images(F, f[i])}
  OBVIOUS
<1>7. 0 \in P
  <2>1. Images(F, <<>>) = <<>>
    BY DEF Images
  <2>2. \A T : <<>> \in Seq(T)
    OBVIOUS
  <2>3. 0 \in 0..n /\ f[0] \in Seq(Clean(Id)) /\ g[0] = Images(F, f[0])
    <3> HIDE DEF Clean
    <3>1. QED BY <1>2, <1>5, <2>1, <2>2
  <2>4. QED BY <1>6, <2>3
<1>8. ASSUME NEW i \in 1..n, i - 1 \in P PROVE i \in P
  <2>1. PICK out : out = f[i - 1] /\ out \in Seq(Clean(Id)) /\ g[i - 1] = Images(F, out)
    BY <1>6, <1>8
  <2>2. i \in 1..Len(ms) /\ i \in 0..n
    BY <1>2
  <2>3. SanitizeMessage(ns, Images(F, out), i) = Images(F, SanitizeMessage(ms, out, i))
    <3> HIDE DEF Clean
    <3>1. QED BY <1>1, <2>1, <2>2, SanitizeMessageFades
  <2>4. SanitizeMessage(ms, out, i) \in Seq(Clean(Id))
    <3> HIDE DEF Clean
    <3>1. QED BY <2>1, <2>2, SanitizeType
  <2>5. QED BY <1>5, <1>6, <2>1, <2>2, <2>3, <2>4
<1>9. n \in P
  BY ONLY <1>2, <1>7, <1>8, n \in 0..n, Induction
<1>10. QED BY <1>1, <1>5, <1>6, <1>9

LEMMA MergeMessageFades ==
  ASSUME NEW Id, NEW m \in Messages(Id), NEW out \in Seq(Messages(Id)), NEW F, F = MessageFade(Id)
  PROVE  MergeMessage(Images(F, out), F[m]) = Images(F, MergeMessage(out, m))
<1>1. PICK n, nout : n = F[m] /\ nout = Images(F, out)
  OBVIOUS
<1>2. Into(F, Messages(Id), Messages(Id))
  BY MessageFadeType
<1>2b. \A u \in Seq(Messages(Id)), v \in Seq(Messages(Id)) : Images(F, u \o v) = Images(F, u) \o Images(F, v)
  BY ONLY <1>2, EachConcat
<1>3. FadesTo(n, m) /\ n.blocks = Images(BlockFade(Id), m.blocks)
  BY <1>1, MessageFades
<1>4. /\ nout = <<>> <=> out = <<>>
      /\ out # <<>> => /\ Last(nout) = F[Last(out)] /\ Last(out) \in Messages(Id)
                       /\ Front(out) \in Seq(Messages(Id)) /\ Front(nout) = Images(F, Front(out))
  <2>1. EndOf(nout, F, Messages(Id), out)
    BY <1>1, <1>2, EachLast
  <2>2. QED BY ONLY <2>1 DEF EndOf
<1>5. CASE out = <<>> \/ Last(out).role # m.role
  <2>1. nout = <<>> \/ Last(nout).role # n.role
    <3>1. CASE out = <<>>
      BY <1>4, <3>1
    <3>2. CASE out # <<>>
      <4>1. FadesTo(Last(nout), Last(out))
        BY <1>4, <3>2, MessageFades
      <4>2. QED BY <1>3, <1>5, <3>2, <4>1 DEF FadesTo
    <3>3. QED BY <3>1, <3>2
  <2>2. MergeMessage(out, m) = Append(out, m) /\ MergeMessage(nout, n) = Append(nout, n)
    BY <1>5, <2>1 DEF MergeMessage
  <2>3. Images(F, Append(out, m)) = Append(nout, n)
    BY <1>1, <1>2, EachAppend
  <2>4. QED BY <1>1, <2>2, <2>3
<1>6. CASE out # <<>> /\ Last(out).role = m.role
  <2>1. PICK a, b : a = Last(out) /\ b = Last(nout)
    OBVIOUS
  <2>2. a \in Messages(Id) /\ b = F[a]
    BY <1>4, <1>6, <2>1
  <2>3. FadesTo(b, a) /\ b.blocks = Images(BlockFade(Id), a.blocks)
    BY <2>2, MessageFades
  <2>4. nout # <<>> /\ b.role = n.role /\ n.role = m.role /\ a.role = m.role
    BY <1>3, <1>4, <1>6, <2>1, <2>3 DEF FadesTo
  <2>5. CannotMerge(b, n) <=> CannotMerge(a, m)
    BY <1>3, <2>3, <2>4 DEF FadesTo, BlockType, CannotMerge
  <2>6. CASE CannotMerge(a, m)
    <3>1. PICK x, t : x = Msg("assistant", <<Filler>>) /\ t = <<x, m>>
      OBVIOUS
    <3>2. MergeMessage(out, m) = out \o t /\ MergeMessage(nout, n) = nout \o <<x, n>>
      BY <1>6, <2>1, <2>4, <2>5, <2>6, <3>1 DEF MergeMessage
    <3>3. x \in Messages(Id) /\ F[x] = x
      <4>1. Filler \in Blocks(Id) /\ Filler.type # "file"
        BY FillerBlock
      <4>2. PICK s : s = <<Filler>>
        OBVIOUS
      <4>3. s \in Seq(Blocks(Id)) /\ Len(s) = 1 /\ s[1] = Filler
        BY <4>1, <4>2
      <4>4. x \in Messages(Id) /\ x.role = "assistant" /\ x.blocks = s
        BY <3>1, <4>2, <4>3, MsgIs
      <4>5. EachOf(Images(BlockFade(Id), s), BlockFade(Id), Blocks(Id), s)
        BY <4>3, EachFacts, BlockFadeType
      <4>6. Images(BlockFade(Id), s) = s
        <5>1. PICK u : u = Images(BlockFade(Id), s)
          OBVIOUS
        <5>2. u \in Seq(Blocks(Id)) /\ Len(u) = 1 /\ u[1] = BlockFade(Id)[Filler]
          BY <4>3, <4>5, <5>1 DEF EachOf
        <5>3. u[1] = Filler
          BY <4>1, <5>2 DEF BlockFade
        <5>4. Len(u) = Len(s) /\ \A i \in 1..Len(u) : u[i] = s[i]
          BY <4>3, <5>2, <5>3
        <5>5. QED BY <4>3, <5>1, <5>2, <5>4, SameSequence
      <4>7. QED BY <3>1, <4>2, <4>4, <4>6 DEF MessageFade
    <3>4. t = Append(Append(<<>>, x), m) /\ t \in Seq(Messages(Id))
      BY <3>1, <3>3
    <3>5. Images(F, t) = <<x, n>>
      <4>1. EachOf(Images(F, t), F, Messages(Id), t)
        BY <1>2, <3>4, EachFacts
      <4>2. PICK u : u = Images(F, t)
        OBVIOUS
      <4>3. Len(t) = 2 /\ t[1] = x /\ t[2] = m
        BY <3>1
      <4>4. u \in Seq(Messages(Id)) /\ Len(u) = 2 /\ u[1] = x /\ u[2] = n
        BY <1>1, <3>3, <4>1, <4>2, <4>3 DEF EachOf
      <4>5. QED BY <4>2, <4>4
    <3>6. Images(F, out \o t) = nout \o Images(F, t)
      <4>1. QED BY <1>1, <1>2b, <3>4
    <3>7. QED BY <1>1, <3>2, <3>5, <3>6
  <2>7. CASE ~CannotMerge(a, m)
    <3>1. PICK x, y : x = Msg(m.role, a.blocks \o m.blocks) /\ y = Msg(m.role, b.blocks \o n.blocks)
      OBVIOUS
    <3>2. MergeMessage(out, m) = Append(Front(out), x) /\ MergeMessage(nout, n) = Append(Front(nout), y)
      BY <1>6, <2>1, <2>4, <2>5, <2>7, <3>1 DEF MergeMessage
    <3>3. PICK bs : bs = a.blocks \o m.blocks
      OBVIOUS
    <3>4. a.blocks \in Seq(Blocks(Id)) /\ m.blocks \in Seq(Blocks(Id)) /\ m.role \in {"user", "assistant"}
      BY <2>2 DEF Messages
    <3>5. x \in Messages(Id) /\ x.role = m.role /\ x.blocks = bs
      <4>1. \A T : \A u \in Seq(T), v \in Seq(T) : u \o v \in Seq(T)
        OBVIOUS
      <4>2. bs \in Seq(Blocks(Id))
        BY ONLY <3>3, <3>4, <4>1
      <4>3. x = Msg(m.role, bs)
        BY <3>1, <3>3
      <4>4. QED BY ONLY <3>4, <4>2, <4>3, MsgIs
    <3>6. Images(BlockFade(Id), bs) = b.blocks \o n.blocks
      <4>1. PICK B, T : B = BlockFade(Id) /\ T = Blocks(Id)
        OBVIOUS
      <4>2. Into(B, T, T) /\ a.blocks \in Seq(T) /\ m.blocks \in Seq(T)
        BY <3>4, <4>1, BlockFadeType
      <4>3. Images(B, a.blocks \o m.blocks) = Images(B, a.blocks) \o Images(B, m.blocks)
        BY ONLY <4>2, EachConcat, SMTT(20)
      <4>4. QED BY <1>3, <2>3, <3>3, <4>1, <4>3
    <3>7. F[x] = y
      BY <3>1, <3>5, <3>6 DEF MessageFade
    <3>8. Images(F, Append(Front(out), x)) = Append(Images(F, Front(out)), F[x])
      BY <1>2, <1>4, <1>6, <3>5, EachAppend
    <3>9. QED BY <1>1, <1>4, <1>6, <3>2, <3>7, <3>8
  <2>8. QED BY <2>6, <2>7
<1>7. QED BY <1>5, <1>6

LEMMA MergeFades ==
  ASSUME NEW Id, NEW ms \in Seq(Clean(Id)), NEW F, F = MessageFade(Id)
  PROVE  /\ MergeConsecutiveRoles(Images(F, ms)) = Images(F, MergeConsecutiveRoles(ms))
         /\ MergeConsecutiveRoles(ms) \in Seq(Messages(Id))
<1>1. PICK ns : ns = Images(F, ms) /\ ns \in Seq(Clean(Id)) /\ EachOf(ns, F, Messages(Id), ms)
  BY FadedClean
<1>2. PICK n : n = Len(ms) /\ n \in Nat /\ Len(ns) = n /\ \A i \in 1..n : ns[i] = F[ms[i]]
  BY <1>1 DEF EachOf
<1>3. \A i \in 1..n : ms[i] \in Messages(Id)
  <2>1. ms \in Seq(Messages(Id))
    BY CleanMessages
  <2>2. QED BY <1>2, <2>1
<1>4. PICK f : Merges(f, ms)
  <2> HIDE DEF Clean
  <2>1. QED BY MergeSteps
<1>5. PICK g : Merges(g, ns)
  <2> HIDE DEF Clean
  <2>1. QED BY <1>1, MergeSteps
<1>6. /\ MergeConsecutiveRoles(ms) = f[n] /\ f[0] = <<>> /\ \A i \in 1..n : f[i] = MergeMessage(f[i - 1], ms[i])
      /\ MergeConsecutiveRoles(ns) = g[n] /\ g[0] = <<>> /\ \A i \in 1..n : g[i] = MergeMessage(g[i - 1], ns[i])
  BY <1>2, <1>4, <1>5 DEF Merges
<1>7. PICK P : P = {i \in 0..n : f[i] \in Seq(Messages(Id)) /\ g[i] = Images(F, f[i])}
  OBVIOUS
<1>8. 0 \in P
  <2>1. Images(F, <<>>) = <<>>
    BY DEF Images
  <2>2. \A T : <<>> \in Seq(T)
    OBVIOUS
  <2>3. 0 \in 0..n /\ f[0] \in Seq(Messages(Id)) /\ g[0] = Images(F, f[0])
    <3> HIDE DEF Messages
    <3>1. QED BY <1>2, <1>6, <2>1, <2>2
  <2>4. QED BY <1>7, <2>3
<1>9. ASSUME NEW i \in 1..n, i - 1 \in P PROVE i \in P
  <2>1. PICK out, m : out = f[i - 1] /\ out \in Seq(Messages(Id)) /\ g[i - 1] = Images(F, out) /\ m = ms[i] /\ m \in Messages(Id)
    BY <1>3, <1>7, <1>9
  <2>2. MergeMessage(Images(F, out), F[m]) = Images(F, MergeMessage(out, m))
    BY <2>1, MergeMessageFades
  <2>3. MergeMessage(out, m) \in Seq(Messages(Id))
    BY <2>1, MergeType
  <2>4. i \in 0..n
    BY <1>2
  <2>5. QED BY <1>2, <1>6, <1>7, <2>1, <2>2, <2>3, <2>4
<1>10. n \in P
  BY ONLY <1>2, <1>8, <1>9, n \in 0..n, Induction
<1>11. QED BY <1>1, <1>6, <1>7, <1>10

-----------------------------------------------------------------------------
(* Rows with their references as stubs.                                     *)

\* Rows that hold no result of a server tool.
OwnRows(Id, S) == StoredRows(Id, S) /\ \A m \in S : ~Has(m, "srvResult")

Stubbed(m) ==
  Msg(m.role, [j \in DOMAIN m.blocks |->
                 IF ~IsRef(m.blocks[j]) \/ m.role # "user" THEN m.blocks[j] ELSE Block("stub", m.blocks[j].id)])

\* A row as the model sees it, faded.
Seen(Id, m) == MessageFade(Id)[Stubbed(m)]
SeenOf(Id, S) == [m \in S |-> Seen(Id, m)]

\* The messages the pipeline makes of rows, faded.
Shown(Id, S, rs) == MergeConsecutiveRoles(SanitizeToolPairs(Images(SeenOf(Id, S), TrimToLastCompaction(rs))))

\* A message whose references have been swapped for files or stubs.
SwapOf(n, m) ==
  /\ DOMAIN n.blocks = DOMAIN m.blocks /\ n = Msg(m.role, n.blocks) /\ n.blocks = [j \in DOMAIN m.blocks |-> n.blocks[j]]
  /\ \A j \in DOMAIN m.blocks :
       IF ~IsRef(m.blocks[j]) \/ m.role # "user" THEN n.blocks[j] = m.blocks[j]
       ELSE n.blocks[j] \in {Block("file", m.blocks[j].id), Block("stub", m.blocks[j].id)}

LEMMA SwapClean ==
  ASSUME NEW Id, NEW m, IsRow(Id, m), ~Has(m, "srvResult"), NEW n, SwapOf(n, m)
  PROVE  n \in Clean(Id) /\ ~Has(n, "srvResult") /\ Like(n, m) /\ n.role = m.role
<1>1. n \in Bare(Id) /\ Like(n, m)
  <2>1. PICK bs : bs = n.blocks
    OBVIOUS
  <2>2. n = Msg(m.role, bs) /\ DOMAIN bs = DOMAIN m.blocks /\ bs = [j \in DOMAIN m.blocks |-> bs[j]]
    BY <2>1 DEF SwapOf
  <2>3. \A j \in DOMAIN m.blocks :
          IF ~IsRef(m.blocks[j]) \/ m.role # "user" THEN bs[j] = m.blocks[j]
          ELSE bs[j] \in {Block("file", m.blocks[j].id), Block("stub", m.blocks[j].id)}
    BY <2>1 DEF SwapOf
  <2> HIDE DEF Bare
  <2>4. QED BY ONLY IsRow(Id, m), <2>2, <2>3, Swapped
<1>2. ~Has(n, "srvResult")
  <2>1. ASSUME NEW j \in DOMAIN n.blocks PROVE n.blocks[j].type # "srvResult"
    <3>1. \A i : Block("file", i).type = "file" /\ Block("stub", i).type = "stub"
      BY DEF Block
    <3>2. j \in DOMAIN m.blocks /\ m.blocks[j].type # "srvResult"
      BY DEF SwapOf, Has, ToSet
    <3>3. QED BY <3>1, <3>2 DEF SwapOf
  <2>2. QED BY <2>1 DEF Has, ToSet
<1>3. n \in Messages(Id) /\ Shape(n) /\ NoRefs(n) /\ n.blocks \in Seq(Blocks(Id))
  BY <1>1 DEF Bare, IsRow
<1>4. Served(n.blocks)
  BY <1>2 DEF Served, Has, ToSet
<1>5. QED BY <1>1, <1>2, <1>3, <1>4 DEF Clean, Like

LEMMA StubbedIs ==
  ASSUME NEW Id, NEW m, IsRow(Id, m) PROVE SwapOf(Stubbed(m), m)
  BY DEF SwapOf, Stubbed, Msg

\* Whatever files were loaded, the faded message is the same.
LEMMA SwapFades ==
  ASSUME NEW Id, NEW m, IsRow(Id, m), ~Has(m, "srvResult"), NEW n, SwapOf(n, m)
  PROVE  MessageFade(Id)[n] = Seen(Id, m)
<1>1. PICK s, x, y : s = Stubbed(m) /\ x = MessageFade(Id)[n] /\ y = MessageFade(Id)[s]
  OBVIOUS
<1>2. SwapOf(s, m)
  BY <1>1, StubbedIs
<1>3. n \in Clean(Id) /\ s \in Clean(Id) /\ n.role = m.role /\ s.role = m.role
  BY <1>2, SwapClean
<1>4. n \in Messages(Id) /\ s \in Messages(Id)
  BY <1>3 DEF Clean
<1>5. x \in Messages(Id) /\ FadesTo(x, n) /\ y \in Messages(Id) /\ FadesTo(y, s)
  BY <1>1, <1>4, MessageFades
<1>6. PICK bs, cs : bs = x.blocks /\ cs = y.blocks
  OBVIOUS
<1>7. bs \in Seq(Blocks(Id)) /\ cs \in Seq(Blocks(Id)) /\ n.blocks \in Seq(Blocks(Id)) /\ s.blocks \in Seq(Blocks(Id))
  BY <1>4, <1>5, <1>6 DEF Messages
<1>8. PICK k : k = Len(n.blocks) /\ k \in Nat /\ DOMAIN n.blocks = 1..k
  BY <1>7
<1>9. DOMAIN s.blocks = 1..k /\ DOMAIN m.blocks = 1..k /\ Len(s.blocks) = k
  <2>1. DOMAIN s.blocks = 1..k /\ DOMAIN m.blocks = 1..k
    BY <1>2, <1>8 DEF SwapOf
  <2>2. QED BY <1>7, <1>8, <2>1
<1>10. Len(bs) = k /\ Len(cs) = k
  BY <1>5, <1>6, <1>8, <1>9 DEF FadesTo
<1>11. ASSUME NEW j \in 1..k PROVE bs[j] = cs[j]
  <2>1. /\ bs[j] = IF n.blocks[j].type = "file" THEN Block("stub", n.blocks[j].id) ELSE n.blocks[j]
        /\ cs[j] = IF s.blocks[j].type = "file" THEN Block("stub", s.blocks[j].id) ELSE s.blocks[j]
    BY <1>5, <1>6, <1>8, <1>9 DEF FadesTo
  <2>2. \A i : /\ Block("file", i).type = "file" /\ Block("stub", i).type = "stub"
               /\ Block("file", i).id = i /\ Block("stub", i).id = i
    BY DEF Block
  <2>3. CASE ~IsRef(m.blocks[j]) \/ m.role # "user"
    BY <1>2, <1>9, <2>1, <2>3 DEF SwapOf
  <2>4. CASE ~(~IsRef(m.blocks[j]) \/ m.role # "user")
    <3>1. /\ n.blocks[j] \in {Block("file", m.blocks[j].id), Block("stub", m.blocks[j].id)}
          /\ s.blocks[j] \in {Block("file", m.blocks[j].id), Block("stub", m.blocks[j].id)}
      BY <1>2, <1>9, <2>4 DEF SwapOf
    <3>2. QED BY <2>1, <2>2, <3>1
  <2>5. QED BY <2>3, <2>4
<1>12. bs = cs
  BY <1>7, <1>10, <1>11, SameSequence
<1>13. x = y
  <2>1. x = [role |-> x.role, blocks |-> bs] /\ y = [role |-> y.role, blocks |-> cs]
    BY <1>5, <1>6 DEF Messages
  <2>2. x.role = y.role
    BY <1>3, <1>5 DEF FadesTo
  <2>3. QED BY <1>12, <2>1, <2>2
<1>14. QED BY <1>1, <1>13 DEF Seen

LEMMA SeenIs ==
  ASSUME NEW Id, NEW m, IsRow(Id, m), ~Has(m, "srvResult"), NEW n, n = Seen(Id, m)
  PROVE  n \in Clean(Id) /\ Like(n, m) /\ n.role = m.role
<1>1. PICK s : s = Stubbed(m) /\ SwapOf(s, m)
  BY StubbedIs
<1>2. s \in Clean(Id) /\ Like(s, m) /\ s.role = m.role
  BY <1>1, SwapClean
<1>3. n = MessageFade(Id)[s]
  BY <1>1 DEF Seen
<1>4. n \in Clean(Id) /\ Like(n, s)
  BY <1>2, <1>3, CleanFades
<1>5. QED BY <1>2, <1>4 DEF Like

LEMMA SeenOfType == ASSUME NEW Id, NEW S, OwnRows(Id, S) PROVE Into(SeenOf(Id, S), S, Clean(Id))
<1>1. \A m \in S : Seen(Id, m) \in Clean(Id)
  BY SeenIs DEF OwnRows, StoredRows
<1>2. QED
  <2> HIDE DEF Clean
  <2>1. QED BY <1>1 DEF SeenOf, Into

LEMMA TrimType ==
  ASSUME NEW S, Msg("user", <<Filler>>) \in S, NEW ms \in Seq(S) PROVE TrimToLastCompaction(ms) \in Seq(S)
<1>1. PICK x : x = Msg("user", <<Filler>>) /\ x \in S
  OBVIOUS
<1>2. CASE TrimToLastCompaction(ms) = ms
  BY <1>2
<1>3. ASSUME NEW i \in 1..Len(ms), TrimToLastCompaction(ms) = <<Msg("user", <<Filler>>)>> \o SubSeq(ms, i, Len(ms))
      PROVE  TrimToLastCompaction(ms) \in Seq(S)
  <2>1. TrimToLastCompaction(ms) = <<x>> \o SubSeq(ms, i, Len(ms))
    BY <1>1, <1>3
  <2>2. QED BY ONLY <1>1, <2>1, ms \in Seq(S), i \in 1..Len(ms), TrimElements
<1>4. QED BY <1>2, <1>3, TrimCases

\* References loaded or not, a message is a swap of its row; and no row loses a block after that.
LEMMA RehydrateSwaps ==
  ASSUME NEW Id, NEW S, OwnRows(Id, S), NEW ms \in Seq(S), NEW loadable, NEW ns, ns = RehydrateDataRoomRefs(ms, loadable)
  PROVE  ns \in Seq(Bare(Id)) /\ Len(ns) = Len(ms) /\ \A i \in 1..Len(ms) : SwapOf(ns[i], ms[i])
<1>1. ns \in Seq(Bare(Id)) /\ Len(ns) = Len(ms)
  <2> HIDE DEF Bare
  <2>1. QED BY RehydrateBare DEF OwnRows, Likes
<1>2. PICK k : k = Len(ms) /\ k \in Nat /\ DOMAIN ms = 1..k
  OBVIOUS
<1>3. PICK load : load = RefsToLoad(ms)
  OBVIOUS
<1>4. ns = [row \in 1..k |->
              Msg(ms[row].role,
                  [col \in DOMAIN ms[row].blocks |->
                     IF ~IsRef(ms[row].blocks[col]) \/ ms[row].role # "user" THEN ms[row].blocks[col]
                     ELSE IF <<row, col>> \in load /\ ms[row].blocks[col].id[1] \in loadable
                          THEN Block("file", ms[row].blocks[col].id)
                          ELSE Block("stub", ms[row].blocks[col].id)])]
  BY <1>2, <1>3 DEF RehydrateDataRoomRefs
<1>5. ASSUME NEW i \in 1..k PROVE SwapOf(ns[i], ms[i])
  <2>1. PICK bs : bs = [col \in DOMAIN ms[i].blocks |->
                     IF ~IsRef(ms[i].blocks[col]) \/ ms[i].role # "user" THEN ms[i].blocks[col]
                     ELSE IF <<i, col>> \in load /\ ms[i].blocks[col].id[1] \in loadable
                          THEN Block("file", ms[i].blocks[col].id)
                          ELSE Block("stub", ms[i].blocks[col].id)]
    OBVIOUS
  <2>2. ns[i] = Msg(ms[i].role, bs)
    BY <1>4, <2>1
  <2>3. ns[i].blocks = bs
    BY <2>2 DEF Msg
  <2>4. DOMAIN bs = DOMAIN ms[i].blocks /\ bs = [j \in DOMAIN ms[i].blocks |-> bs[j]]
    BY <2>1
  <2>5. \A j \in DOMAIN ms[i].blocks :
          IF ~IsRef(ms[i].blocks[j]) \/ ms[i].role # "user" THEN bs[j] = ms[i].blocks[j]
          ELSE bs[j] \in {Block("file", ms[i].blocks[j].id), Block("stub", ms[i].blocks[j].id)}
    BY <2>1
  <2>6. QED BY <2>2, <2>3, <2>4, <2>5 DEF SwapOf
<1>6. QED BY <1>1, <1>2, <1>5

LEMMA DropNothing ==
  ASSUME NEW Id, NEW ms \in Seq(Bare(Id)), \A i \in 1..Len(ms) : ~Has(ms[i], "srvResult")
  PROVE  DropOrphanServerToolResults(ms) = ms
<1>1. PICK k : k = Len(ms) /\ k \in Nat /\ DOMAIN ms = 1..k /\ \A i \in 1..k : ms[i] \in Bare(Id)
  OBVIOUS
<1>2. PICK ns : ns = DropOrphanServerToolResults(ms)
  OBVIOUS
<1>3. DOMAIN ns = 1..k /\ ns = [i \in 1..k |-> ns[i]]
  BY <1>1, <1>2 DEF DropOrphanServerToolResults
<1>4. ASSUME NEW i \in 1..k PROVE ns[i] = ms[i]
  <2>1. PICK m, bs : m = ms[i] /\ m \in Bare(Id) /\ bs = m.blocks
    BY <1>1
  <2>2. PICK J : J = {j \in DOMAIN bs : bs[j].type = "srvResult" => \E q \in 1..(j - 1) : bs[q] = Block("srvUse", bs[j].id)}
    OBVIOUS
  <2>3. ns[i] = Msg(m.role, SelectAt(bs, J))
    BY <1>1, <1>2, <2>1, <2>2 DEF DropOrphanServerToolResults
  <2>4. bs \in Seq(Blocks(Id)) /\ m = Msg(m.role, bs)
    BY <2>1 DEF Bare, Messages, Msg
  <2>5. \A j \in DOMAIN bs : bs[j].type # "srvResult"
    BY <1>1, <2>1 DEF Has, ToSet
  <2>6. 1..Len(bs) \subseteq J
    BY <2>2, <2>4, <2>5
  <2>7. SelectAt(bs, J) = bs
    BY ONLY <2>4, <2>6, SelectAll
  <2>8. QED BY <2>1, <2>3, <2>4, <2>7
<1>5. ms = [i \in 1..k |-> ms[i]]
  BY <1>1
<1>6. ns = ms
  BY <1>3, <1>4, <1>5
<1>7. QED BY <1>2, <1>6

\* The history of the rows, faded, does not depend on the files that were loaded.
LEMMA HistoryShown ==
  ASSUME NEW Id, NEW S, OwnRows(Id, S), NEW rs \in Seq(S), NEW loadable
  PROVE  /\ Images(MessageFade(Id), History(rs, loadable, FALSE)) = Shown(Id, S, rs)
         /\ Images(SeenOf(Id, S), TrimToLastCompaction(rs)) \in Seq(Clean(Id))
         /\ History(rs, loadable, FALSE) \in Seq(Messages(Id))
<1>1. PICK a, b, c, d : /\ a = TrimToLastCompaction(rs) /\ b = RehydrateDataRoomRefs(a, loadable)
                        /\ c = DropOrphanServerToolResults(b) /\ d = SanitizeToolPairs(c)
  OBVIOUS
<1>2. a \in Seq(S)
  BY <1>1, TrimType DEF OwnRows, StoredRows
<1>3. b \in Seq(Bare(Id)) /\ Len(b) = Len(a) /\ \A i \in 1..Len(a) : SwapOf(b[i], a[i])
  <2> HIDE DEF Bare
  <2>1. QED BY <1>1, <1>2, RehydrateSwaps
<1>4. PICK k : k = Len(a) /\ k \in Nat /\ DOMAIN a = 1..k /\ \A i \in 1..k : a[i] \in S
  BY <1>2
<1>5. ASSUME NEW i \in 1..k
      PROVE  ~Has(b[i], "srvResult") /\ b[i] \in Clean(Id) /\ b[i] \in Messages(Id) /\ MessageFade(Id)[b[i]] = Seen(Id, a[i])
  <2>1. IsRow(Id, a[i]) /\ ~Has(a[i], "srvResult") /\ SwapOf(b[i], a[i])
    BY <1>3, <1>4 DEF OwnRows, StoredRows
  <2>2. PICK m, n : m = a[i] /\ n = b[i]
    OBVIOUS
  <2>3. ~Has(n, "srvResult") /\ n \in Clean(Id)
    BY <2>1, <2>2, SwapClean
  <2>4. MessageFade(Id)[n] = Seen(Id, m)
    BY <2>1, <2>2, SwapFades
  <2>5. n \in Messages(Id)
    BY <2>3 DEF Clean
  <2>6. QED BY <2>2, <2>3, <2>4, <2>5
<1>6. c = b
  BY <1>1, <1>3, <1>4, <1>5, DropNothing
<1>7. c \in Seq(Clean(Id)) /\ Len(c) = k
  <2>1. b = [i \in 1..k |-> b[i]] /\ DOMAIN b = 1..k
    BY <1>3, <1>4
  <2>2. \A i \in 1..k : b[i] \in Clean(Id)
    BY <1>5
  <2> HIDE DEF Clean
  <2>3. QED BY ONLY <1>4, <1>6, <2>1, <2>2, SequenceIs
<1>8. Images(MessageFade(Id), c) = Images(SeenOf(Id, S), a)
  <2>1. DOMAIN c = 1..k
    BY <1>7, <1>4
  <2>2. \A i \in 1..k : MessageFade(Id)[c[i]] = SeenOf(Id, S)[a[i]]
    BY <1>4, <1>5, <1>6 DEF SeenOf
  <2>3. QED BY <1>4, <2>1, <2>2 DEF Images
<1>9. SanitizeToolPairs(Images(MessageFade(Id), c)) = Images(MessageFade(Id), d) /\ d \in Seq(Clean(Id))
  <2> HIDE DEF Clean
  <2>1. QED BY <1>1, <1>7, SanitizeFades
<1>10. /\ MergeConsecutiveRoles(Images(MessageFade(Id), d)) = Images(MessageFade(Id), MergeConsecutiveRoles(d))
       /\ MergeConsecutiveRoles(d) \in Seq(Messages(Id))
  <2> HIDE DEF Clean
  <2>1. QED BY <1>9, MergeFades
<1>11. History(rs, loadable, FALSE) = MergeConsecutiveRoles(d)
  BY <1>1 DEF History
<1>12. Images(SeenOf(Id, S), a) \in Seq(Clean(Id))
  <2> HIDE DEF Clean
  <2>1. QED BY <1>7, <1>8, FadedClean
<1>13. QED BY <1>1, <1>8, <1>9, <1>10, <1>11, <1>12 DEF Shown

-----------------------------------------------------------------------------
(* Trimming what is trimmed.                                                *)

Compacted(m) == m.role = "assistant" /\ Has(m, "compaction")
Opening == Msg("user", <<Filler>>)

\* Only what follows the opening message may be a compaction: there is nothing to trim.
Headed(ms) == \A k \in 1..Len(ms) : Compacted(ms[k]) => k = 2 /\ ms[1] = Opening

LastCompacted(ms, i) ==
  /\ i \in 0..Len(ms) /\ (i # 0 => Compacted(ms[i]))
  /\ \A k \in 1..Len(ms) : Compacted(ms[k]) => k <= i

LEMMA LastCompaction == ASSUME NEW S, NEW ms \in Seq(S) PROVE LastCompacted(ms, LastCompactionIndex(ms))
<1> DEFINE I == {i \in 1..Len(ms) : ms[i].role = "assistant" /\ Has(ms[i], "compaction")}
<1>1. LastCompactionIndex(ms) = IF I # {} THEN Max(I) ELSE 0
  BY DEF LastCompactionIndex, SelectLastInSeq
<1>2. PICK n : n = Len(ms) /\ n \in Nat
  OBVIOUS
<1>3. \A k \in 1..n : Compacted(ms[k]) <=> k \in I
  BY <1>2 DEF Compacted
<1>4. CASE I = {}
  BY <1>1, <1>2, <1>3, <1>4 DEF LastCompacted
<1>5. CASE I # {}
  <2>1. I \in SUBSET (0..n) /\ I \subseteq 1..n
    BY <1>2
  <2>2. Max(I) \in I /\ \A k \in I : k <= Max(I)
    <3> HIDE DEF I
    <3>1. QED BY <1>2, <1>5, <2>1, MaxFacts
  <2> HIDE DEF I
  <2>3. QED BY <1>1, <1>2, <1>3, <1>5, <2>1, <2>2 DEF LastCompacted
<1>6. QED BY <1>4, <1>5

LEMMA LastIs ==
  ASSUME NEW S, NEW ms \in Seq(S), NEW i, LastCompacted(ms, i)
  PROVE  /\ LastCompactionIndex(ms) = i
         /\ TrimToLastCompaction(ms) = IF i = 0 THEN ms ELSE <<Opening>> \o SubSeq(ms, i, Len(ms))
<1>1. PICK j, n : j = LastCompactionIndex(ms) /\ n = Len(ms)
  OBVIOUS
<1>2. LastCompacted(ms, j) /\ n \in Nat
  BY <1>1, LastCompaction
<1>3. /\ i \in 0..n /\ (i # 0 => Compacted(ms[i])) /\ \A k \in 1..n : Compacted(ms[k]) => k <= i
      /\ j \in 0..n /\ (j # 0 => Compacted(ms[j])) /\ \A k \in 1..n : Compacted(ms[k]) => k <= j
  BY <1>1, <1>2 DEF LastCompacted
<1>4. i <= j
  <2>1. CASE i = 0
    BY <1>2, <1>3, <2>1
  <2>2. CASE i # 0
    BY <1>2, <1>3, <2>2
  <2>3. QED BY <2>1, <2>2
<1>5. j <= i
  <2>1. CASE j = 0
    BY <1>2, <1>3, <2>1
  <2>2. CASE j # 0
    BY <1>2, <1>3, <2>2
  <2>3. QED BY <2>1, <2>2
<1>6. i = j
  BY <1>2, <1>3, <1>4, <1>5
<1>7. QED BY <1>1, <1>6 DEF TrimToLastCompaction, TrimFrom, Opening

\* The last compaction is where it was, or is new.
LEMMA TrimAppend ==
  ASSUME NEW S, Opening \in S, NEW ms \in Seq(S), NEW m \in S
  PROVE  TrimToLastCompaction(Append(ms, m)) =
           IF Compacted(m) THEN <<Opening, m>> ELSE Append(TrimToLastCompaction(ms), m)
<1>1. PICK s, n : s = Append(ms, m) /\ n = Len(ms)
  OBVIOUS
<1>2. n \in Nat /\ s \in Seq(S) /\ Len(s) = n + 1 /\ s[n + 1] = m /\ \A k \in 1..n : s[k] = ms[k] /\ ms[k] \in S
  BY ONLY <1>1, ms \in Seq(S), m \in S, Appended
<1>3. \A k \in 1..(n + 1) : k = n + 1 \/ k \in 1..n
  BY <1>2
<1>4. CASE Compacted(m)
  <2>1. LastCompacted(s, n + 1)
    BY <1>2, <1>3, <1>4 DEF LastCompacted
  <2>2. PICK j, u : j = n + 1 /\ u = TrimToLastCompaction(s)
    OBVIOUS
  <2>3. j \in 1..Len(s) /\ j # 0 /\ LastCompacted(s, j) /\ s[j] = m
    BY <1>2, <2>1, <2>2
  <2>4. u = <<Opening>> \o SubSeq(s, j, Len(s))
    BY <1>2, <2>2, <2>3, LastIs
  <2>5. /\ u \in Seq(S) /\ Len(u) = Len(s) - j + 2 /\ u[1] = Opening
        /\ \A k \in 2..(Len(s) - j + 2) : j + k - 2 \in 1..Len(s) /\ u[k] = s[j + k - 2]
    BY ONLY <1>2, <2>3, <2>4, Opening \in S, TrimElements
  <2>6. Len(s) - j + 2 = 2 /\ j + 2 - 2 = j /\ 2 \in 2..(Len(s) - j + 2)
    BY <1>2, <2>2
  <2>7. u = <<Opening, m>>
    <3>1. u \in Seq(S) /\ Len(u) = 2 /\ u[1] = Opening /\ u[2] = m
      BY <2>3, <2>5, <2>6
    <3>2. QED BY ONLY <3>1
  <2>8. QED BY <1>1, <1>4, <2>2, <2>7
<1>5. CASE ~Compacted(m)
  <2>1. PICK i : i = LastCompactionIndex(ms) /\ LastCompacted(ms, i)
    BY LastCompaction
  <2>2. i \in 0..n /\ (i # 0 => Compacted(ms[i])) /\ \A k \in 1..n : Compacted(ms[k]) => k <= i
    BY <1>1, <2>1 DEF LastCompacted
  <2>3. LastCompacted(s, i)
    BY <1>2, <1>3, <1>5, <2>2 DEF LastCompacted
  <2>4. PICK t, u : t = TrimToLastCompaction(ms) /\ u = TrimToLastCompaction(s)
    OBVIOUS
  <2>5. t = (IF i = 0 THEN ms ELSE <<Opening>> \o SubSeq(ms, i, n)) /\ u = IF i = 0 THEN s ELSE <<Opening>> \o SubSeq(s, i, n + 1)
    BY <1>1, <1>2, <2>1, <2>3, <2>4, LastIs
  <2>6. CASE i = 0
    BY <1>1, <1>5, <2>4, <2>5, <2>6
  <2>7. CASE i # 0
    <3>1. i \in 1..n /\ i \in 1..(n + 1)
      BY <1>2, <2>2, <2>7
    <3>2. /\ t \in Seq(S) /\ Len(t) = n - i + 2 /\ t[1] = Opening
          /\ \A k \in 2..(n - i + 2) : i + k - 2 \in 1..n /\ t[k] = ms[i + k - 2]
      <4>1. t = <<Opening>> \o SubSeq(ms, i, Len(ms)) /\ i \in 1..Len(ms) /\ Opening \in S
        BY <1>1, <2>5, <2>7, <3>1
      <4>2. ms \in Seq(S) /\ Len(ms) = n
        BY <1>1
      <4>3. /\ t \in Seq(S) /\ Len(t) = Len(ms) - i + 2 /\ t[1] = Opening
            /\ \A k \in 2..(Len(ms) - i + 2) : i + k - 2 \in 1..Len(ms) /\ t[k] = ms[i + k - 2]
        BY ONLY <4>1, <4>2, TrimElements, SMTT(20)
      <4>4. QED BY ONLY <4>2, <4>3
    <3>3. /\ u \in Seq(S) /\ Len(u) = (n + 1) - i + 2 /\ u[1] = Opening
          /\ \A k \in 2..((n + 1) - i + 2) : i + k - 2 \in 1..(n + 1) /\ u[k] = s[i + k - 2]
      <4>1. u = <<Opening>> \o SubSeq(s, i, Len(s)) /\ i \in 1..Len(s) /\ Opening \in S
        BY <1>2, <2>5, <2>7, <3>1
      <4>2. s \in Seq(S) /\ Len(s) = n + 1
        BY <1>2
      <4>3. /\ u \in Seq(S) /\ Len(u) = Len(s) - i + 2 /\ u[1] = Opening
            /\ \A k \in 2..(Len(s) - i + 2) : i + k - 2 \in 1..Len(s) /\ u[k] = s[i + k - 2]
        BY ONLY <4>1, <4>2, TrimElements, SMTT(20)
      <4>4. QED BY ONLY <4>2, <4>3
    <3>4. PICK v : v = Append(t, m)
      OBVIOUS
    <3>5. v \in Seq(S) /\ Len(v) = Len(t) + 1 /\ v[Len(t) + 1] = m /\ \A k \in 1..Len(t) : v[k] = t[k]
      BY ONLY <3>2, <3>4, m \in S, Appended
    <3>6. ASSUME NEW k \in 1..(n - i + 3) PROVE u[k] = v[k]
      <4>1. CASE k = 1
        <5>1. 1 \in 1..Len(t)
          BY <1>2, <3>1, <3>2
        <5>2. QED BY ONLY <3>2, <3>3, <3>5, <4>1, <5>1
      <4>2. CASE k = n - i + 3
        <5>1. k \in 2..((n + 1) - i + 2) /\ i + k - 2 = n + 1 /\ k = Len(t) + 1
          BY <1>2, <3>1, <3>2, <4>2
        <5>2. QED BY <1>2, <3>3, <3>5, <5>1
      <4>3. CASE k \in 2..(n - i + 2)
        <5>1. k \in 2..((n + 1) - i + 2) /\ k \in 1..Len(t)
          BY <1>2, <3>1, <3>2, <4>3
        <5>2. u[k] = s[i + k - 2] /\ v[k] = t[k] /\ t[k] = ms[i + k - 2] /\ i + k - 2 \in 1..n
          BY <3>2, <3>3, <3>5, <4>3, <5>1
        <5>3. QED BY <1>2, <5>2
      <4>4. QED BY <1>2, <3>1, <4>1, <4>2, <4>3
    <3>7. Len(u) = n - i + 3 /\ Len(v) = n - i + 3
      <4>1. n \in Int /\ i \in Int /\ Len(u) = (n + 1) - i + 2 /\ Len(t) = n - i + 2 /\ Len(v) = Len(t) + 1
        BY <1>2, <3>1, <3>2, <3>3, <3>5
      <4>2. QED BY ONLY <4>1
    <3>8. u = v
      BY ONLY <3>3, <3>5, <3>6, <3>7, SameSequence
    <3>9. QED BY <1>1, <1>5, <2>4, <3>4, <3>8
  <2>8. QED BY <2>6, <2>7
<1>6. QED BY <1>4, <1>5

LEMMA TrimHeaded == ASSUME NEW S, Opening \in S, NEW ms \in Seq(S), Headed(ms) PROVE TrimToLastCompaction(ms) = ms
<1>1. PICK i, n, t : i = LastCompactionIndex(ms) /\ n = Len(ms) /\ t = TrimToLastCompaction(ms)
  OBVIOUS
<1>2. LastCompacted(ms, i) /\ n \in Nat
  BY <1>1, LastCompaction
<1>3. t = IF i = 0 THEN ms ELSE <<Opening>> \o SubSeq(ms, i, n)
  BY <1>1, <1>2, LastIs
<1>4. CASE i = 0
  BY <1>1, <1>3, <1>4
<1>5. CASE i # 0
  <2>1. i \in 1..n /\ Compacted(ms[i])
    BY <1>1, <1>2, <1>5 DEF LastCompacted
  <2>2. i = 2 /\ ms[1] = Opening
    BY <1>1, <2>1 DEF Headed
  <2>3. /\ t \in Seq(S) /\ Len(t) = n - i + 2 /\ t[1] = Opening
        /\ \A k \in 2..(n - i + 2) : i + k - 2 \in 1..n /\ t[k] = ms[i + k - 2]
    <3>1. t = <<Opening>> \o SubSeq(ms, i, Len(ms)) /\ i \in 1..Len(ms) /\ Opening \in S
      BY <1>1, <1>3, <1>5, <2>1
    <3>2. ms \in Seq(S) /\ Len(ms) = n
      BY <1>1
    <3>3. /\ t \in Seq(S) /\ Len(t) = Len(ms) - i + 2 /\ t[1] = Opening
          /\ \A k \in 2..(Len(ms) - i + 2) : i + k - 2 \in 1..Len(ms) /\ t[k] = ms[i + k - 2]
      BY ONLY <3>1, <3>2, TrimElements, SMTT(20)
    <3>4. QED BY ONLY <3>2, <3>3
  <2>4. Len(t) = n /\ \A k \in 1..n : k = 1 \/ (k \in 2..(n - i + 2) /\ i + k - 2 = k)
    BY <1>2, <2>2, <2>3
  <2>5. \A k \in 1..n : t[k] = ms[k]
    BY <2>2, <2>3, <2>4
  <2>6. t = ms
    BY <1>1, <2>3, <2>4, <2>5, SameSequence
  <2>7. QED BY <1>1, <2>6
<1>6. QED BY <1>4, <1>5

LEMMA OpeningPlain == ~Compacted(Opening)
  BY DEF Compacted, Opening, Msg

LEMMA HeadedTrim == ASSUME NEW S, Opening \in S, NEW ms \in Seq(S) PROVE Headed(TrimToLastCompaction(ms))
<1>1. PICK i, n, t : i = LastCompactionIndex(ms) /\ n = Len(ms) /\ t = TrimToLastCompaction(ms)
  OBVIOUS
<1>2. LastCompacted(ms, i) /\ n \in Nat
  BY <1>1, LastCompaction
<1>3. t = IF i = 0 THEN ms ELSE <<Opening>> \o SubSeq(ms, i, n)
  BY <1>1, <1>2, LastIs
<1>3a. /\ i \in 0..n /\ \A k \in 1..n : Compacted(ms[k]) => k <= i
  BY <1>1, <1>2 DEF LastCompacted
<1>4. CASE i = 0
  <2>1. \A k \in 1..n : ~Compacted(ms[k])
    BY <1>2, <1>3a, <1>4
  <2>2. QED BY <1>1, <1>3, <1>4, <2>1 DEF Headed
<1>5. CASE i # 0
  <2>1. i \in 1..n
    BY <1>2, <1>3a, <1>5
  <2>3. /\ t \in Seq(S) /\ Len(t) = n - i + 2 /\ t[1] = Opening
        /\ \A k \in 2..(n - i + 2) : i + k - 2 \in 1..n /\ t[k] = ms[i + k - 2]
    <3>1. t = <<Opening>> \o SubSeq(ms, i, Len(ms)) /\ i \in 1..Len(ms) /\ Opening \in S
      BY <1>1, <1>3, <1>5, <2>1
    <3>2. ms \in Seq(S) /\ Len(ms) = n
      BY <1>1
    <3>3. /\ t \in Seq(S) /\ Len(t) = Len(ms) - i + 2 /\ t[1] = Opening
          /\ \A k \in 2..(Len(ms) - i + 2) : i + k - 2 \in 1..Len(ms) /\ t[k] = ms[i + k - 2]
      BY ONLY <3>1, <3>2, TrimElements, SMTT(20)
    <3>4. QED BY ONLY <3>2, <3>3
  <2>4. ASSUME NEW k \in 1..Len(t), Compacted(t[k]) PROVE k = 2
    <3>1. k # 1
      BY <2>3, <2>4, OpeningPlain
    <3>2. k \in 2..(n - i + 2)
      BY <1>2, <2>1, <2>3, <3>1
    <3>3. i + k - 2 \in 1..n /\ Compacted(ms[i + k - 2])
      BY <2>3, <2>4, <3>2
    <3>4. i + k - 2 <= i
      BY <1>3a, <3>3
    <3>5. QED BY <2>1, <3>2, <3>4
  <2>5. QED BY <1>1, <2>3, <2>4 DEF Headed
<1>6. QED BY <1>4, <1>5

\* A message without files stays as it is.
LEMMA NothingFades ==
  ASSUME NEW Id, NEW m \in Messages(Id), \A j \in DOMAIN m.blocks : m.blocks[j].type # "file" PROVE MessageFade(Id)[m] = m
<1>1. PICK n, bs, cs : n = MessageFade(Id)[m] /\ bs = n.blocks /\ cs = m.blocks
  OBVIOUS
<1>2. n \in Messages(Id) /\ FadesTo(n, m)
  BY <1>1, MessageFades
<1>3. bs \in Seq(Blocks(Id)) /\ cs \in Seq(Blocks(Id)) /\ Len(bs) = Len(cs)
  BY <1>1, <1>2 DEF Messages, FadesTo
<1>4. \A j \in 1..Len(cs) : bs[j] = cs[j]
  BY <1>1, <1>2, <1>3 DEF FadesTo
<1>5. bs = cs
  BY <1>3, <1>4, SameSequence
<1>6. n = [role |-> n.role, blocks |-> bs] /\ m = [role |-> m.role, blocks |-> cs] /\ n.role = m.role
  BY <1>1, <1>2 DEF Messages, FadesTo
<1>7. QED BY <1>1, <1>5, <1>6

LEMMA OpeningIs ==
  ASSUME NEW Id
  PROVE  /\ Opening \in Clean(Id) /\ Opening \in Messages(Id) /\ Opening.role = "user" /\ Opening.blocks = <<Filler>>
         /\ UsesOf(Opening) = {} /\ ResultsOf(Opening) = {}
         /\ MessageFade(Id)[Opening] = Opening /\ Stubbed(Opening) = Opening /\ Seen(Id, Opening) = Opening
<1>1. /\ Opening \in Clean(Id) /\ Opening.role = "user" /\ UsesOf(Opening) = {} /\ ResultsOf(Opening) = {}
  BY FillerMessage DEF Opening
<1>2. Opening.blocks = <<Filler>> /\ Opening = Msg("user", <<Filler>>)
  BY DEF Opening, Msg
<1>3. Opening \in Messages(Id)
  BY <1>1 DEF Clean
<1>4. Filler.type = "filler"
  BY DEF Filler, Block
<1>5. DOMAIN Opening.blocks = 1..1 /\ \A j \in 1..1 : Opening.blocks[j] = Filler
  BY <1>2
<1>6. MessageFade(Id)[Opening] = Opening
  BY <1>3, <1>4, <1>5, NothingFades
<1>7. Stubbed(Opening) = Opening
  <2>1. Stubbed(Opening) = Msg("user", [j \in 1..1 |-> Filler])
    BY <1>1, <1>4, <1>5 DEF Stubbed, IsRef
  <2>2. [j \in 1..1 |-> Filler] = <<Filler>>
    OBVIOUS
  <2>3. QED BY <1>2, <2>1, <2>2
<1>8. QED BY <1>1, <1>2, <1>3, <1>6, <1>7 DEF Seen

LEMMA SeenCompacted ==
  ASSUME NEW Id, NEW m, IsRow(Id, m), ~Has(m, "srvResult") PROVE Compacted(Seen(Id, m)) <=> Compacted(m)
<1>1. PICK s, n : s = Stubbed(m) /\ SwapOf(s, m) /\ n = Seen(Id, m)
  BY StubbedIs
<1>2. s \in Clean(Id) /\ s.role = m.role
  BY <1>1, SwapClean
<1>3. s \in Messages(Id)
  BY <1>2 DEF Clean
<1>4. FadesTo(n, s)
  BY <1>1, <1>3, MessageFades DEF Seen
<1>5. n.role = m.role /\ (Has(n, "compaction") <=> Has(s, "compaction"))
  BY <1>2, <1>4 DEF FadesTo, BlockType
<1>6. Has(s, "compaction") <=> Has(m, "compaction")
  <2>1. ASSUME NEW j \in DOMAIN m.blocks PROVE s.blocks[j].type = "compaction" <=> m.blocks[j].type = "compaction"
    <3>1. \A i : Block("file", i).type = "file" /\ Block("stub", i).type = "stub"
      BY DEF Block
    <3>2. \/ s.blocks[j] = m.blocks[j]
          \/ IsRef(m.blocks[j]) /\ s.blocks[j] \in {Block("file", m.blocks[j].id), Block("stub", m.blocks[j].id)}
      BY <1>1 DEF SwapOf
    <3>3. QED BY <3>1, <3>2 DEF IsRef
  <2>2. DOMAIN s.blocks = DOMAIN m.blocks
    BY <1>1 DEF SwapOf
  <2>3. QED BY <2>1, <2>2 DEF Has, ToSet
<1>7. QED BY <1>1, <1>5, <1>6 DEF Compacted

LEMMA HeadedSeen ==
  ASSUME NEW Id, NEW S, OwnRows(Id, S), NEW ms \in Seq(S), Headed(ms) PROVE Headed(Images(SeenOf(Id, S), ms))
<1>1. PICK ns, F, C : ns = Images(F, ms) /\ F = SeenOf(Id, S) /\ C = Clean(Id)
  OBVIOUS
<1>2. EachOf(ns, F, C, ms)
  BY <1>1, SeenOfType, EachFacts
<1>3. PICK n : n = Len(ms) /\ n \in Nat /\ Len(ns) = n /\ \A k \in 1..n : ns[k] = F[ms[k]] /\ ms[k] \in S
  BY <1>2 DEF EachOf
<1>4. \A k \in 1..n : IsRow(Id, ms[k]) /\ ~Has(ms[k], "srvResult") /\ ns[k] = Seen(Id, ms[k])
  BY <1>1, <1>3 DEF OwnRows, StoredRows, SeenOf
<1>5. \A k \in 1..n : Compacted(ns[k]) => Compacted(ms[k])
  BY <1>4, SeenCompacted
<1>6. ASSUME NEW k \in 1..n, Compacted(ns[k]) PROVE k = 2 /\ ns[1] = Opening
  <2>1. k = 2 /\ ms[1] = Opening
    BY <1>3, <1>5, <1>6 DEF Headed
  <2>2. 1 \in 1..n
    BY <1>3, <2>1
  <2>3. QED BY <1>4, <2>1, <2>2, OpeningIs
<1>7. QED BY <1>1, <1>3, <1>6 DEF Headed

-----------------------------------------------------------------------------
(* Sanitizing and merging what has no holes.                                *)

LEMMA KeptAll ==
  ASSUME NEW Id, NEW m \in Clean(Id), NEW answered, NEW asked,
         m.role = "assistant" => UsesOf(m) \subseteq answered, m.role = "user" => ResultsOf(m) \subseteq asked
  PROVE  Kept(m, answered, asked) = m.blocks
<1>1. m.blocks \in Seq(Blocks(Id))
  BY CleanRoles
<1>2. PICK J : J = {j \in DOMAIN m.blocks :
                      /\ m.role = "assistant" /\ m.blocks[j].type = "use" => m.blocks[j].id \in answered
                      /\ m.role = "user" /\ m.blocks[j].type = "result" => m.blocks[j].id \in asked}
  OBVIOUS
<1>2a. Kept(m, answered, asked) = SelectAt(m.blocks, J)
  BY <1>2 DEF Kept
<1>2b. PICK bs : bs = m.blocks
  OBVIOUS
<1>3. Kept(m, answered, asked) = SelectAt(bs, J)
  BY <1>2a, <1>2b
<1>4. 1..Len(bs) \subseteq J
  <2>1. ASSUME NEW j \in DOMAIN bs PROVE j \in J
    BY <1>2, <1>2b DEF UsesOf, ResultsOf, Ids, ToSet
  <2>2. DOMAIN bs = 1..Len(bs)
    BY <1>1, <1>2b
  <2>3. QED BY <2>1, <2>2
<1>5. bs \in Seq(Blocks(Id))
  BY <1>1, <1>2b
<1>6. SelectAt(bs, J) = bs
  BY ONLY <1>4, <1>5, SelectAll
<1>7. QED BY <1>2b, <1>3, <1>6

\* A message all of whose uses are answered and results asked for is kept.
LEMMA SanitizeWhole ==
  ASSUME NEW Id, NEW ms, NEW i, NEW out, NEW m \in Clean(Id), m = ms[i],
         m.role = "assistant" => UsesOf(m) \subseteq Answered(ms, i), m.role = "user" => ResultsOf(m) \subseteq AskedBy(out)
  PROVE  SanitizeMessage(ms, out, i) = Append(out, m)
<1>1. Kept(m, Answered(ms, i), AskedBy(out)) = m.blocks
  BY KeptAll
<1>2. m = Msg(m.role, m.blocks) /\ m.blocks # <<>>
  BY DEF Clean, Messages, Shape, Msg
<1>3. QED BY <1>1, <1>2 DEF SanitizeMessage, Answered, AskedBy

LEMMA SanitizeCompacted ==
  ASSUME NEW Id, NEW ms \in Seq(Clean(Id)), NEW i \in 1..Len(ms), NEW out \in Seq(Clean(Id))
  PROVE  \/ SanitizeMessage(ms, out, i) = out
         \/ \E n \in Clean(Id) : SanitizeMessage(ms, out, i) = Append(out, n) /\ (Compacted(n) => Compacted(ms[i]))
<1>1. PICK m, kept : m = ms[i] /\ kept = Kept(m, Answered(ms, i), AskedBy(out))
  OBVIOUS
<1>2. m \in Clean(Id)
  <2> HIDE DEF Clean
  <2>1. QED BY <1>1
<1>3. SanitizeMessage(ms, out, i) = IF kept = <<>> /\ m.blocks # <<>> THEN out ELSE Append(out, Msg(m.role, kept))
  BY <1>1 DEF SanitizeMessage, Answered, AskedBy
<1>4. /\ kept # <<>> => Msg(m.role, kept) \in Clean(Id)
  <2> HIDE DEF Clean
  <2>1. QED BY <1>1, <1>2, KeptMessage
<1>5. ToSet(kept) \subseteq ToSet(m.blocks) /\ m.blocks # <<>>
  BY <1>1, <1>2, KeptBlocks, CleanRoles
<1>6. PICK n : n = Msg(m.role, kept)
  OBVIOUS
<1>6a. n.role = m.role /\ n.blocks = kept
  BY <1>6 DEF Msg
<1>7. Compacted(n) => Compacted(m)
  BY <1>5, <1>6a DEF Compacted, Has
<1>8. QED BY <1>1, <1>3, <1>4, <1>5, <1>6, <1>7

LEMMA HeadedAppend ==
  ASSUME NEW S, NEW out \in Seq(S), NEW n \in S, Headed(out), Compacted(n) => Len(out) = 1 /\ out[1] = Opening
  PROVE  Headed(Append(out, n))
<1>1. PICK t, q : t = Append(out, n) /\ q = Len(out)
  OBVIOUS
<1>2. q \in Nat /\ Len(t) = q + 1 /\ t[q + 1] = n /\ \A k \in 1..q : t[k] = out[k]
  BY ONLY <1>1, out \in Seq(S), n \in S, Appended
<1>3. ASSUME NEW k \in 1..(q + 1), Compacted(t[k]) PROVE k = 2 /\ t[1] = Opening
  <2>1. CASE k = q + 1
    <3>1. q = 1 /\ out[1] = Opening
      BY <1>1, <1>2, <1>3, <2>1
    <3>2. QED BY <1>2, <2>1, <3>1
  <2>2. CASE k \in 1..q
    <3>1. k = 2 /\ out[1] = Opening
      BY <1>1, <1>2, <1>3, <2>2 DEF Headed
    <3>2. 1 \in 1..q
      BY <1>2, <2>2
    <3>3. QED BY <1>2, <3>1, <3>2
  <2>3. QED BY <1>2, <2>1, <2>2
<1>4. QED BY <1>1, <1>2, <1>3 DEF Headed

LEMMA SanitizeHeaded ==
  ASSUME NEW Id, NEW ms \in Seq(Clean(Id)), Headed(ms) PROVE Headed(SanitizeToolPairs(ms))
<1>1. PICK n, C : n = Len(ms) /\ n \in Nat /\ C = Clean(Id)
  OBVIOUS
<1>2. PICK f : Sanitizes(f, ms)
  <2> HIDE DEF Clean
  <2>1. QED BY SanitizeSteps
<1>3. SanitizeToolPairs(ms) = f[n] /\ f[0] = <<>> /\ \A i \in 1..n : f[i] = SanitizeMessage(ms, f[i - 1], i)
  BY <1>1, <1>2 DEF Sanitizes
<1>4. PICK P : P = {i \in 0..n : f[i] \in Seq(C) /\ Headed(f[i]) /\ (i = 1 /\ ms[1] = Opening => f[i] = <<Opening>>)}
  OBVIOUS
<1>5. 0 \in P
  <2>1. Headed(<<>>)
    BY DEF Headed
  <2>2. \A T : <<>> \in Seq(T)
    OBVIOUS
  <2>3. 0 \in 0..n /\ f[0] \in Seq(C) /\ Headed(f[0])
    BY <1>1, <1>3, <2>1, <2>2
  <2>4. QED BY <1>4, <2>3
<1>6. ASSUME NEW i \in 1..n, i - 1 \in P PROVE i \in P
  <2>1. PICK out : out = f[i - 1] /\ out \in Seq(C) /\ Headed(out) /\ (i - 1 = 1 /\ ms[1] = Opening => out = <<Opening>>)
    BY <1>4, <1>6
  <2>2. i \in 1..Len(ms) /\ i \in 0..n /\ f[i] = SanitizeMessage(ms, out, i)
    BY <1>1, <1>3, <2>1
  <2>3. \/ SanitizeMessage(ms, out, i) = out
        \/ \E x \in C : SanitizeMessage(ms, out, i) = Append(out, x) /\ (Compacted(x) => Compacted(ms[i]))
    <3> HIDE DEF Clean
    <3>1. QED BY <1>1, <2>1, <2>2, SanitizeCompacted
  <2>4. f[i] \in Seq(C) /\ Headed(f[i])
    <3>1. CASE SanitizeMessage(ms, out, i) = out
      BY <2>1, <2>2, <3>1
    <3>2. ASSUME NEW x \in C, SanitizeMessage(ms, out, i) = Append(out, x), Compacted(x) => Compacted(ms[i])
          PROVE  f[i] \in Seq(C) /\ Headed(f[i])
      <4>1. Compacted(x) => Len(out) = 1 /\ out[1] = Opening
        <5>1. Compacted(x) => i = 2 /\ ms[1] = Opening
          BY <1>1, <2>2, <3>2 DEF Headed
        <5>2. Compacted(x) => out = <<Opening>>
          BY <2>1, <5>1
        <5>3. QED BY <5>2
      <4>2. Headed(Append(out, x))
        BY ONLY <2>1, <4>1, x \in C, HeadedAppend
      <4>3. Append(out, x) \in Seq(C)
        BY <2>1
      <4>4. QED BY <2>2, <3>2, <4>2, <4>3
    <3>3. QED BY <2>3, <3>1, <3>2
  <2>5. i = 1 /\ ms[1] = Opening => f[i] = <<Opening>>
    <3>1. SUFFICES ASSUME i = 1, ms[1] = Opening PROVE f[i] = <<Opening>>
      OBVIOUS
    <3>2. out = <<>>
      BY <1>3, <2>1, <3>1
    <3>3. SanitizeMessage(ms, out, i) = Append(out, Opening)
      <4>1. PICK o : o = Opening /\ o \in Clean(Id) /\ o.role = "user" /\ UsesOf(o) = {} /\ ResultsOf(o) = {} /\ o = ms[i]
        BY <3>1, OpeningIs
      <4> HIDE DEF Clean
      <4>2. QED BY <4>1, SanitizeWhole
    <3>4. QED BY <2>2, <3>2, <3>3
  <2>6. QED BY <1>4, <2>2, <2>4, <2>5
<1>7. n \in P
  BY ONLY <1>1, <1>5, <1>6, n \in 0..n, Induction
<1>8. QED BY <1>3, <1>4, <1>7

LEMMA MergeMessageHeaded ==
  ASSUME NEW Id, NEW out \in Seq(Messages(Id)), NEW m \in Messages(Id), Headed(out), Compacted(m) => out = <<Opening>>
  PROVE  Headed(MergeMessage(out, m))
<1>1. PICK M, q, p : M = Messages(Id) /\ q = Len(out) /\ q \in Nat /\ p = Last(out)
  OBVIOUS
<1>2. out \in Seq(M) /\ m \in M
  BY <1>1
<1>2a. Compacted(m) => Len(out) = 1 /\ out[1] = Opening
  OBVIOUS
<1>3. CASE out = <<>> \/ p.role # m.role
  <2>1. MergeMessage(out, m) = Append(out, m)
    BY <1>1, <1>3 DEF MergeMessage
  <2>2. Headed(Append(out, m))
    BY ONLY <1>2, <1>2a, Headed(out), HeadedAppend
  <2>3. QED BY <2>1, <2>2
<1>4. CASE out # <<>> /\ p.role = m.role
  <2>1. q \in 1..q /\ p = out[q] /\ p \in M
    BY <1>1, <1>2, <1>4 DEF Last
  <2>2. ~Compacted(m)
    <3>1. SUFFICES ASSUME Compacted(m) PROVE FALSE
      OBVIOUS
    <3>2. q = 1 /\ p = Opening
      BY <1>1, <1>2a, <2>1, <3>1
    <3>3. m.role = "assistant" /\ Opening.role = "user"
      BY <3>1, OpeningIs DEF Compacted
    <3>4. QED BY <1>4, <3>2, <3>3
  <2>3. CASE CannotMerge(p, m)
    <3>1. PICK x : x = Msg("assistant", <<Filler>>)
      OBVIOUS
    <3>2. MergeMessage(out, m) = out \o <<x, m>>
      BY <1>1, <1>4, <2>3, <3>1 DEF MergeMessage
    <3>3. x \in M /\ ~Compacted(x)
      <4>1. x \in Clean(Id) /\ x.blocks = <<Filler>>
        BY <3>1, FillerMessage DEF Msg
      <4>2. Filler.type = "filler"
        BY FillerBlock
      <4>3. ToSet(x.blocks) = {Filler}
        BY <4>1 DEF ToSet
      <4>4. QED BY <1>1, <4>1, <4>2, <4>3 DEF Compacted, Has, Clean
    <3>4a. PICK t : t = Append(out, x)
      OBVIOUS
    <3>4. t = Append(out, x) /\ t \in Seq(M)
      BY <1>2, <3>3, <3>4a
    <3>5. Headed(t)
      <4>1. Compacted(x) => Len(out) = 1 /\ out[1] = Opening
        BY <3>3
      <4>2. x \in M
        BY <3>3
      <4>3. QED BY ONLY <1>2, <3>4, <4>1, <4>2, Headed(out), HeadedAppend
    <3>6. Headed(Append(t, m))
      <4>1. Compacted(m) => Len(t) = 1 /\ t[1] = Opening
        BY <2>2
      <4>2. QED BY ONLY <1>2, <3>4, <3>5, <4>1, HeadedAppend
    <3>7. out \o <<x, m>> = Append(Append(out, x), m)
      BY <1>2, <3>3
    <3>8. QED BY <3>2, <3>4, <3>6, <3>7
  <2>4. CASE ~CannotMerge(p, m)
    <3>1. PICK w, s, t : w = Msg(m.role, p.blocks \o m.blocks) /\ s = Front(out) /\ t = Append(s, w)
      OBVIOUS
    <3>2. MergeMessage(out, m) = t
      BY <1>1, <1>4, <2>4, <3>1 DEF MergeMessage
    <3>3. p.blocks \in Seq(Blocks(Id)) /\ m.blocks \in Seq(Blocks(Id)) /\ m.role \in {"user", "assistant"}
      BY <1>1, <1>2, <2>1 DEF Messages
    <3>4. w \in M /\ (Compacted(w) => Compacted(p))
      <4>1. PICK b, c, d : b = p.blocks /\ c = m.blocks /\ d = b \o c
        OBVIOUS
      <4>1a. b \in Seq(Blocks(Id)) /\ c \in Seq(Blocks(Id))
        BY <3>3, <4>1
      <4>1b. \A T : \A u \in Seq(T), v \in Seq(T) : u \o v \in Seq(T)
        OBVIOUS
      <4>2. d \in Seq(Blocks(Id))
        BY ONLY <4>1, <4>1a, <4>1b
      <4>3. ToSet(d) = ToSet(b) \cup ToSet(c)
        BY <4>1, <4>1a, <4>2, ToSetConcat
      <4>3a. w = Msg(m.role, d)
        BY <3>1, <4>1
      <4>4. w \in M /\ w.role = m.role /\ w.blocks = d
        BY ONLY <1>1, <3>3, <4>2, <4>3a, MsgIs
      <4>5. QED BY <1>4, <2>2, <4>1, <4>3, <4>4 DEF Compacted, Has
    <3>5. s \in Seq(M) /\ Len(s) = q - 1 /\ \A k \in 1..(q - 1) : s[k] = out[k]
      BY <1>1, <1>2, <2>1, <3>1 DEF Front
    <3>5a. w \in M /\ s \in Seq(M)
      BY <3>4, <3>5
    <3>6. Len(t) = Len(s) + 1 /\ t[Len(s) + 1] = w /\ \A k \in 1..Len(s) : t[k] = s[k]
      BY ONLY <3>1, <3>5a, Appended
    <3>7. Len(t) = q /\ t[q] = w /\ \A k \in 1..(q - 1) : t[k] = out[k]
      BY <1>1, <2>1, <3>5, <3>6
    <3>8. ASSUME NEW k \in 1..q, Compacted(t[k]) PROVE k = 2 /\ t[1] = Opening
      <4>1. k = q \/ k \in 1..(q - 1)
        BY <1>1
      <4>2. Compacted(out[k])
        BY <2>1, <3>4, <3>7, <3>8, <4>1
      <4>3. k = 2 /\ out[1] = Opening
        BY <1>1, <4>2 DEF Headed
      <4>4. 1 \in 1..(q - 1)
        BY <1>1, <4>3
      <4>5. QED BY <3>7, <4>3, <4>4
    <3>9. QED BY <3>2, <3>7, <3>8 DEF Headed
  <2>5. QED BY <2>3, <2>4
<1>5. QED BY <1>3, <1>4

LEMMA MergeHeaded ==
  ASSUME NEW Id, NEW ms \in Seq(Clean(Id)), Headed(ms) PROVE Headed(MergeConsecutiveRoles(ms))
<1>1. PICK n, M : n = Len(ms) /\ n \in Nat /\ M = Messages(Id)
  OBVIOUS
<1>2. PICK f : Merges(f, ms)
  <2> HIDE DEF Clean
  <2>1. QED BY MergeSteps
<1>3. MergeConsecutiveRoles(ms) = f[n] /\ f[0] = <<>> /\ \A i \in 1..n : f[i] = MergeMessage(f[i - 1], ms[i])
  BY <1>1, <1>2 DEF Merges
<1>3a. \A i \in 1..n : ms[i] \in Messages(Id)
  <2>1. ms \in Seq(Messages(Id))
    BY CleanMessages
  <2>2. QED BY <1>1, <2>1
<1>4. PICK P : P = {i \in 0..n : f[i] \in Seq(M) /\ Headed(f[i]) /\ (i = 1 /\ ms[1] = Opening => f[i] = <<Opening>>)}
  OBVIOUS
<1>5. 0 \in P
  <2>1. Headed(<<>>)
    BY DEF Headed
  <2>2. \A T : <<>> \in Seq(T)
    OBVIOUS
  <2>3. 0 \in 0..n /\ f[0] \in Seq(M) /\ Headed(f[0])
    BY <1>1, <1>3, <2>1, <2>2
  <2>4. QED BY <1>4, <2>3
<1>6. ASSUME NEW i \in 1..n, i - 1 \in P PROVE i \in P
  <2>1. PICK out : out = f[i - 1] /\ out \in Seq(M) /\ Headed(out) /\ (i - 1 = 1 /\ ms[1] = Opening => out = <<Opening>>)
    BY <1>4, <1>6
  <2>2. PICK m : m = ms[i] /\ m \in M /\ i \in 0..n /\ f[i] = MergeMessage(out, m)
    BY <1>1, <1>3, <1>3a, <2>1
  <2>3. Compacted(m) => out = <<Opening>>
    <3>1. Compacted(m) => i = 2 /\ ms[1] = Opening
      BY <1>1, <2>2 DEF Headed
    <3>2. QED BY <2>1, <3>1
  <2>4. Headed(f[i])
    BY <1>1, <2>1, <2>2, <2>3, MergeMessageHeaded
  <2>5. f[i] \in Seq(M)
    BY <1>1, <2>1, <2>2, MergeType
  <2>6. i = 1 /\ ms[1] = Opening => f[i] = <<Opening>>
    <3>1. SUFFICES ASSUME i = 1, ms[1] = Opening PROVE f[i] = <<Opening>>
      OBVIOUS
    <3>2. out = <<>> /\ m = Opening
      BY <1>3, <2>1, <2>2, <3>1
    <3>3. MergeMessage(out, m) = Append(out, m)
      BY <3>2 DEF MergeMessage
    <3>4. QED BY <2>2, <3>2, <3>3
  <2>7. QED BY <1>4, <2>2, <2>4, <2>5, <2>6
<1>7. n \in P
  BY ONLY <1>1, <1>5, <1>6, n \in 0..n, Induction
<1>8. QED BY <1>3, <1>4, <1>7

\* A round answered in full is kept as it is.
LEMMA SanitizePair ==
  ASSUME NEW Id, NEW ms \in Seq(Clean(Id)), NEW a \in Clean(Id), NEW u \in Clean(Id),
         a.role = "assistant", u.role = "user", UsesOf(a) = ResultsOf(u)
  PROVE  /\ SanitizeToolPairs(Append(Append(ms, a), u)) = Append(Append(SanitizeToolPairs(ms), a), u)
         /\ SanitizeToolPairs(ms) \in Seq(Clean(Id))
<1>1a. PICK n, C : n = Len(ms) /\ n \in Nat /\ C = Clean(Id)
  OBVIOUS
<1>1b. PICK s : s = Append(Append(ms, a), u)
  OBVIOUS
<1>1. n = Len(ms) /\ n \in Nat /\ C = Clean(Id) /\ s = Append(Append(ms, a), u)
  BY <1>1a, <1>1b
<1>2. /\ s \in Seq(C) /\ Len(s) = n + 2 /\ s[n + 1] = a /\ s[n + 2] = u /\ \A i \in 1..n : s[i] = ms[i]
  <2>1. PICK t : t = Append(ms, a)
    OBVIOUS
  <2>2. ms \in Seq(C) /\ a \in C /\ u \in C /\ s = Append(t, u)
    BY <1>1, <2>1
  <2>3. t \in Seq(C) /\ Len(t) = n + 1 /\ t[n + 1] = a /\ \A i \in 1..n : t[i] = ms[i]
    BY ONLY <1>1, <2>1, <2>2, Appended
  <2>4. s \in Seq(C) /\ Len(s) = (n + 1) + 1 /\ s[(n + 1) + 1] = u /\ \A i \in 1..(n + 1) : s[i] = t[i]
    BY ONLY <2>2, <2>3, Appended
  <2>5. (n + 1) + 1 = n + 2 /\ n + 1 \in 1..(n + 1) /\ \A i \in 1..n : i \in 1..(n + 1)
    BY <1>1
  <2>6. QED BY <2>3, <2>4, <2>5
<1>3. PICK f : Sanitizes(f, ms)
  <2> HIDE DEF Clean
  <2>1. QED BY SanitizeSteps
<1>4. PICK g : Sanitizes(g, s)
  <2> HIDE DEF Clean
  <2>1. QED BY <1>1, <1>2, SanitizeSteps
<1>5. /\ SanitizeToolPairs(ms) = f[n] /\ f[0] = <<>> /\ \A i \in 1..n : f[i] = SanitizeMessage(ms, f[i - 1], i)
      /\ SanitizeToolPairs(s) = g[n + 2] /\ g[0] = <<>> /\ \A i \in 1..(n + 2) : g[i] = SanitizeMessage(s, g[i - 1], i)
  BY <1>1, <1>2, <1>3, <1>4 DEF Sanitizes
<1>6. ASSUME NEW i \in 1..n, NEW out PROVE SanitizeMessage(s, out, i) = SanitizeMessage(ms, out, i)
  <2>1. Answered(s, i) = Answered(ms, i)
    <3>1. CASE i = n
      <4>1. Answered(ms, i) = {}
        BY <1>1, <3>1 DEF Answered
      <4>2. i < Len(s) /\ i + 1 = n + 1
        BY <1>1, <1>2, <3>1
      <4>3. QED BY <1>2, <4>1, <4>2 DEF Answered, IdsIf
    <3>2. CASE i # n
      <4>1. i < Len(ms) /\ i < Len(s) /\ i + 1 \in 1..n
        BY <1>1, <1>2, <3>2
      <4>2. QED BY <1>2, <4>1 DEF Answered
    <3>3. QED BY <3>1, <3>2
  <2>2. s[i] = ms[i]
    BY <1>2
  <2>3. QED BY <2>1, <2>2 DEF SanitizeMessage, Answered
<1>7. PICK P : P = {i \in 0..n : f[i] \in Seq(C) /\ g[i] = f[i]}
  OBVIOUS
<1>8. 0 \in P
  <2>1. \A T : <<>> \in Seq(T)
    OBVIOUS
  <2>2. 0 \in 0..n /\ f[0] \in Seq(C) /\ g[0] = f[0]
    BY <1>1, <1>5, <2>1
  <2>3. QED BY <1>7, <2>2
<1>9. ASSUME NEW i \in 1..n, i - 1 \in P PROVE i \in P
  <2>1. PICK out : out = f[i - 1] /\ out \in Seq(C) /\ g[i - 1] = out
    BY <1>7, <1>9
  <2>2. i \in 1..(n + 2) /\ i \in 0..n /\ i \in 1..Len(ms)
    BY <1>1
  <2>3. f[i] = SanitizeMessage(ms, out, i) /\ g[i] = SanitizeMessage(ms, out, i)
    BY <1>5, <1>6, <2>1, <2>2
  <2>4. SanitizeMessage(ms, out, i) \in Seq(C)
    <3> HIDE DEF Clean
    <3>1. QED BY <1>1, <2>1, <2>2, SanitizeType
  <2>5. QED BY <1>7, <2>2, <2>3, <2>4
<1>10. n \in P
  BY ONLY <1>1, <1>8, <1>9, n \in 0..n, Induction
<1>11. PICK d : d = f[n] /\ d \in Seq(C) /\ g[n] = d
  BY <1>7, <1>10
<1>12. n + 1 \in 1..(n + 2) /\ n + 2 \in 1..(n + 2) /\ (n + 1) - 1 = n /\ (n + 2) - 1 = n + 1 /\ n + 1 < n + 2 /\ (n + 1) + 1 = n + 2
  BY <1>1
<1>13. g[n + 1] = Append(d, a)
  <2>1. UsesOf(a) \subseteq Answered(s, n + 1)
    BY <1>2, <1>12 DEF Answered, IdsIf, ResultsOf
  <2>2. a = s[n + 1] /\ a.role # "user"
    BY <1>2
  <2>3. PICK j : j = n + 1
    OBVIOUS
  <2>4. SanitizeMessage(s, d, j) = Append(d, a)
    <3> HIDE DEF Clean
    <3>1. a = s[j] /\ UsesOf(a) \subseteq Answered(s, j)
      BY <2>1, <2>2, <2>3
    <3>2. QED BY <2>2, <3>1, SanitizeWhole
  <2>5. QED BY <1>5, <1>11, <1>12, <2>3, <2>4
<1>14. g[n + 2] = Append(Append(d, a), u)
  <2>1. PICK e, j : e = Append(d, a) /\ j = n + 2
    OBVIOUS
  <2>2. AskedBy(e) = UsesOf(a)
    <3>1. a \in C
      BY <1>1
    <3>2. e # <<>> /\ Len(e) = Len(d) + 1 /\ e[Len(d) + 1] = a
      BY ONLY <1>11, <2>1, <3>1, Appended
    <3>3. Last(e) = a
      BY <3>2 DEF Last
    <3>4. QED BY <3>2, <3>3 DEF AskedBy, IdsIf, UsesOf
  <2>3. u = s[j] /\ u.role # "assistant" /\ ResultsOf(u) \subseteq AskedBy(e)
    BY <1>2, <2>1, <2>2
  <2>4. SanitizeMessage(s, e, j) = Append(e, u)
    <3> HIDE DEF Clean
    <3>1. QED BY <2>3, SanitizeWhole
  <2>5. QED BY <1>5, <1>12, <1>13, <2>1, <2>4
<1>15. QED BY <1>1, <1>5, <1>11, <1>14

\* After a message of the user, a round stays two messages.
LEMMA MergePair ==
  ASSUME NEW Id, NEW ms \in Seq(Clean(Id)), NEW a \in Clean(Id), NEW u \in Clean(Id), a.role = "assistant", u.role = "user",
         NEW x, x = MergeConsecutiveRoles(ms), x \in Seq(Messages(Id)), x # <<>>, x[Len(x)].role = "user"
  PROVE  MergeConsecutiveRoles(Append(Append(ms, a), u)) = Append(Append(x, a), u)
<1>1a. PICK n, C : n = Len(ms) /\ n \in Nat /\ C = Clean(Id)
  OBVIOUS
<1>1b. PICK s : s = Append(Append(ms, a), u)
  OBVIOUS
<1>1. n = Len(ms) /\ n \in Nat /\ C = Clean(Id) /\ s = Append(Append(ms, a), u)
  BY <1>1a, <1>1b
<1>2. /\ s \in Seq(C) /\ Len(s) = n + 2 /\ s[n + 1] = a /\ s[n + 2] = u /\ \A i \in 1..n : s[i] = ms[i]
  <2>1. PICK t : t = Append(ms, a)
    OBVIOUS
  <2>2. ms \in Seq(C) /\ a \in C /\ u \in C /\ s = Append(t, u)
    BY <1>1, <2>1
  <2>3. t \in Seq(C) /\ Len(t) = n + 1 /\ t[n + 1] = a /\ \A i \in 1..n : t[i] = ms[i]
    BY ONLY <1>1, <2>1, <2>2, Appended
  <2>4. s \in Seq(C) /\ Len(s) = (n + 1) + 1 /\ s[(n + 1) + 1] = u /\ \A i \in 1..(n + 1) : s[i] = t[i]
    BY ONLY <2>2, <2>3, Appended
  <2>5. (n + 1) + 1 = n + 2 /\ n + 1 \in 1..(n + 1) /\ \A i \in 1..n : i \in 1..(n + 1)
    BY <1>1
  <2>6. QED BY <2>3, <2>4, <2>5
<1>3. PICK f : Merges(f, ms)
  <2> HIDE DEF Clean
  <2>1. QED BY MergeSteps
<1>4. PICK g : Merges(g, s)
  <2> HIDE DEF Clean
  <2>1. QED BY <1>1, <1>2, MergeSteps
<1>5. /\ x = f[n] /\ f[0] = <<>> /\ \A i \in 1..n : f[i] = MergeMessage(f[i - 1], ms[i])
      /\ MergeConsecutiveRoles(s) = g[n + 2] /\ g[0] = <<>> /\ \A i \in 1..(n + 2) : g[i] = MergeMessage(g[i - 1], s[i])
  BY <1>1, <1>2, <1>3, <1>4 DEF Merges
<1>6. PICK P : P = {i \in 0..n : g[i] = f[i]}
  OBVIOUS
<1>7. 0 \in P
  BY <1>1, <1>5, <1>6
<1>8. ASSUME NEW i \in 1..n, i - 1 \in P PROVE i \in P
  <2>1. i \in 1..(n + 2) /\ i \in 0..n /\ g[i - 1] = f[i - 1] /\ s[i] = ms[i]
    BY <1>1, <1>2, <1>6, <1>8
  <2>2. QED BY <1>5, <1>6, <2>1
<1>9. n \in P
  BY ONLY <1>1, <1>7, <1>8, n \in 0..n, Induction
<1>10. g[n] = x
  BY <1>5, <1>6, <1>9
<1>11. n + 1 \in 1..(n + 2) /\ n + 2 \in 1..(n + 2) /\ (n + 1) - 1 = n /\ (n + 2) - 1 = n + 1
  BY <1>1
<1>12. g[n + 1] = Append(x, a)
  <2>1. g[n + 1] = MergeMessage(x, a)
    BY <1>2, <1>5, <1>10, <1>11
  <2>2. QED BY <2>1 DEF MergeMessage, Last
<1>13. g[n + 2] = Append(Append(x, a), u)
  <2>1. PICK y, q : y = Append(x, a) /\ q = Len(x)
    OBVIOUS
  <2>2. a \in Messages(Id)
    BY DEF Clean
  <2>3. Len(y) = q + 1 /\ y[q + 1] = a
    BY ONLY <2>1, <2>2, x \in Seq(Messages(Id)), Appended
  <2>4. Last(y).role # u.role
    BY <2>3 DEF Last
  <2>5. g[n + 2] = MergeMessage(y, u)
    BY <1>2, <1>5, <1>11, <1>12, <2>1
  <2>6. QED BY <2>1, <2>4, <2>5 DEF MergeMessage
<1>14. QED BY <1>1, <1>5, <1>13

LEMMA HeadedShown ==
  ASSUME NEW Id, NEW S, OwnRows(Id, S), NEW rs \in Seq(S) PROVE Headed(Shown(Id, S, rs))
<1>1. PICK t, c : t = TrimToLastCompaction(rs) /\ c = Images(SeenOf(Id, S), t)
  OBVIOUS
<1>2. Opening \in S
  BY DEF OwnRows, StoredRows, Opening
<1>3. t \in Seq(S) /\ Headed(t)
  BY <1>1, <1>2, TrimType, HeadedTrim DEF Opening
<1>4. c \in Seq(Clean(Id))
  <2> HIDE DEF Clean
  <2>1. QED BY <1>1, HistoryShown
<1>5. Headed(c)
  BY <1>1, <1>3, HeadedSeen
<1>6. Headed(SanitizeToolPairs(c)) /\ SanitizeToolPairs(c) \in Seq(Clean(Id))
  <2> HIDE DEF Clean
  <2>1. QED BY <1>4, <1>5, SanitizeHeaded, SanitizeFades
<1>7. Headed(MergeConsecutiveRoles(SanitizeToolPairs(c)))
  <2> HIDE DEF Clean
  <2>1. QED BY <1>6, MergeHeaded
<1>8. QED BY <1>1, <1>7 DEF Shown

\* The pipeline leaves the opening alone.
LEMMA OpeningStays ==
  ASSUME NEW Id, NEW s, s = <<Opening>>
  PROVE  s \in Seq(Clean(Id)) /\ SanitizeToolPairs(s) = s /\ MergeConsecutiveRoles(s) = s
<1>1. PICK C, o : C = Clean(Id) /\ o = Opening /\ o \in C /\ o.role = "user" /\ UsesOf(o) = {} /\ ResultsOf(o) = {}
  BY OpeningIs
<1>2. s \in Seq(C) /\ Len(s) = 1 /\ s[1] = o /\ s = Append(<<>>, o)
  BY <1>1
<1>3. SanitizeToolPairs(s) = s
  <2>1. PICK f : Sanitizes(f, s)
    <3> HIDE DEF Clean
    <3>1. QED BY <1>1, <1>2, SanitizeSteps
  <2>2. SanitizeToolPairs(s) = f[1] /\ f[1] = SanitizeMessage(s, <<>>, 1)
    BY <1>2, <2>1 DEF Sanitizes
  <2>3. SanitizeMessage(s, <<>>, 1) = Append(<<>>, o)
    <3> HIDE DEF Clean
    <3>1. QED BY <1>1, <1>2, SanitizeWhole
  <2>4. QED BY <1>2, <2>2, <2>3
<1>4. MergeConsecutiveRoles(s) = s
  <2>1. PICK f : Merges(f, s)
    <3> HIDE DEF Clean
    <3>1. QED BY <1>1, <1>2, MergeSteps
  <2>2. MergeConsecutiveRoles(s) = f[1] /\ f[1] = MergeMessage(<<>>, o)
    BY <1>2, <2>1 DEF Merges
  <2>3. QED BY <1>2, <2>2 DEF MergeMessage
<1>5. QED BY <1>1, <1>2, <1>3, <1>4

LEMMA AppendPair ==
  ASSUME NEW S, Opening \in S, NEW ms \in Seq(S), NEW a \in S, NEW u \in S, ~Compacted(u)
  PROVE  TrimToLastCompaction(Append(Append(ms, a), u)) =
           IF Compacted(a) THEN Append(Append(<<Opening>>, a), u) ELSE Append(Append(TrimToLastCompaction(ms), a), u)
<1>1. PICK t : t = Append(ms, a)
  OBVIOUS
<1>2. t \in Seq(S)
  BY <1>1
<1>3. TrimToLastCompaction(Append(t, u)) = Append(TrimToLastCompaction(t), u)
  BY <1>2, TrimAppend
<1>4. TrimToLastCompaction(t) = IF Compacted(a) THEN <<Opening, a>> ELSE Append(TrimToLastCompaction(ms), a)
  BY <1>1, TrimAppend
<1>5. <<Opening, a>> = Append(<<Opening>>, a)
  OBVIOUS
<1>6. QED BY <1>1, <1>3, <1>4, <1>5

\* A round whose use and result have both been saved.
RoundOf(a, u) == a.role = "assistant" /\ u.role = "user" /\ UsesOf(a) = ResultsOf(u)

(* Two rows more, two messages more, or what a compaction leaves of them.   *)
LEMMA ShownGrows ==
  ASSUME NEW Id, NEW S, OwnRows(Id, S), NEW rs \in Seq(S), NEW a \in S, NEW u \in S, RoundOf(a, u),
         NEW x, x = Shown(Id, S, rs), x \in Seq(Messages(Id)), x # <<>>, x[Len(x)].role = "user"
  PROVE  Shown(Id, S, Append(Append(rs, a), u)) = TrimToLastCompaction(Append(Append(x, Seen(Id, a)), Seen(Id, u)))
<1>1. PICK F, b, v, t, c : F = SeenOf(Id, S) /\ b = Seen(Id, a) /\ v = Seen(Id, u) /\ t = TrimToLastCompaction(rs) /\ c = Images(F, t)
  OBVIOUS
<1>2. IsRow(Id, a) /\ ~Has(a, "srvResult") /\ IsRow(Id, u) /\ ~Has(u, "srvResult") /\ Opening \in S
  BY DEF OwnRows, StoredRows, Opening
<1>3. b \in Clean(Id) /\ v \in Clean(Id) /\ b.role = "assistant" /\ v.role = "user" /\ UsesOf(b) = ResultsOf(v)
  BY <1>1, <1>2, SeenIs DEF Like, RoundOf
<1>4. /\ (Compacted(b) <=> Compacted(a)) /\ ~Compacted(v) /\ ~Compacted(u)
      /\ F[a] = b /\ F[u] = v /\ F[Opening] = Opening
  BY <1>1, <1>2, <1>3, SeenCompacted, OpeningIs DEF Compacted, RoundOf, SeenOf
<1>5. PICK C : C = Clean(Id) /\ Into(F, S, C) /\ t \in Seq(S)
  BY <1>1, <1>2, SeenOfType, TrimType DEF Opening
<1>6. b \in Messages(Id) /\ v \in Messages(Id) /\ Opening \in Messages(Id)
  BY <1>3, OpeningIs DEF Clean
<1>7. \A s \in Seq(S) : Images(F, Append(Append(s, a), u)) = Append(Append(Images(F, s), b), v)
  <2>1. \A s \in Seq(S), e \in S : Images(F, Append(s, e)) = Append(Images(F, s), F[e])
    BY ONLY <1>5, EachAppend
  <2>2. \A s \in Seq(S) : Append(s, a) \in Seq(S)
    OBVIOUS
  <2>3. ASSUME NEW s \in Seq(S) PROVE Images(F, Append(Append(s, a), u)) = Append(Append(Images(F, s), b), v)
    <3>1. Images(F, Append(Append(s, a), u)) = Append(Images(F, Append(s, a)), F[u])
      BY <2>1, <2>2
    <3>2. Images(F, Append(s, a)) = Append(Images(F, s), F[a])
      BY <2>1
    <3>3. QED BY <1>4, <3>1, <3>2
  <2>4. QED BY <2>3
<1>8. TrimToLastCompaction(x) = x
  <2>1. Headed(x)
    BY HeadedShown
  <2>2. QED BY <1>6, <2>1, TrimHeaded
<1>9. PICK y : y = TrimToLastCompaction(Append(Append(x, b), v))
  OBVIOUS
<1>10. y = IF Compacted(b) THEN Append(Append(<<Opening>>, b), v) ELSE Append(Append(x, b), v)
  BY <1>4, <1>6, <1>8, <1>9, AppendPair
<1>11. TrimToLastCompaction(Append(Append(rs, a), u)) =
         IF Compacted(a) THEN Append(Append(<<Opening>>, a), u) ELSE Append(Append(t, a), u)
  BY <1>1, <1>2, <1>4, AppendPair
<1>12. c \in Seq(C) /\ x = MergeConsecutiveRoles(SanitizeToolPairs(c))
  <2>1. c \in Seq(C)
    <3> HIDE DEF Clean
    <3>1. QED BY <1>1, <1>5, HistoryShown
  <2>2. QED BY <1>1, <2>1 DEF Shown
<1>13. CASE Compacted(a)
  <2>1. PICK o : o = <<Opening>>
    OBVIOUS
  <2>2. o \in Seq(C) /\ SanitizeToolPairs(o) = o /\ MergeConsecutiveRoles(o) = o /\ o # <<>> /\ o[Len(o)] = Opening
    BY <1>5, <2>1, OpeningStays
  <2>3. Images(F, o) = o /\ o \in Seq(S)
    BY <1>2, <1>4, <2>1 DEF Images
  <2>4. Shown(Id, S, Append(Append(rs, a), u)) = MergeConsecutiveRoles(SanitizeToolPairs(Append(Append(o, b), v)))
    BY <1>1, <1>7, <1>11, <1>13, <2>1, <2>3 DEF Shown
  <2>5. SanitizeToolPairs(Append(Append(o, b), v)) = Append(Append(o, b), v)
    <3>1. o \in Seq(Clean(Id)) /\ SanitizeToolPairs(o) = o
      BY <1>5, <2>2
    <3> HIDE DEF Clean
    <3>2. SanitizeToolPairs(Append(Append(o, b), v)) = Append(Append(SanitizeToolPairs(o), b), v)
      BY ONLY <1>3, <3>1, SanitizePair
    <3>3. QED BY ONLY <3>1, <3>2
  <2>6. MergeConsecutiveRoles(Append(Append(o, b), v)) = Append(Append(o, b), v)
    <3>1. o \in Seq(Messages(Id)) /\ Opening.role = "user"
      BY <1>6, <2>1, OpeningIs
    <3> HIDE DEF Clean
    <3>2. QED BY <1>3, <1>5, <2>2, <3>1, MergePair
  <2>7. QED BY <1>1, <1>4, <1>9, <1>10, <1>13, <2>1, <2>4, <2>5, <2>6
<1>14. CASE ~Compacted(a)
  <2>1. PICK d : d = SanitizeToolPairs(c)
    OBVIOUS
  <2>2. Shown(Id, S, Append(Append(rs, a), u)) = MergeConsecutiveRoles(SanitizeToolPairs(Append(Append(c, b), v)))
    BY <1>1, <1>5, <1>7, <1>11, <1>14 DEF Shown
  <2>3. SanitizeToolPairs(Append(Append(c, b), v)) = Append(Append(d, b), v) /\ d \in Seq(C)
    <3> HIDE DEF Clean
    <3>1. QED BY <1>3, <1>5, <1>12, <2>1, SanitizePair
  <2>4. MergeConsecutiveRoles(Append(Append(d, b), v)) = Append(Append(x, b), v)
    <3> HIDE DEF Clean
    <3>1. QED BY <1>3, <1>5, <1>12, <2>1, <2>3, MergePair
  <2>5. QED BY <1>1, <1>4, <1>9, <1>10, <1>14, <2>2, <2>3, <2>4
<1>15. QED BY <1>13, <1>14

(* Which files a turn could load changes nothing else in what it is sent:   *)
(* apart from a file or its stub in their place, its history is the same    *)
(* (rehydrateDataRoomRefs, sanitizeToolPairs, mergeConsecutiveRoles).       *)
THEOREM FilesOnlyFade ==
  ASSUME NEW Id, NEW S, OwnRows(Id, S), NEW rs \in Seq(S), NEW loadable, NEW others
  PROVE  Images(MessageFade(Id), History(rs, loadable, FALSE)) = Images(MessageFade(Id), History(rs, others, FALSE))
  BY HistoryShown
=============================================================================
