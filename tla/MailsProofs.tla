----------------------------- MODULE MailsProofs -----------------------------
(***************************************************************************)
(* Theorems about Alerts and Mails: what the parser of an alert yields for *)
(* every table, however long.                                              *)
(*                                                                         *)
(* The induction over the rows is the one of the natural numbers in the    *)
(* form of a least element: a table that refuted a lemma would have a      *)
(* shortest one.                                                           *)
(***************************************************************************)
EXTENDS Mails, WellFoundedInduction, FiniteSetTheorems, TLAPS

-----------------------------------------------------------------------------
(* Induction and recursion along a sequence.                               *)

LEMMA LeastElement ==
    ASSUME NEW T, T \subseteq Nat, T # {}
    PROVE  \E x \in T : \A y \in T : x <= y
<1> DEFINE R == OpToRel(<, Nat)
<1>1. IsWellFoundedOn(R, Nat)
  BY NatLessThanWellFounded
<1>2. \A x, y \in Nat : x < y => <<x, y>> \in R
  BY DEF OpToRel
<1> HIDE DEF R
<1>3. PICK x \in T : \A y \in T : ~(<<y, x>> \in R)
  BY <1>1, WFMin
<1>4. \A y \in T : ~(y < x) /\ x \in Nat /\ y \in Nat
  BY <1>2, <1>3
<1> QED BY <1>3, <1>4

\* A set of numbers without a first element that leaves out is empty.
LEMMA NothingFails ==
    ASSUME NEW N \in Nat, NEW T, T \subseteq 0 .. N, 0 \notin T,
           \A n \in 1 .. N : n \in T => n - 1 \in T
    PROVE  T = {}
<1> SUFFICES ASSUME T # {} PROVE FALSE
  OBVIOUS
<1>1. PICK x \in T : \A y \in T : x <= y
  <2>1. T \subseteq Nat
    OBVIOUS
  <2> QED BY <2>1, LeastElement
<1>2. x \in 1 .. N /\ x - 1 < x
  BY <1>1
<1> QED BY <1>1, <1>2

\* f and g begin alike and differ after n only if they differ before it.
StepAlike(f, g, N) ==
    /\ f[0] = g[0]
    /\ \A n \in 1 .. N : f[n - 1] = g[n - 1] => f[n] = g[n]

LEMMA AgreeUpTo ==
    ASSUME NEW N \in Nat, NEW f, NEW g, StepAlike(f, g, N)
    PROVE  \A n \in 0 .. N : f[n] = g[n]
<1> USE DEF StepAlike
<1> DEFINE T == {n \in 0 .. N : f[n] # g[n]}
<1>1. T \subseteq 0 .. N /\ 0 \notin T
  OBVIOUS
<1>2. \A n \in 1 .. N : n \in T => n - 1 \in T
  OBVIOUS
<1>3. T = {}
  <2> HIDE DEF T
  <2> QED BY <1>1, <1>2, NothingFails
<1> QED BY <1>3

\* f holds the results of a step applied to the elements of seq, one by one.
Iterates(f, step, base, seq, m) ==
    /\ f[0] = base
    /\ \A n \in 1 .. m : f[n] = step[<<f[n - 1], seq[n]>>]

LEMMA IterationExists ==
    ASSUME NEW S, NEW R, NEW step \in [S \X R -> S], NEW base \in S,
           NEW seq \in Seq(R)
    PROVE  \E f \in [0 .. Len(seq) -> S] : Iterates(f, step, base, seq, Len(seq))
<1> DEFINE Good(m, f) == Iterates(f, step, base, seq, m)
<1> DEFINE T == {m \in 0 .. Len(seq) : ~ \E f \in [0 .. m -> S] : Good(m, f)}
<1>1. T \subseteq 0 .. Len(seq)
  OBVIOUS
<1>2. 0 \notin T
  <2> DEFINE g == [n \in 0 .. 0 |-> base]
  <2>1. g \in [0 .. 0 -> S] /\ Good(0, g)
    BY DEF Iterates
  <2> QED BY <2>1
<1>3. ASSUME NEW m \in 1 .. Len(seq), m \in T PROVE m - 1 \in T
  <2> SUFFICES ASSUME NEW f \in [0 .. m - 1 -> S], Good(m - 1, f) PROVE FALSE
    OBVIOUS
  <2> DEFINE v == step[<<f[m - 1], seq[m]>>]
             g == [n \in 0 .. m |-> IF n = m THEN v ELSE f[n]]
  <2>1. v \in S
    OBVIOUS
  <2>2. g[m] = v /\ \A n \in 0 .. m - 1 : g[n] = f[n]
    OBVIOUS
  <2>3. g \in [0 .. m -> S]
    <3> HIDE DEF v
    <3> QED BY <2>1
  <2>4. \A n \in 1 .. m : g[n] = step[<<g[n - 1], seq[n]>>]
    <3> SUFFICES ASSUME NEW n \in 1 .. m PROVE g[n] = step[<<g[n - 1], seq[n]>>]
      OBVIOUS
    <3>1. g[n - 1] = f[n - 1]
      BY <2>2
    <3>2. CASE n = m
      BY <2>2, <3>1, <3>2
    <3>3. CASE n # m
      BY <2>2, <3>1, <3>3 DEF Iterates
    <3> QED BY <3>2, <3>3
  <2>5. g[0] = base
    <3>1. f[0] = base /\ 0 \in 0 .. m - 1
      BY DEF Iterates
    <3> QED BY <2>2, <3>1
  <2>6. Good(m, g)
    <3> HIDE DEF g
    <3> QED BY <2>4, <2>5 DEF Iterates
  <2> QED BY <1>3, <2>3, <2>6
<1>4. T = {}
  <2>1. Len(seq) \in Nat
    OBVIOUS
  <2> HIDE DEF T
  <2> QED BY <1>1, <1>2, <1>3, <2>1, NothingFails
<1>5. Len(seq) \in 0 .. Len(seq)
  OBVIOUS
<1> QED BY <1>4, <1>5

\* What holds of the empty sequence and of every sequence one longer.
LEMMA FrontAndLast ==
    ASSUME NEW R, NEW s \in Seq(R), s # <<>>
    PROVE  \E front \in Seq(R), r \in R :
              s = Append(front, r) /\ Len(front) = Len(s) - 1
<1> DEFINE front == [i \in 1 .. Len(s) - 1 |-> s[i]]
<1>1. Len(s) \in Nat \ {0} /\ s[Len(s)] \in R
  OBVIOUS
<1>2. front \in Seq(R) /\ Len(front) = Len(s) - 1
  BY <1>1
<1>3. s = Append(front, s[Len(s)])
  BY <1>1, <1>2
<1> QED BY <1>1, <1>2, <1>3

-----------------------------------------------------------------------------
(* extract_pairs and _split_pair_blocks, one row at a time.                *)

Kept(rows) ==
    CHOOSE kept : kept = [n \in 0 .. Len(rows) |->
        IF n = 0 THEN <<>>
        ELSE IF rows[n].value = Empty THEN kept[n - 1]
        ELSE Append(kept[n - 1], rows[n])]

LEMMA KeptIs ==
    ASSUME NEW R, NEW rows \in Seq(R)
    PROVE  /\ Pairs(rows) = Kept(rows)[Len(rows)]
           /\ Kept(rows) \in [0 .. Len(rows) -> Seq(R)]
           /\ Kept(rows)[0] = <<>>
           /\ \A n \in 1 .. Len(rows) :
                 Kept(rows)[n] = IF rows[n].value = Empty THEN Kept(rows)[n - 1]
                                 ELSE Append(Kept(rows)[n - 1], rows[n])
<1> DEFINE step == [x \in Seq(R) \X R |->
                      IF x[2].value = Empty THEN x[1] ELSE Append(x[1], x[2])]
<1>1. step \in [Seq(R) \X R -> Seq(R)]
  OBVIOUS
<1>2. \A s \in Seq(R), r \in R :
         step[<<s, r>>] = IF r.value = Empty THEN s ELSE Append(s, r)
  OBVIOUS
<1> HIDE DEF step
<1>3. PICK f \in [0 .. Len(rows) -> Seq(R)] :
         /\ f[0] = <<>>
         /\ \A n \in 1 .. Len(rows) : f[n] = step[<<f[n - 1], rows[n]>>]
  <2>1. <<>> \in Seq(R)
    OBVIOUS
  <2>2. \E f \in [0 .. Len(rows) -> Seq(R)] : Iterates(f, step, <<>>, rows, Len(rows))
    BY <1>1, <2>1, IterationExists
  <2> QED BY <2>2 DEF Iterates
<1>4. \A n \in 1 .. Len(rows) :
         f[n] = IF rows[n].value = Empty THEN f[n - 1] ELSE Append(f[n - 1], rows[n])
  <2> SUFFICES ASSUME NEW n \in 1 .. Len(rows)
               PROVE  f[n] = IF rows[n].value = Empty THEN f[n - 1]
                             ELSE Append(f[n - 1], rows[n])
    OBVIOUS
  <2>1. f[n - 1] \in Seq(R) /\ rows[n] \in R
    OBVIOUS
  <2> QED BY <1>2, <1>3, <2>1
<1> DEFINE k == Kept(rows)  N == Len(rows)
<1> DEFINE body(h, n) == IF n = 0 THEN <<>>
                         ELSE IF rows[n].value = Empty THEN h[n - 1]
                         ELSE Append(h[n - 1], rows[n])
<1>5. f = [n \in 0 .. N |-> body(f, n)]
  <2>1. \A n \in 0 .. N : f[n] = body(f, n)
    <3> SUFFICES ASSUME NEW n \in 0 .. N PROVE f[n] = body(f, n)
      OBVIOUS
    <3>1. CASE n = 0
      BY <1>3, <3>1
    <3>2. CASE n # 0
      <4>1. n \in 1 .. N
        BY <3>2
      <4> QED BY <1>4, <3>2, <4>1
    <3> QED BY <3>1, <3>2
  <2> HIDE DEF body
  <2> QED BY <1>3, <2>1
<1>6. k = [n \in 0 .. N |-> body(k, n)]
  BY <1>5 DEF Kept
<1> HIDE DEF k
<1>7. /\ k[0] = <<>>
      /\ \A n \in 1 .. N : k[n] = IF rows[n].value = Empty THEN k[n - 1]
                                   ELSE Append(k[n - 1], rows[n])
  <2>1. N \in Nat
    OBVIOUS
  <2>2. 0 \in 0 .. N /\ \A n \in 1 .. N : n \in 0 .. N /\ n # 0
    BY <2>1
  <2>3. \A n \in 0 .. N : k[n] = body(k, n)
    <3> HIDE DEF body
    <3> QED BY <1>6
  <2> QED BY <2>2, <2>3
<1>8. \A n \in 0 .. N : k[n] = f[n]
  <2>1. StepAlike(k, f, N)
    BY <1>3, <1>4, <1>7 DEF StepAlike
  <2>2. N \in Nat
    OBVIOUS
  <2> QED BY <2>1, <2>2, AgreeUpTo
<1>9. k \in [0 .. N -> Seq(R)]
  <2>1. k = [n \in 0 .. N |-> k[n]]
    <3> HIDE DEF body
    <3> QED BY <1>6
  <2> QED BY <1>8, <2>1
<1>10. Pairs(rows) = k[N]
  BY DEF Pairs, Kept, k
<1> QED BY <1>7, <1>9, <1>10 DEF k

LEMMA PairsOfNone == Pairs(<<>>) = <<>>
<1>1. <<>> \in Seq({}) /\ Len(<<>>) = 0
  OBVIOUS
<1> QED BY <1>1, KeptIs

LEMMA PairsOfMore ==
    ASSUME NEW R, NEW s \in Seq(R), NEW r \in R
    PROVE  /\ Pairs(s) \in Seq(R)
           /\ Pairs(Append(s, r)) = IF r.value = Empty THEN Pairs(s)
                                    ELSE Append(Pairs(s), r)
<1> DEFINE t == Append(s, r)
<1>1. t \in Seq(R) /\ Len(t) = Len(s) + 1 /\ t[Len(s) + 1] = r
  OBVIOUS
<1>2. \A n \in 1 .. Len(s) : t[n] = s[n]
  OBVIOUS
<1> HIDE DEF t
<1> DEFINE f == Kept(s)  g == Kept(t)
<1>3. /\ Pairs(s) = f[Len(s)] /\ f \in [0 .. Len(s) -> Seq(R)] /\ f[0] = <<>>
      /\ \A n \in 1 .. Len(s) :
            f[n] = IF s[n].value = Empty THEN f[n - 1] ELSE Append(f[n - 1], s[n])
  BY KeptIs
<1>4. /\ Pairs(t) = g[Len(s) + 1] /\ g[0] = <<>>
      /\ \A n \in 1 .. Len(s) + 1 :
            g[n] = IF t[n].value = Empty THEN g[n - 1] ELSE Append(g[n - 1], t[n])
  BY <1>1, KeptIs
<1> HIDE DEF f, g
<1>5. \A n \in 0 .. Len(s) : f[n] = g[n]
  <2>1. Len(s) \in Nat
    OBVIOUS
  <2>2. ASSUME NEW n \in 1 .. Len(s), f[n - 1] = g[n - 1] PROVE f[n] = g[n]
    <3>1. n \in 1 .. Len(s) + 1 /\ t[n] = s[n]
      BY <1>2, <2>1
    <3>2. g[n] = IF s[n].value = Empty THEN g[n - 1] ELSE Append(g[n - 1], s[n])
      BY <1>4, <3>1
    <3>3. f[n] = IF s[n].value = Empty THEN f[n - 1] ELSE Append(f[n - 1], s[n])
      BY <1>3
    <3> QED BY <2>2, <3>2, <3>3
  <2>3. f[0] = g[0]
    BY <1>3, <1>4
  <2>4. StepAlike(f, g, Len(s))
    BY <2>2, <2>3 DEF StepAlike
  <2> QED BY <2>1, <2>4, AgreeUpTo
<1>6. g[Len(s) + 1] = IF r.value = Empty THEN g[Len(s)] ELSE Append(g[Len(s)], r)
  BY <1>1, <1>4
<1> QED BY <1>3, <1>4, <1>5, <1>6 DEF t
\* _split_pair_blocks: what one pair does to the blocks before it.
CutStep(blocks, r) ==
    IF r.label = "account" THEN Append(blocks, <<r>>)
    ELSE IF blocks = <<>> THEN <<>>
    ELSE [blocks EXCEPT ![Len(blocks)] = Append(@, r)]

Cut(pairs) ==
    CHOOSE cut : cut = [n \in 0 .. Len(pairs) |->
        IF n = 0 THEN <<>> ELSE CutStep(cut[n - 1], pairs[n])]

LEMMA CutStepType ==
    ASSUME NEW R, NEW b \in Seq(Seq(R)), NEW r \in R
    PROVE  CutStep(b, r) \in Seq(Seq(R))
<1>1. CASE r.label = "account"
  <2>1. <<r>> \in Seq(R)
    OBVIOUS
  <2> QED BY <1>1, <2>1 DEF CutStep
<1>2. CASE r.label # "account" /\ b = <<>>
  BY <1>2 DEF CutStep
<1>3. CASE r.label # "account" /\ b # <<>>
  <2>1. Len(b) \in 1 .. Len(b) /\ b[Len(b)] \in Seq(R)
    BY <1>3
  <2>2. Append(b[Len(b)], r) \in Seq(R)
    BY <2>1
  <2>3. [b EXCEPT ![Len(b)] = Append(@, r)] \in Seq(Seq(R))
    BY <2>1, <2>2
  <2> QED BY <1>3, <2>3 DEF CutStep
<1> QED BY <1>1, <1>2, <1>3

LEMMA CutIs ==
    ASSUME NEW R, NEW rows \in Seq(R)
    PROVE  /\ SplitBlocks(rows) = Cut(rows)[Len(rows)]
           /\ Cut(rows) \in [0 .. Len(rows) -> Seq(Seq(R))]
           /\ Cut(rows)[0] = <<>>
           /\ \A n \in 1 .. Len(rows) : Cut(rows)[n] = CutStep(Cut(rows)[n - 1], rows[n])
<1> DEFINE step == [x \in Seq(Seq(R)) \X R |-> CutStep(x[1], x[2])]
           k == Cut(rows)
           N == Len(rows)
           body(h, n) == IF n = 0 THEN <<>> ELSE CutStep(h[n - 1], rows[n])
<1>1. step \in [Seq(Seq(R)) \X R -> Seq(Seq(R))]
  BY CutStepType
<1>2. \A s \in Seq(Seq(R)), r \in R : step[<<s, r>>] = CutStep(s, r)
  OBVIOUS
<1> HIDE DEF step
<1>3. PICK f \in [0 .. N -> Seq(Seq(R))] :
         /\ f[0] = <<>>
         /\ \A n \in 1 .. N : f[n] = step[<<f[n - 1], rows[n]>>]
  <2>1. <<>> \in Seq(Seq(R))
    OBVIOUS
  <2>2. \E f \in [0 .. Len(rows) -> Seq(Seq(R))] :
           Iterates(f, step, <<>>, rows, Len(rows))
    BY <1>1, <2>1, IterationExists
  <2> QED BY <2>2 DEF Iterates
<1>4. \A n \in 1 .. N : f[n] = CutStep(f[n - 1], rows[n])
  <2> SUFFICES ASSUME NEW n \in 1 .. N PROVE f[n] = CutStep(f[n - 1], rows[n])
    OBVIOUS
  <2>1. f[n - 1] \in Seq(Seq(R)) /\ rows[n] \in R
    OBVIOUS
  <2> QED BY <1>2, <1>3, <2>1
<1>5. f = [n \in 0 .. N |-> body(f, n)]
  <2>1. \A n \in 0 .. N : f[n] = body(f, n)
    <3> SUFFICES ASSUME NEW n \in 0 .. N PROVE f[n] = body(f, n)
      OBVIOUS
    <3>1. CASE n = 0
      BY <1>3, <3>1
    <3>2. CASE n # 0
      <4>1. n \in 1 .. N
        BY <3>2
      <4> QED BY <1>4, <3>2, <4>1
    <3> QED BY <3>1, <3>2
  <2> HIDE DEF body
  <2> QED BY <1>3, <2>1
<1>6. k = [n \in 0 .. N |-> body(k, n)]
  BY <1>5 DEF Cut
<1> HIDE DEF k
<1>7. k[0] = <<>> /\ \A n \in 1 .. N : k[n] = CutStep(k[n - 1], rows[n])
  <2>1. 0 \in 0 .. N /\ \A n \in 1 .. N : n \in 0 .. N /\ n # 0
    OBVIOUS
  <2>2. \A n \in 0 .. N : k[n] = body(k, n)
    <3> HIDE DEF body
    <3> QED BY <1>6
  <2> QED BY <2>1, <2>2
<1>8. \A n \in 0 .. N : k[n] = f[n]
  <2>1. StepAlike(k, f, N)
    BY <1>3, <1>4, <1>7 DEF StepAlike
  <2>2. N \in Nat
    OBVIOUS
  <2> QED BY <2>1, <2>2, AgreeUpTo
<1>9. k \in [0 .. N -> Seq(Seq(R))]
  <2>1. k = [n \in 0 .. N |-> k[n]]
    <3> HIDE DEF body
    <3> QED BY <1>6
  <2> QED BY <1>8, <2>1
<1>10. SplitBlocks(rows) = k[N]
  BY DEF SplitBlocks, Cut, CutStep, k
<1> QED BY <1>7, <1>9, <1>10 DEF k

LEMMA BlocksOfNone == SplitBlocks(<<>>) = <<>>
<1>1. <<>> \in Seq({}) /\ Len(<<>>) = 0
  OBVIOUS
<1> QED BY <1>1, CutIs

LEMMA BlocksAre ==
    ASSUME NEW R, NEW s \in Seq(R)
    PROVE  SplitBlocks(s) \in Seq(Seq(R)) /\ Len(SplitBlocks(s)) \in Nat
<1>1. Cut(s)[Len(s)] \in Seq(Seq(R))
  BY CutIs
<1> QED BY <1>1, CutIs

LEMMA BlocksOfMore ==
    ASSUME NEW R, NEW s \in Seq(R), NEW r \in R
    PROVE  /\ SplitBlocks(s) \in Seq(Seq(R))
           /\ SplitBlocks(Append(s, r)) = CutStep(SplitBlocks(s), r)
<1> DEFINE t == Append(s, r)
<1>1. t \in Seq(R) /\ Len(t) = Len(s) + 1 /\ t[Len(s) + 1] = r
  OBVIOUS
<1>2. \A n \in 1 .. Len(s) : t[n] = s[n]
  OBVIOUS
<1> HIDE DEF t
<1> DEFINE f == Cut(s)  g == Cut(t)
<1>3. /\ SplitBlocks(s) = f[Len(s)] /\ f \in [0 .. Len(s) -> Seq(Seq(R))] /\ f[0] = <<>>
      /\ \A n \in 1 .. Len(s) : f[n] = CutStep(f[n - 1], s[n])
  BY CutIs
<1>4. /\ SplitBlocks(t) = g[Len(s) + 1] /\ g[0] = <<>>
      /\ \A n \in 1 .. Len(s) + 1 : g[n] = CutStep(g[n - 1], t[n])
  BY <1>1, CutIs
<1> HIDE DEF f, g
<1>5. \A n \in 0 .. Len(s) : f[n] = g[n]
  <2>1. Len(s) \in Nat
    OBVIOUS
  <2>2. ASSUME NEW n \in 1 .. Len(s), f[n - 1] = g[n - 1] PROVE f[n] = g[n]
    <3>1. n \in 1 .. Len(s) + 1 /\ t[n] = s[n]
      BY <1>2, <2>1
    <3>2. g[n] = CutStep(g[n - 1], s[n])
      BY <1>4, <3>1
    <3>3. f[n] = CutStep(f[n - 1], s[n])
      BY <1>3
    <3> QED BY <2>2, <3>2, <3>3
  <2>3. f[0] = g[0]
    BY <1>3, <1>4
  <2>4. StepAlike(f, g, Len(s))
    BY <2>2, <2>3 DEF StepAlike
  <2> QED BY <2>1, <2>4, AgreeUpTo
<1>6. g[Len(s) + 1] = CutStep(g[Len(s)], r)
  BY <1>1, <1>4
<1> QED BY <1>3, <1>4, <1>5, <1>6 DEF t
-----------------------------------------------------------------------------
(* Increasing enumerations, and the sequences that list rows of a table.   *)

\* f numbers the elements of S from 1 to n in increasing order.
Enumerates(f, n, S) ==
    /\ f \in [1 .. n -> S]
    /\ \A j, k \in 1 .. n : j < k => f[j] < f[k]
    /\ \A i \in S : \E j \in 1 .. n : f[j] = i

\* b holds the rows at the positions S, in the order of the table.
Lists(b, rows, S) ==
    \E pos : Enumerates(pos, Len(b), S) /\ \A j \in 1 .. Len(b) : b[j] = rows[pos[j]]

LEMMA FirstIsLeast ==
    ASSUME NEW T, T \subseteq Nat, T # {}
    PROVE  First(T) \in T /\ \A j \in T : First(T) <= j
<1>1. \E i \in T : \A j \in T : i <= j
  BY LeastElement
<1> QED BY <1>1 DEF First

LEMMA FirstIs ==
    ASSUME NEW T, T \subseteq Nat, NEW i \in T, \A j \in T : i <= j
    PROVE  First(T) = i
<1>1. First(T) \in T /\ First(T) <= i
  BY FirstIsLeast
<1>2. i <= First(T) /\ i \in Nat /\ First(T) \in Nat
  BY <1>1
<1> QED BY <1>1, <1>2

LEMMA FirstOfOne == \A i \in Nat : First({i}) = i
<1> SUFFICES ASSUME NEW i \in Nat PROVE First({i}) = i
  OBVIOUS
<1>1. {i} \subseteq Nat /\ i \in {i} /\ \A j \in {i} : i <= j
  OBVIOUS
<1> QED BY <1>1, FirstIs

LEMMA EnumerateNone == Enumerates(<<>>, 0, {})
  BY DEF Enumerates

LEMMA EnumerateMore ==
    ASSUME NEW n \in Nat, NEW S, S \subseteq Nat, NEW f, Enumerates(f, n, S),
           NEW i \in Nat, \A j \in S : j < i,
           NEW g, g = [k \in 1 .. n + 1 |-> IF k = n + 1 THEN i ELSE f[k]]
    PROVE  Enumerates(g, n + 1, S \union {i})
<1>1. f \in [1 .. n -> S]
  BY DEF Enumerates
<1>2. /\ n + 1 \in 1 .. n + 1 /\ g[n + 1] = i
      /\ \A k \in 1 .. n : k \in 1 .. n + 1 /\ g[k] = f[k] /\ f[k] \in S
  BY <1>1
<1>3. \A k \in 1 .. n + 1 : k = n + 1 \/ k \in 1 .. n
  OBVIOUS
<1>4. g \in [1 .. n + 1 -> S \union {i}]
  BY <1>1
<1>5. \A j, k \in 1 .. n + 1 : j < k => g[j] < g[k]
  <2> SUFFICES ASSUME NEW j \in 1 .. n + 1, NEW k \in 1 .. n + 1, j < k
               PROVE  g[j] < g[k]
    OBVIOUS
  <2>1. j \in 1 .. n
    OBVIOUS
  <2>2. CASE k = n + 1
    BY <1>2, <2>1, <2>2
  <2>3. CASE k \in 1 .. n
    BY <1>2, <2>1, <2>3 DEF Enumerates
  <2> QED BY <1>3, <2>2, <2>3
<1>6. \A h \in S \union {i} : \E j \in 1 .. n + 1 : g[j] = h
  <2>1. \A h \in S : \E j \in 1 .. n : f[j] = h
    BY DEF Enumerates
  <2> QED BY <1>2, <2>1
<1> QED BY <1>4, <1>5, <1>6 DEF Enumerates

Below(S, i) == {h \in S : h < i}

\* The number of an element is the number of those up to it.
LEMMA NumberOf ==
    ASSUME NEW n \in Nat, NEW S, S \subseteq Nat, NEW f, Enumerates(f, n, S),
           NEW k \in 1 .. n
    PROVE  Cardinality(Below(S, f[k])) = k - 1
<1> DEFINE T == {h \in S : h < f[k]}
           g == [j \in 1 .. k - 1 |-> f[j]]
<1>1. f \in [1 .. n -> S] /\ \A j \in 1 .. n : f[j] \in Nat
  BY DEF Enumerates
<1>2. \A j \in 1 .. n : f[j] < f[k] <=> j < k
  BY <1>1 DEF Enumerates
<1>3. g \in [1 .. k - 1 -> T]
  BY <1>1, <1>2
<1>4. \A i, j \in 1 .. k - 1 : i # j => g[i] # g[j]
  <2> SUFFICES ASSUME NEW i \in 1 .. k - 1, NEW j \in 1 .. k - 1, i # j
               PROVE  g[i] # g[j]
    OBVIOUS
  <2>1. i \in 1 .. n /\ j \in 1 .. n /\ (i < j \/ j < i) /\ f[i] \in Nat /\ f[j] \in Nat
    BY <1>1
  <2>2. f[i] # f[j]
    BY <2>1 DEF Enumerates
  <2> QED BY <2>2
<1>5. \A h \in T : \E j \in 1 .. k - 1 : g[j] = h
  <2> SUFFICES ASSUME NEW h \in S, h < f[k] PROVE \E j \in 1 .. k - 1 : g[j] = h
    OBVIOUS
  <2>1. PICK j \in 1 .. n : f[j] = h
    BY DEF Enumerates
  <2>2. j \in 1 .. k - 1
    BY <1>2, <2>1
  <2> QED BY <2>1, <2>2
<1>6. ExistsBijection(1 .. k - 1, T)
  <2> HIDE DEF g, T
  <2>1. g \in Bijection(1 .. k - 1, T)
    BY <1>3, <1>4, <1>5 DEF Bijection, Injection, Surjection, IsInjective
  <2> QED BY <2>1 DEF ExistsBijection
<1>7. IsFiniteSet(1 .. k - 1) /\ Cardinality(1 .. k - 1) = k - 1
  <2> DEFINE m == k - 1
  <2>1. m \in Int /\ m >= 0
    OBVIOUS
  <2> HIDE DEF m
  <2>2. IsFiniteSet(1 .. m) /\ Cardinality(1 .. m) = IF 1 > m THEN 0 ELSE m - 1 + 1
    BY <2>1, FS_Interval
  <2>3. Cardinality(1 .. m) = m
    BY <2>1, <2>2
  <2> QED BY <2>2, <2>3 DEF m
<1> HIDE DEF T
<1>8. Cardinality(T) = Cardinality(1 .. k - 1)
  BY <1>6, <1>7, FS_Bijection
<1> QED BY <1>7, <1>8 DEF T, Below

LEMMA ListNone == ASSUME NEW rows PROVE Lists(<<>>, rows, {})
<1>1. Enumerates(<<>>, Len(<<>>), {})
  BY EnumerateNone
<1>2. \A j \in 1 .. Len(<<>>) : FALSE
  OBVIOUS
<1> QED BY <1>1, <1>2 DEF Lists

LEMMA ListMore ==
    ASSUME NEW R, NEW b \in Seq(R), NEW rows, NEW S, S \subseteq Nat,
           Lists(b, rows, S), NEW i \in Nat, \A j \in S : j < i, rows[i] \in R
    PROVE  Lists(Append(b, rows[i]), rows, S \union {i})
<1>1. PICK pos : Enumerates(pos, Len(b), S) /\ \A j \in 1 .. Len(b) : b[j] = rows[pos[j]]
  BY DEF Lists
<1> DEFINE n == Len(b)
           c == Append(b, rows[i])
           g == [k \in 1 .. n + 1 |-> IF k = n + 1 THEN i ELSE pos[k]]
<1>2. n \in Nat /\ Len(c) = n + 1 /\ c[n + 1] = rows[i] /\ \A j \in 1 .. n : c[j] = b[j]
  OBVIOUS
<1>3. Enumerates(g, n + 1, S \union {i})
  <2> HIDE DEF n
  <2> QED BY <1>1, <1>2, EnumerateMore DEF n
<1>4. \A j \in 1 .. n + 1 : c[j] = rows[g[j]]
  <2> SUFFICES ASSUME NEW j \in 1 .. n + 1 PROVE c[j] = rows[g[j]]
    OBVIOUS
  <2>1. CASE j = n + 1
    BY <1>2, <2>1
  <2>2. CASE j # n + 1
    <3>1. j \in 1 .. n /\ g[j] = pos[j]
      BY <1>2, <2>2
    <3> QED BY <1>1, <1>2, <3>1
  <2> QED BY <2>1, <2>2
<1> HIDE DEF c, g
<1> QED BY <1>2, <1>3, <1>4 DEF Lists, c

LEMMA ListOne ==
    ASSUME NEW R, NEW rows, NEW i \in Nat, rows[i] \in R
    PROVE  Lists(<<rows[i]>>, rows, {i})
<1>1. Lists(<<>>, rows, {})
  BY ListNone
<1>2. <<>> \in Seq(R) /\ Append(<<>>, rows[i]) = <<rows[i]>> /\ {} \union {i} = {i}
  OBVIOUS
<1>3. Lists(Append(<<>>, rows[i]), rows, {} \union {i})
  BY <1>1, <1>2, ListMore
<1> QED BY <1>2, <1>3

\* Rows outside S do not matter.
LEMMA ListSame ==
    ASSUME NEW b, NEW s, NEW t, NEW S, Lists(b, s, S), \A i \in S : t[i] = s[i]
    PROVE  Lists(b, t, S)
<1>1. PICK pos : Enumerates(pos, Len(b), S) /\ \A j \in 1 .. Len(b) : b[j] = s[pos[j]]
  BY DEF Lists
<1>2. \A j \in 1 .. Len(b) : pos[j] \in S
  BY <1>1 DEF Enumerates
<1> QED BY <1>1, <1>2 DEF Lists

LabelledAt(b, rows, label, at) ==
    /\ Positions(b, label) = {} <=> at = {}
    /\ at # {} => b[First(Positions(b, label))] = rows[First(at)]

\* The first row of a label in a list is the one of the first such position.
LEMMA ListFirst ==
    ASSUME NEW b \in Seq(Rows), NEW rows, NEW S, S \subseteq Nat, Lists(b, rows, S),
           NEW label, NEW at, at = {i \in S : rows[i].label = label}
    PROVE  LabelledAt(b, rows, label, at)
<1> DEFINE P == Positions(b, label)
<1>1. PICK pos : Enumerates(pos, Len(b), S) /\ \A j \in 1 .. Len(b) : b[j] = rows[pos[j]]
  BY DEF Lists
<1>2. P \subseteq 1 .. Len(b) /\ \A j \in 1 .. Len(b) : j \in P <=> b[j].label = label
  BY DEF Positions
<1>3. \A j \in 1 .. Len(b) : pos[j] \in S
  BY <1>1 DEF Enumerates
<1>4. \A j \in 1 .. Len(b) : j \in P <=> pos[j] \in at
  BY <1>1, <1>2, <1>3
<1>5. \A i \in at : \E j \in P : pos[j] = i
  BY <1>1, <1>4 DEF Enumerates
<1>6. P = {} <=> at = {}
  BY <1>2, <1>4, <1>5
<1>7. ASSUME at # {} PROVE b[First(P)] = rows[First(at)]
  <2> DEFINE f == First(P)
  <2>1. P \subseteq Nat /\ P # {}
    BY <1>2, <1>6, <1>7
  <2> HIDE DEF P
  <2>2. f \in P /\ \A j \in P : f <= j
    BY <2>1, FirstIsLeast
  <2> HIDE DEF f
  <2>3. f \in 1 .. Len(b) /\ pos[f] \in at
    BY <1>2, <1>4, <2>2
  <2>4. \A i \in at : pos[f] <= i
    <3> SUFFICES ASSUME NEW i \in at PROVE pos[f] <= i
      OBVIOUS
    <3>1. PICK j \in P : pos[j] = i
      BY <1>5
    <3>2. j \in 1 .. Len(b) /\ (f = j \/ f < j)
      BY <1>2, <2>2, <2>3
    <3>3. pos[f] \in Nat /\ pos[j] \in Nat
      BY <1>3, <2>3, <3>2
    <3>4. f < j => pos[f] < pos[j]
      BY <1>1, <2>3, <3>2 DEF Enumerates
    <3> QED BY <3>1, <3>2, <3>3, <3>4
  <2>5. First(at) = pos[f]
    <3>1. at \subseteq Nat
      OBVIOUS
    <3> QED BY <2>3, <2>4, <3>1, FirstIs
  <2> QED BY <1>1, <2>3, <2>5 DEF f
<1> QED BY <1>6, <1>7 DEF LabelledAt

-----------------------------------------------------------------------------
(* Pairs and blocks list the rows a reader would give them.                *)

FilledIn(s) == {i \in DOMAIN s : Filled(s, i)}

\* The filled rows of the transaction that begins with row h.
Own(s, h) == {i \in FilledIn(s) : h <= i /\ \A e \in Accounts(s) : h < e => i < e}

PairShape(s) == Pairs(s) \in Seq(Rows) /\ Lists(Pairs(s), s, FilledIn(s))

BlockShape(s) ==
    \E at : /\ Enumerates(at, Len(SplitBlocks(Pairs(s))), Accounts(s))
            /\ \A k \in 1 .. Len(SplitBlocks(Pairs(s))) :
                  Lists(SplitBlocks(Pairs(s))[k], s, Own(s, at[k]))

LEMMA RowSets ==
    ASSUME NEW s \in Seq(Rows)
    PROVE  /\ Len(s) \in Nat /\ FilledIn(s) \subseteq 1 .. Len(s)
           /\ Accounts(s) \subseteq FilledIn(s)
           /\ \A h \in Accounts(s) : Own(s, h) \subseteq FilledIn(s)
  BY DEF FilledIn, Accounts, Own

\* t is s with row r added at position n, and what that changes.
RowAdded(s, r, t, n) ==
    /\ t \in Seq(Rows) /\ Len(t) = n /\ t[n] = r /\ n \in Nat
    /\ \A i \in 1 .. Len(s) : t[i] = s[i]
    /\ \A i \in FilledIn(s) : i < n
    /\ FilledIn(t) = IF r.value = Empty THEN FilledIn(s) ELSE FilledIn(s) \union {n}
    /\ Accounts(t) = IF r.value # Empty /\ r.label = "account"
                     THEN Accounts(s) \union {n} ELSE Accounts(s)

LEMMA OneMoreRow ==
    ASSUME NEW s \in Seq(Rows), NEW r \in Rows,
           NEW t, t = Append(s, r), NEW n, n = Len(s) + 1
    PROVE  RowAdded(s, r, t, n)
<1>1. /\ t \in Seq(Rows) /\ Len(t) = n /\ t[n] = r /\ n \in Nat
      /\ \A i \in 1 .. Len(s) : t[i] = s[i]
      /\ DOMAIN t = DOMAIN s \union {n} /\ DOMAIN s = 1 .. Len(s)
  OBVIOUS
<1>2. \A i \in FilledIn(s) : i < n
  BY RowSets
<1>3. FilledIn(t) = IF r.value = Empty THEN FilledIn(s) ELSE FilledIn(s) \union {n}
  BY <1>1 DEF FilledIn, Filled
<1>4. Accounts(t) = IF r.value # Empty /\ r.label = "account"
                    THEN Accounts(s) \union {n} ELSE Accounts(s)
  BY <1>1 DEF Accounts, Filled
<1> QED BY <1>1, <1>2, <1>3, <1>4 DEF RowAdded

LEMMA PairShapeMore ==
    ASSUME NEW s \in Seq(Rows), NEW r \in Rows, PairShape(s),
           NEW t, t = Append(s, r)
    PROVE  PairShape(t)
<1>0. PICK n : n = Len(s) + 1
  OBVIOUS
<1>1. /\ t[n] = r /\ n \in Nat
      /\ \A i \in 1 .. Len(s) : t[i] = s[i]
      /\ \A i \in FilledIn(s) : i < n
      /\ FilledIn(t) = IF r.value = Empty THEN FilledIn(s) ELSE FilledIn(s) \union {n}
  <2>1. RowAdded(s, r, t, n)
    BY <1>0, OneMoreRow
  <2> QED BY <2>1 DEF RowAdded
<1>2. /\ Pairs(s) \in Seq(Rows)
      /\ Pairs(t) = IF r.value = Empty THEN Pairs(s) ELSE Append(Pairs(s), r)
  BY PairsOfMore
<1>3. Lists(Pairs(s), t, FilledIn(s)) /\ FilledIn(s) \subseteq 1 .. Len(s)
  BY <1>1, RowSets, ListSame DEF PairShape
<1>4. CASE r.value = Empty
  BY <1>1, <1>2, <1>3, <1>4 DEF PairShape
<1>5. CASE r.value # Empty
  <2>1. Lists(Append(Pairs(s), t[n]), t, FilledIn(s) \union {n})
    <3>1. /\ FilledIn(s) \subseteq Nat /\ \A i \in FilledIn(s) : i < n
          /\ n \in Nat /\ t[n] \in Rows
      BY <1>1, <1>3
    <3>2. Pairs(s) \in Seq(Rows)
      BY <1>2
    <3> QED BY <1>3, <3>1, <3>2, ListMore
  <2>2. Append(Pairs(s), r) \in Seq(Rows)
    BY <1>2
  <2> QED BY <1>1, <1>2, <1>5, <2>1, <2>2 DEF PairShape
<1> QED BY <1>4, <1>5

OwnAdded(s, r, t, n) ==
    /\ \A h \in Accounts(s) :
          Own(t, h) = IF /\ r.value # Empty /\ r.label # "account"
                         /\ \A e \in Accounts(s) : e <= h
                      THEN Own(s, h) \union {n} ELSE Own(s, h)
    /\ r.value # Empty /\ r.label = "account" => Own(t, n) = {n}

LEMMA OwnMore ==
    ASSUME NEW s \in Seq(Rows), NEW r \in Rows,
           NEW t, t = Append(s, r), NEW n, n = Len(s) + 1
    PROVE  OwnAdded(s, r, t, n)
<1>1. /\ n \in Nat
      /\ \A i \in FilledIn(s) : i < n
      /\ FilledIn(t) = IF r.value = Empty THEN FilledIn(s) ELSE FilledIn(s) \union {n}
      /\ Accounts(t) = IF r.value # Empty /\ r.label = "account"
                       THEN Accounts(s) \union {n} ELSE Accounts(s)
  <2>1. RowAdded(s, r, t, n)
    BY OneMoreRow
  <2> QED BY <2>1 DEF RowAdded
<1>2. FilledIn(s) \subseteq Nat /\ Accounts(s) \subseteq FilledIn(s)
  BY RowSets
<1>3. ASSUME NEW h \in Accounts(s)
      PROVE  Own(t, h) = IF /\ r.value # Empty /\ r.label # "account"
                            /\ \A e \in Accounts(s) : e <= h
                         THEN Own(s, h) \union {n} ELSE Own(s, h)
  <2>1. h \in Nat /\ h < n /\ \A i \in FilledIn(s) : ~(n < i) /\ i # n
    BY <1>1, <1>2
  <2>2. CASE r.value = Empty
    BY <1>1, <2>2 DEF Own
  <2>3. CASE r.value # Empty /\ r.label = "account"
    <3>1. Own(t, h) \subseteq Own(s, h)
      BY <1>1, <2>1, <2>3 DEF Own
    <3>2. Own(s, h) \subseteq Own(t, h)
      BY <1>1, <2>1, <2>3 DEF Own
    <3> QED BY <2>3, <3>1, <3>2
  <2>4. CASE r.value # Empty /\ r.label # "account"
    <3>1. Own(s, h) \subseteq Own(t, h) /\ Own(t, h) \subseteq Own(s, h) \union {n}
      BY <1>1, <2>4 DEF Own
    <3>2. n \in Own(t, h) <=> \A e \in Accounts(s) : h < e => n < e
      BY <1>1, <2>1, <2>4 DEF Own
    <3>3. n \in Own(t, h) <=> \A e \in Accounts(s) : e <= h
      <4>1. \A e \in Accounts(s) : e \in Nat /\ e < n
        BY <1>1, <1>2
      <4>2. \A e \in Accounts(s) : (h < e => n < e) <=> e <= h
        BY <1>1, <2>1, <4>1
      <4> QED BY <3>2, <4>2
    <3>4. n \notin Own(s, h)
      BY <2>1 DEF Own
    <3>5. CASE \A e \in Accounts(s) : e <= h
      <4>1. Own(t, h) = Own(s, h) \union {n}
        BY <3>1, <3>3, <3>5
      <4> QED BY <2>4, <3>5, <4>1
    <3>6. CASE ~ \A e \in Accounts(s) : e <= h
      <4>1. Own(t, h) = Own(s, h)
        BY <3>1, <3>3, <3>6
      <4> QED BY <3>6, <4>1
    <3> QED BY <3>5, <3>6
  <2> QED BY <2>2, <2>3, <2>4
<1>4. ASSUME r.value # Empty, r.label = "account" PROVE Own(t, n) = {n}
  <2>1. \A i \in FilledIn(s) : ~(n <= i)
    BY <1>1, <1>2
  <2>2. \A e \in Accounts(t) : ~(n < e)
    BY <1>1, <1>2, <1>4
  <2> QED BY <1>1, <1>4, <2>1, <2>2 DEF Own
<1> QED BY <1>3, <1>4 DEF OwnAdded

LEMMA BlockShapeMore ==
    ASSUME NEW s \in Seq(Rows), NEW r \in Rows, PairShape(s), BlockShape(s),
           NEW t, t = Append(s, r)
    PROVE  BlockShape(t)
<1>1. PICK n : n = Len(s) + 1
  OBVIOUS
<1>2. PICK B : B = SplitBlocks(Pairs(s))
  OBVIOUS
<1>3. PICK C : C = SplitBlocks(Pairs(t))
  OBVIOUS
<1>4. PICK m : m = Len(B)
  OBVIOUS
<1>5. B \in Seq(Seq(Rows)) /\ m \in Nat
  BY <1>2, <1>4, BlocksOfMore DEF PairShape
<1>6. PICK at : /\ Enumerates(at, m, Accounts(s))
                /\ \A k \in 1 .. m : Lists(B[k], s, Own(s, at[k]))
  BY <1>2, <1>4 DEF BlockShape
<1>7. /\ t[n] = r /\ n \in Nat
      /\ \A i \in 1 .. Len(s) : t[i] = s[i]
      /\ \A i \in FilledIn(s) : i < n
      /\ FilledIn(t) = IF r.value = Empty THEN FilledIn(s) ELSE FilledIn(s) \union {n}
      /\ Accounts(t) = IF r.value # Empty /\ r.label = "account"
                       THEN Accounts(s) \union {n} ELSE Accounts(s)
  <2>1. RowAdded(s, r, t, n)
    BY <1>1, OneMoreRow
  <2> QED BY <2>1 DEF RowAdded
<1>8. /\ \A h \in Accounts(s) :
            Own(t, h) = IF /\ r.value # Empty /\ r.label # "account"
                           /\ \A e \in Accounts(s) : e <= h
                        THEN Own(s, h) \union {n} ELSE Own(s, h)
      /\ r.value # Empty /\ r.label = "account" => Own(t, n) = {n}
  <2>1. OwnAdded(s, r, t, n)
    BY <1>1, OwnMore
  <2> QED BY <2>1 DEF OwnAdded
<1>9. /\ \A k \in 1 .. m : at[k] \in Accounts(s)
      /\ Accounts(s) \subseteq Nat /\ Accounts(s) \subseteq 1 .. Len(s)
      /\ \A h \in Accounts(s) : h < n /\ Own(s, h) \subseteq 1 .. Len(s)
      /\ \A h \in Accounts(s) : Own(s, h) \subseteq FilledIn(s)
  <2>1. at \in [1 .. m -> Accounts(s)]
    BY <1>6 DEF Enumerates
  <2> QED BY <1>7, <2>1, RowSets
<1>10. \A k \in 1 .. m : Lists(B[k], t, Own(s, at[k]))
  BY <1>6, <1>7, <1>9, ListSame
<1>11. SUFFICES \E f : /\ Enumerates(f, Len(C), Accounts(t))
                       /\ \A k \in 1 .. Len(C) : Lists(C[k], t, Own(t, f[k]))
  BY <1>3 DEF BlockShape
<1>12. Pairs(t) = IF r.value = Empty THEN Pairs(s) ELSE Append(Pairs(s), r)
  BY PairsOfMore
<1>13. r.value # Empty => C = CutStep(B, r)
  BY <1>2, <1>3, <1>12, BlocksOfMore DEF PairShape
<1>14. CASE r.value = Empty
  <2>1. C = B /\ Accounts(t) = Accounts(s) /\ \A h \in Accounts(s) : Own(t, h) = Own(s, h)
    BY <1>2, <1>3, <1>7, <1>8, <1>12, <1>14
  <2> QED BY <1>4, <1>6, <1>9, <1>10, <2>1
<1>15. CASE r.value # Empty /\ r.label = "account"
  <2>1. C = Append(B, <<r>>)
    BY <1>13, <1>15 DEF CutStep
  <2>2. Len(C) = m + 1 /\ C[m + 1] = <<r>> /\ \A k \in 1 .. m : C[k] = B[k]
    <3>1. <<r>> \in Seq(Rows)
      OBVIOUS
    <3> QED BY <1>4, <1>5, <2>1, <3>1
  <2>3. PICK g : g = [k \in 1 .. m + 1 |-> IF k = m + 1 THEN n ELSE at[k]]
    OBVIOUS
  <2>4. Enumerates(g, m + 1, Accounts(s) \union {n})
    BY <1>5, <1>6, <1>7, <1>9, <2>3, EnumerateMore
  <2>5. ASSUME NEW k \in 1 .. m + 1 PROVE Lists(C[k], t, Own(t, g[k]))
    <3>1. CASE k = m + 1
      <4>1. g[k] = n /\ C[k] = <<t[n]>> /\ Own(t, n) = {n}
        BY <1>7, <1>8, <1>15, <2>2, <2>3, <3>1
      <4>2. Lists(<<t[n]>>, t, {n})
        <5>1. n \in Nat /\ t[n] \in Rows
          BY <1>7
        <5> QED BY <5>1, ListOne
      <4> QED BY <4>1, <4>2
    <3>2. CASE k # m + 1
      <4>1. k \in 1 .. m /\ g[k] = at[k]
        BY <1>5, <2>3, <3>2
      <4>2. Own(t, at[k]) = Own(s, at[k])
        BY <1>8, <1>9, <1>15, <4>1
      <4> QED BY <1>10, <2>2, <4>1, <4>2
    <3> QED BY <3>1, <3>2
  <2> QED BY <1>7, <1>15, <2>2, <2>4, <2>5
<1>16. CASE r.value # Empty /\ r.label # "account" /\ m = 0
  <2>1. B = <<>> /\ C = <<>>
    <3>1. B = <<>>
      <4>1. Len(B) = 0
        BY <1>4, <1>16
      <4> QED BY <1>5, <4>1
    <3>2. CutStep(B, r) = <<>>
      BY <1>16, <3>1 DEF CutStep
    <3> QED BY <1>13, <1>16, <3>1, <3>2
  <2>2. Accounts(t) = Accounts(s) /\ Len(C) = m /\ \A k \in 1 .. Len(C) : FALSE
    BY <1>4, <1>7, <1>16, <2>1
  <2> QED BY <1>6, <2>2
<1>17. CASE r.value # Empty /\ r.label # "account" /\ m # 0
  <2>1. C = [B EXCEPT ![m] = Append(B[m], r)]
    <3>1. B # <<>>
      BY <1>4, <1>17
    <3>2. CutStep(B, r) = [B EXCEPT ![Len(B)] = Append(B[Len(B)], r)]
      BY <1>17, <3>1 DEF CutStep
    <3> QED BY <1>4, <1>13, <1>17, <3>2
  <2>2. m \in 1 .. m /\ B[m] \in Seq(Rows)
    BY <1>4, <1>5, <1>17
  <2>3. /\ Len(C) = m /\ C[m] = Append(B[m], r)
        /\ \A k \in 1 .. m : k # m => C[k] = B[k]
    BY <1>4, <1>5, <2>1, <2>2
  <2>4. \A e \in Accounts(s) : e <= at[m]
    <3> SUFFICES ASSUME NEW e \in Accounts(s) PROVE e <= at[m]
      OBVIOUS
    <3>1. PICK k \in 1 .. m : at[k] = e
      BY <1>6 DEF Enumerates
    <3>2. k = m \/ k < m
      BY <1>5, <3>1
    <3>3. k < m => at[k] < at[m]
      BY <1>6, <2>2 DEF Enumerates
    <3>4. at[m] \in Nat /\ at[k] \in Nat
      BY <1>9, <2>2
    <3> QED BY <3>1, <3>2, <3>3, <3>4
  <2>5. Own(t, at[m]) = Own(s, at[m]) \union {n}
    BY <1>8, <1>9, <1>17, <2>2, <2>4
  <2>6. ASSUME NEW k \in 1 .. m, k # m PROVE Own(t, at[k]) = Own(s, at[k])
    <3>1. k < m /\ at[k] < at[m]
      <4>1. k < m
        BY <1>5, <2>6
      <4> QED BY <1>6, <2>2, <4>1 DEF Enumerates
    <3>2. ~(at[m] <= at[k]) /\ at[m] \in Accounts(s)
      BY <1>9, <2>2, <3>1
    <3> QED BY <1>8, <1>9, <3>2
  <2>7. ASSUME NEW k \in 1 .. m PROVE Lists(C[k], t, Own(t, at[k]))
    <3>1. CASE k = m
      <4>1. /\ Lists(B[m], t, Own(s, at[m])) /\ Own(s, at[m]) \subseteq Nat
            /\ \A i \in Own(s, at[m]) : i < n
        BY <1>7, <1>9, <1>10, <2>2
      <4>2. Lists(Append(B[m], t[n]), t, Own(s, at[m]) \union {n})
        <5>1. t[n] \in Rows /\ n \in Nat
          BY <1>7
        <5> QED BY <2>2, <4>1, <5>1, ListMore
      <4> QED BY <1>7, <2>3, <2>5, <3>1, <4>2
    <3>2. CASE k # m
      BY <1>10, <2>3, <2>6, <3>2
    <3> QED BY <3>1, <3>2
  <2>8. Accounts(t) = Accounts(s)
    BY <1>7, <1>17
  <2> QED BY <1>6, <2>3, <2>7, <2>8
<1> QED BY <1>14, <1>15, <1>16, <1>17

LEMMA EveryTable ==
    ASSUME NEW s \in Seq(Rows)
    PROVE  PairShape(s) /\ BlockShape(s)
<1> DEFINE Bad(n) == \E t \in Seq(Rows) : Len(t) = n /\ ~(PairShape(t) /\ BlockShape(t))
           N == Len(s)
           T == {n \in 0 .. N : Bad(n)}
<1>1. N \in Nat /\ T \subseteq 0 .. N
  OBVIOUS
<1>2. 0 \notin T
  <2> SUFFICES ASSUME NEW t \in Seq(Rows), Len(t) = 0
               PROVE  PairShape(t) /\ BlockShape(t)
    OBVIOUS
  <2>1. t = <<>>
    OBVIOUS
  <2>2. FilledIn(t) = {} /\ Accounts(t) = {}
    BY <2>1 DEF FilledIn, Accounts
  <2>3. Pairs(t) = <<>> /\ SplitBlocks(Pairs(t)) = <<>>
    BY <2>1, PairsOfNone, BlocksOfNone
  <2>4. PairShape(t)
    <3>1. <<>> \in Seq(Rows)
      OBVIOUS
    <3> QED BY <2>2, <2>3, <3>1, ListNone DEF PairShape
  <2>5. BlockShape(t)
    <3>1. Enumerates(<<>>, Len(<<>>), {}) /\ \A k \in 1 .. Len(<<>>) : FALSE
      BY EnumerateNone
    <3> QED BY <2>2, <2>3, <3>1 DEF BlockShape
  <2> QED BY <2>4, <2>5
<1>3. ASSUME NEW n \in 1 .. N, n \in T PROVE n - 1 \in T
  <2>1. PICK t \in Seq(Rows) : Len(t) = n /\ ~(PairShape(t) /\ BlockShape(t))
    BY <1>3
  <2>2. t # <<>>
    BY <2>1
  <2>4. \E f \in Seq(Rows), q \in Rows : t = Append(f, q) /\ Len(f) = Len(t) - 1
    BY <2>2, FrontAndLast
  <2>5. PICK f \in Seq(Rows) : (\E q \in Rows : t = Append(f, q)) /\ Len(f) = n - 1
    BY <2>1, <2>4
  <2>6. PICK q \in Rows : t = Append(f, q)
    BY <2>5
  <2>7. ~(PairShape(f) /\ BlockShape(f))
    BY <2>1, <2>6, PairShapeMore, BlockShapeMore
  <2> QED BY <2>5, <2>7
<1>4. T = {}
  <2> HIDE DEF T, N
  <2> QED BY <1>1, <1>2, <1>3, NothingFails
<1>5. N \notin T /\ N \in 0 .. N
  BY <1>1, <1>4
<1> QED BY <1>5

-----------------------------------------------------------------------------
(* What the parser reads off a pair list or a block, and what a reader of  *)
(* the table reads off its rows.                                           *)

LEMMA CellOfList ==
    ASSUME NEW b \in Seq(Rows), NEW s \in Seq(Rows), NEW S, S \subseteq DOMAIN s,
           NEW F, F = {i \in S : Filled(s, i)}, Lists(b, s, F), NEW label
    PROVE  /\ Positions(b, label) # {} <=> Cell(s, S, label) # Missing
           /\ Positions(b, label) # {} =>
                 b[First(Positions(b, label))].value = Cell(s, S, label)
<1> PICK at : at = {i \in F : s[i].label = label}
  OBVIOUS
<1> DEFINE cells == {i \in S : Filled(s, i) /\ s[i].label = label}
<1>1. F \subseteq Nat /\ at = cells /\ at \subseteq DOMAIN s
  OBVIOUS
<1>2. /\ Positions(b, label) = {} <=> at = {}
      /\ at # {} => b[First(Positions(b, label))] = s[First(at)]
  <2>1. LabelledAt(b, s, label, at)
    BY <1>1, ListFirst
  <2> QED BY <2>1 DEF LabelledAt
<1>3. Cell(s, S, label) = IF cells = {} THEN Missing ELSE s[First(cells)].value
  BY DEF Cell
<1> HIDE DEF cells
<1>4. at # {} => s[First(at)].value # Missing
  <2> SUFFICES ASSUME at # {} PROVE s[First(at)].value # Missing
    OBVIOUS
  <2>1. First(at) \in at /\ at \subseteq Nat
    BY <1>1, FirstIsLeast
  <2>2. s[First(at)] \in Rows
    BY <1>1, <2>1
  <2> QED BY <2>2, MailsAssumption DEF Rows
<1> QED BY <1>1, <1>2, <1>3, <1>4

\* parse_amount of the block that lists the rows of S.
LEMMA AmountOfList ==
    ASSUME NEW b \in Seq(Rows), NEW s \in Seq(Rows), NEW S, S \subseteq DOMAIN s,
           NEW F, F = {i \in S : Filled(s, i)}, Lists(b, s, F)
    PROVE  Amount(b) = IF Readable(Cell(s, S, "amount")) THEN Cell(s, S, "amount")
                       ELSE Missing
<1> DEFINE present == {n \in DOMAIN <<"amount">> : Positions(b, <<"amount">>[n]) # {}}
<1>1. /\ Positions(b, "amount") # {} <=> Cell(s, S, "amount") # Missing
      /\ Positions(b, "amount") # {} =>
            b[First(Positions(b, "amount"))].value = Cell(s, S, "amount")
  BY CellOfList
<1>2. present = IF Positions(b, "amount") = {} THEN {} ELSE {1}
  OBVIOUS
<1>3. First({1}) = 1
  BY FirstOfOne
<1>4. Field(b, <<"amount">>) =
        IF present = {} THEN Missing
        ELSE b[First(Positions(b, <<"amount">>[First(present)]))].value
  BY DEF Field
<1> HIDE DEF present
<1>5. Field(b, <<"amount">>) = Cell(s, S, "amount")
  <2>1. CASE Positions(b, "amount") = {}
    BY <1>1, <1>2, <1>4, <2>1
  <2>2. CASE Positions(b, "amount") # {}
    <3>1. present = {1} /\ <<"amount">>[1] = "amount"
      BY <1>2, <2>2
    <3>2. First(present) = 1 /\ present # {}
      BY <1>3, <3>1
    <3> QED BY <1>1, <1>4, <2>2, <3>1, <3>2
  <2> QED BY <2>1, <2>2
<1> QED BY <1>5 DEF Amount, Readable

LEMMA FieldOfTwo ==
    ASSUME NEW b \in Seq(Rows), NEW s \in Seq(Rows), NEW S, S \subseteq DOMAIN s,
           NEW F, F = {i \in S : Filled(s, i)}, Lists(b, s, F), NEW p, NEW q
    PROVE  Field(b, <<p, q>>) = Preferred(s, S, p, q)
<1> DEFINE labels == <<p, q>>
           present == {n \in DOMAIN labels : Positions(b, labels[n]) # {}}
<1>1. /\ Positions(b, p) # {} <=> Cell(s, S, p) # Missing
      /\ Positions(b, p) # {} => b[First(Positions(b, p))].value = Cell(s, S, p)
  BY CellOfList
<1>2. /\ Positions(b, q) # {} <=> Cell(s, S, q) # Missing
      /\ Positions(b, q) # {} => b[First(Positions(b, q))].value = Cell(s, S, q)
  BY CellOfList
<1>3. Field(b, labels) =
        IF present = {} THEN Missing
        ELSE b[First(Positions(b, labels[First(present)]))].value
  BY DEF Field
<1>4. DOMAIN labels = {1, 2} /\ labels[1] = p /\ labels[2] = q
  OBVIOUS
<1> HIDE DEF labels
<1>5. /\ 1 \in present <=> Positions(b, p) # {}
      /\ 2 \in present <=> Positions(b, q) # {}
      /\ present \subseteq {1, 2}
  BY <1>4
<1> HIDE DEF present
<1>6. CASE Positions(b, p) # {}
  <2>1. First(present) = 1
    <3>1. present \subseteq Nat /\ 1 \in present /\ \A j \in present : 1 <= j
      BY <1>5, <1>6
    <3> QED BY <3>1, FirstIs
  <2>2. present # {}
    BY <1>5, <1>6
  <2>3. Field(b, labels) = Cell(s, S, p)
    BY <1>1, <1>3, <1>4, <1>6, <2>1, <2>2
  <2> QED BY <1>1, <1>6, <2>3 DEF Preferred, labels
<1>7. CASE Positions(b, p) = {} /\ Positions(b, q) # {}
  <2>1. present = {2}
    BY <1>5, <1>7
  <2>2. First(present) = 2
    BY <2>1, FirstOfOne
  <2>3. Field(b, labels) = Cell(s, S, q)
    BY <1>2, <1>3, <1>4, <1>7, <2>1, <2>2
  <2> QED BY <1>1, <1>7, <2>3 DEF Preferred, labels
<1>8. CASE Positions(b, p) = {} /\ Positions(b, q) = {}
  <2>1. present = {}
    BY <1>5, <1>8
  <2> QED BY <1>1, <1>2, <1>3, <1>8, <2>1 DEF Preferred, labels
<1> QED BY <1>6, <1>7, <1>8

-----------------------------------------------------------------------------
(* The parser yields the readings that are complete, one for each head.    *)

Mail == [message : {"m"}, schema : Schemas \union {"none"}, rows : Seq(Rows),
         received : {Missing, 0}]

\* The heads of the transactions that can be read.
Legible(m) == {h \in Heads(m) : Readable(Reading(m, h).amount) /\ Reading(m, h).date # Missing}

Index(m, h) == IF Cardinality(Heads(m)) > 1 THEN Reading(m, h).block ELSE NoIndex

TxnOf(m, h) ==
    [id |-> SourceTxnId(m.message, Index(m, h)), block |-> Reading(m, h).block,
     amount |-> Reading(m, h).amount, date |-> Reading(m, h).date]

LEMMA NumberOfAll ==
    ASSUME NEW n \in Nat, NEW S, S \subseteq Nat, NEW f, Enumerates(f, n, S)
    PROVE  Cardinality(S) = n
<1>1. /\ f \in [1 .. n -> S] /\ \A h \in S : \E j \in 1 .. n : f[j] = h
      /\ \A j, k \in 1 .. n : j < k => f[j] < f[k]
  BY DEF Enumerates
<1>2. \A i, j \in 1 .. n : i # j => f[i] # f[j]
  <2> SUFFICES ASSUME NEW i \in 1 .. n, NEW j \in 1 .. n, i # j
               PROVE  f[i] # f[j]
    OBVIOUS
  <2>1. (i < j \/ j < i) /\ f[i] \in S /\ f[j] \in S
    BY <1>1
  <2>2. (i < j => f[i] < f[j]) /\ (j < i => f[j] < f[i])
    BY <1>1
  <2>3. f[i] \in Nat /\ f[j] \in Nat
    BY <2>1
  <2> QED BY <2>1, <2>2, <2>3
<1>3. ExistsBijection(1 .. n, S)
  <2>1. f \in Bijection(1 .. n, S)
    BY <1>1, <1>2 DEF Bijection, Injection, Surjection, IsInjective
  <2> QED BY <2>1 DEF ExistsBijection
<1>4. IsFiniteSet(1 .. n) /\ Cardinality(1 .. n) = n
  <2>1. n \in Int /\ 1 \in Int
    OBVIOUS
  <2>2. IsFiniteSet(1 .. n) /\ Cardinality(1 .. n) = IF 1 > n THEN 0 ELSE n - 1 + 1
    BY <2>1, FS_Interval
  <2>3. Cardinality(1 .. n) = n
    BY <2>2
  <2> QED BY <2>2, <2>3
<1> QED BY <1>3, <1>4, FS_Bijection

\* How the amount and the date of a block read.
ReadsAs(m, b, S) ==
    /\ Amount(b) = IF Readable(Cell(m.rows, S, "amount")) THEN Cell(m.rows, S, "amount")
                   ELSE Missing
    /\ Posted(b, DateLabels(m.schema), m.received) = DateOf(m, S)

LEMMA ListReadsAs ==
    ASSUME NEW m \in Mail, m.schema \in Schemas, NEW b \in Seq(Rows),
           NEW S, S \subseteq DOMAIN m.rows,
           NEW F, F = {i \in S : Filled(m.rows, i)}, Lists(b, m.rows, F)
    PROVE  ReadsAs(m, b, S)
<1>1. m.rows \in Seq(Rows)
  BY DEF Mail
<1>2. Amount(b) = IF Readable(Cell(m.rows, S, "amount")) THEN Cell(m.rows, S, "amount")
                  ELSE Missing
  BY <1>1, AmountOfList
<1>3. \A p, q : Field(b, <<p, q>>) = Preferred(m.rows, S, p, q)
  BY <1>1, FieldOfTwo
<1>4. Field(b, DateLabels(m.schema)) = DateCell(m, S)
  <2>1. m.schema = "card" => DateLabels(m.schema) = <<"date", "when">>
    BY DEF DateLabels
  <2>2. m.schema \in {"ach", "transfer"} =>
           DateLabels(m.schema) = <<"transaction date", "date">>
    BY DEF DateLabels
  <2>3. m.schema = "used" => DateLabels(m.schema) = <<"on", "date">>
    BY DEF DateLabels
  <2> QED BY <1>3, <2>1, <2>2, <2>3 DEF DateCell, Schemas
<1>5. Posted(b, DateLabels(m.schema), m.received) = DateOf(m, S)
  BY <1>4 DEF Posted, DateOf, Readable
<1> QED BY <1>2, <1>5 DEF ReadsAs

LEMMA ReadingReadsAs ==
    ASSUME NEW m \in Mail, NEW b, NEW h, ReadsAs(m, b, Extent(m, h)), NEW index,
           NEW block, block = Reading(m, h).block, index = Index(m, h)
    PROVE  LET t == Txn(m, b, index, block)
           IN  /\ t.amount # Missing /\ t.date # Missing <=>
                     Readable(Reading(m, h).amount) /\ Reading(m, h).date # Missing
               /\ Readable(Reading(m, h).amount) => t = TxnOf(m, h)
<1> DEFINE S == Extent(m, h)  c == Cell(m.rows, S, "amount")
<1>1. Reading(m, h).amount = c /\ Reading(m, h).date = DateOf(m, S)
  BY DEF Reading
<1>2. /\ Amount(b) = IF Readable(c) THEN c ELSE Missing
      /\ Posted(b, DateLabels(m.schema), m.received) = DateOf(m, S)
  BY DEF ReadsAs
<1> HIDE DEF c, S
<1>3. Readable(c) => c # Missing
  BY DEF Readable
<1>4. Txn(m, b, index, block) =
        [id |-> SourceTxnId(m.message, Index(m, h)), block |-> Reading(m, h).block,
         amount |-> IF Readable(c) THEN c ELSE Missing, date |-> DateOf(m, S)]
  BY <1>2 DEF Txn
<1> QED BY <1>1, <1>3, <1>4 DEF TxnOf

\* The parser's blocks stand for the heads, in their order.
Numbering(m, n, at) == n \in Nat /\ Enumerates(at, n, Heads(m)) /\ Heads(m) \subseteq Nat

LEMMA NumbersOf ==
    ASSUME NEW m, NEW n, NEW at, Numbering(m, n, at)
    PROVE  /\ Cardinality(Heads(m)) = n
           /\ \A k \in 1 .. n : at[k] \in Heads(m) /\ Reading(m, at[k]).block = k - 1
           /\ \A h \in Heads(m) : \E k \in 1 .. n : at[k] = h
<1>1. n \in Nat /\ Heads(m) \subseteq Nat /\ Enumerates(at, n, Heads(m))
  BY DEF Numbering
<1>2. Cardinality(Heads(m)) = n
  BY <1>1, NumberOfAll
<1>3. \A k \in 1 .. n : Cardinality(Below(Heads(m), at[k])) = k - 1
  BY <1>1, NumberOf
<1>4. \A k \in 1 .. n : Reading(m, at[k]).block = k - 1
  BY <1>3 DEF Reading, Below
<1> QED BY <1>1, <1>2, <1>4 DEF Enumerates

LEMMA UsedHeads ==
    ASSUME NEW m \in Mail, m.schema = "used"
    PROVE  LET B == SplitBlocks(Pairs(m.rows))
           IN  \E at : /\ Numbering(m, Len(B), at)
                       /\ \A k \in 1 .. Len(B) : ReadsAs(m, B[k], Extent(m, at[k]))
<1> DEFINE B == SplitBlocks(Pairs(m.rows))
<1>1. m.rows \in Seq(Rows) /\ m.schema \in Schemas
  BY DEF Mail, Schemas
<1>2. PairShape(m.rows) /\ BlockShape(m.rows)
  BY <1>1, EveryTable
<1>3. B \in Seq(Seq(Rows)) /\ Len(B) \in Nat
  BY <1>2, BlocksAre DEF PairShape
<1>4. PICK at : /\ Enumerates(at, Len(B), Accounts(m.rows))
                /\ \A k \in 1 .. Len(B) : Lists(B[k], m.rows, Own(m.rows, at[k]))
  BY <1>2 DEF BlockShape
<1>5. Heads(m) = Accounts(m.rows) /\ Heads(m) \subseteq Nat
  BY <1>1, RowSets DEF Heads
<1> HIDE DEF B
<1>6. Numbering(m, Len(B), at)
  BY <1>3, <1>4, <1>5 DEF Numbering
<1>7. ASSUME NEW k \in 1 .. Len(B) PROVE ReadsAs(m, B[k], Extent(m, at[k]))
  <2>1. Own(m.rows, at[k]) = {i \in Extent(m, at[k]) : Filled(m.rows, i)}
    BY DEF Own, Extent, FilledIn
  <2>2. Extent(m, at[k]) \subseteq DOMAIN m.rows /\ B[k] \in Seq(Rows)
    BY <1>3 DEF Extent
  <2>3. Lists(B[k], m.rows, Own(m.rows, at[k]))
    BY <1>4
  <2> QED BY <1>1, <2>1, <2>2, <2>3, ListReadsAs
<1> QED BY <1>6, <1>7 DEF B

LEMMA PairedHeads ==
    ASSUME NEW m \in Mail, m.schema \in Schemas \ {"used"}
    PROVE  /\ Numbering(m, 1, <<0>>) /\ Heads(m) = {0}
           /\ ReadsAs(m, Pairs(m.rows), Extent(m, 0))
<1>1. Heads(m) = {0}
  BY DEF Heads, Schemas
<1>2. Enumerates(<<0>>, 1, {0})
  BY DEF Enumerates
<1>3. m.rows \in Seq(Rows)
  BY DEF Mail
<1>4. PairShape(m.rows)
  BY <1>3, EveryTable
<1>5. /\ FilledIn(m.rows) = {i \in Extent(m, 0) : Filled(m.rows, i)}
      /\ Extent(m, 0) \subseteq DOMAIN m.rows
  BY DEF FilledIn, Extent
<1>6. ReadsAs(m, Pairs(m.rows), Extent(m, 0))
  BY <1>4, <1>5, ListReadsAs DEF PairShape
<1> QED BY <1>1, <1>2, <1>6 DEF Numbering

LEMMA ParsedUsed ==
    ASSUME NEW m \in Mail, m.schema = "used"
    PROVE  ParseUsed(m) = {TxnOf(m, h) : h \in Legible(m)}
<1> DEFINE B == SplitBlocks(Pairs(m.rows))
           n == Len(B)
           T(k) == Txn(m, B[k], IF n > 1 THEN k - 1 ELSE NoIndex, k - 1)
<1>1. PICK at : /\ Numbering(m, n, at)
                /\ \A k \in 1 .. n : ReadsAs(m, B[k], Extent(m, at[k]))
  BY UsedHeads
<1>2. ParseUsed(m) = Complete({T(k) : k \in DOMAIN B})
  BY DEF ParseUsed
<1>3. DOMAIN B = 1 .. n
  <2>1. PairShape(m.rows)
    BY EveryTable DEF Mail
  <2>2. B \in Seq(Seq(Rows))
    BY <2>1, BlocksAre DEF PairShape
  <2> QED BY <2>2
<1> HIDE DEF B, n
<1>4. /\ Cardinality(Heads(m)) = n
      /\ \A k \in 1 .. n : at[k] \in Heads(m) /\ Reading(m, at[k]).block = k - 1
      /\ \A h \in Heads(m) : \E k \in 1 .. n : at[k] = h
  BY <1>1, NumbersOf
<1>5. ASSUME NEW k \in 1 .. n
      PROVE  /\ T(k).amount # Missing /\ T(k).date # Missing <=> at[k] \in Legible(m)
             /\ at[k] \in Legible(m) => T(k) = TxnOf(m, at[k])
  <2>1. k - 1 = Reading(m, at[k]).block
    BY <1>4
  <2>2. (IF n > 1 THEN k - 1 ELSE NoIndex) = Index(m, at[k])
    BY <1>4, <2>1 DEF Index
  <2> DEFINE i == IF n > 1 THEN k - 1 ELSE NoIndex
             t == Txn(m, B[k], i, k - 1)
  <2>3. /\ t.amount # Missing /\ t.date # Missing <=>
              Readable(Reading(m, at[k]).amount) /\ Reading(m, at[k]).date # Missing
        /\ Readable(Reading(m, at[k]).amount) => t = TxnOf(m, at[k])
    BY <1>1, <2>1, <2>2, ReadingReadsAs
  <2>4. at[k] \in Heads(m)
    BY <1>4
  <2> QED BY <2>3, <2>4 DEF Legible
<1> HIDE DEF T
<1>6. Complete({T(k) : k \in 1 .. n}) = {TxnOf(m, at[k]) : k \in {j \in 1 .. n : at[j] \in Legible(m)}}
  BY <1>5 DEF Complete
<1>7. {TxnOf(m, at[k]) : k \in {j \in 1 .. n : at[j] \in Legible(m)}} = {TxnOf(m, h) : h \in Legible(m)}
  BY <1>4 DEF Legible
<1> QED BY <1>2, <1>3, <1>6, <1>7

LEMMA ParsedPaired ==
    ASSUME NEW m \in Mail, m.schema \in Schemas \ {"used"}
    PROVE  ParsePaired(m) = {TxnOf(m, h) : h \in Legible(m)}
<1> DEFINE b == Pairs(m.rows)
           t == Txn(m, b, NoIndex, 0)
<1>1. Numbering(m, 1, <<0>>) /\ Heads(m) = {0} /\ ReadsAs(m, b, Extent(m, 0))
  BY PairedHeads
<1>2. Cardinality(Heads(m)) = 1 /\ Reading(m, 0).block = 0
  <2>1. <<0>>[1] = 0 /\ 1 \in 1 .. 1
    OBVIOUS
  <2>2. Cardinality(Heads(m)) = 1 /\ Reading(m, <<0>>[1]).block = 1 - 1
    BY <1>1, <2>1, NumbersOf
  <2> QED BY <2>1, <2>2
<1> HIDE DEF b
<1>3. Index(m, 0) = NoIndex
  BY <1>2 DEF Index
<1>4. /\ t.amount # Missing /\ t.date # Missing <=>
            Readable(Reading(m, 0).amount) /\ Reading(m, 0).date # Missing
      /\ Readable(Reading(m, 0).amount) => t = TxnOf(m, 0)
  BY <1>1, <1>2, <1>3, ReadingReadsAs
<1>5. ParsePaired(m) = Complete({t})
  BY DEF ParsePaired, b
<1> HIDE DEF t
<1>6. CASE 0 \in Legible(m)
  <2>1. Legible(m) = {0}
    BY <1>1, <1>6 DEF Legible
  <2>2. Complete({t}) = {TxnOf(m, 0)}
    BY <1>4, <1>6 DEF Legible, Complete
  <2> QED BY <1>5, <2>1, <2>2
<1>7. CASE 0 \notin Legible(m)
  <2>1. Legible(m) = {}
    BY <1>1, <1>7 DEF Legible
  <2>2. Complete({t}) = {}
    BY <1>1, <1>4, <1>7 DEF Legible, Complete
  <2> QED BY <1>5, <2>1, <2>2
<1> QED BY <1>6, <1>7

LEMMA ParsedIs ==
    ASSUME NEW m \in Mail
    PROVE  ParseMessage(m) = {TxnOf(m, h) : h \in Legible(m)}
<1>1. CASE m.schema = "none"
  <2>1. Legible(m) = {}
    BY <1>1 DEF Legible, Heads
  <2> QED BY <1>1, <2>1 DEF ParseMessage
<1>2. CASE m.schema = "used"
  BY <1>2, ParsedUsed DEF ParseMessage
<1>3. CASE m.schema \in Schemas \ {"used"}
  BY <1>3, ParsedPaired DEF ParseMessage, Schemas
<1> QED BY <1>1, <1>2, <1>3 DEF Mail

\* Two heads of a mail whose transactions have the same key are one.
LEMMA OneIndex ==
    ASSUME NEW m \in Mail, NEW g \in Heads(m), NEW h \in Heads(m),
           SourceTxnId(m.message, Index(m, g)) = SourceTxnId(m.message, Index(m, h))
    PROVE  g = h
<1>1. \E n, at : Numbering(m, n, at)
  <2>1. m.schema # "none"
    BY DEF Heads
  <2> QED BY <2>1, UsedHeads, PairedHeads DEF Mail
<1>2. PICK n, at : Numbering(m, n, at)
  BY <1>1
<1>3. /\ Cardinality(Heads(m)) = n /\ n \in Nat
      /\ \A k \in 1 .. n : at[k] \in Heads(m) /\ Reading(m, at[k]).block = k - 1
      /\ \A e \in Heads(m) : \E k \in 1 .. n : at[k] = e
  BY <1>2, NumbersOf DEF Numbering
<1>4. PICK j \in 1 .. n : at[j] = g
  BY <1>3
<1>5. PICK k \in 1 .. n : at[k] = h
  BY <1>3
<1>6. Reading(m, g).block = j - 1 /\ Reading(m, h).block = k - 1
  BY <1>3, <1>4, <1>5
<1>7. CASE n > 1
  <2>1. Index(m, g) = j - 1 /\ Index(m, h) = k - 1
    BY <1>3, <1>6, <1>7 DEF Index
  <2>2. j - 1 # NoIndex /\ k - 1 # NoIndex
    <3>1. j - 1 \in Nat /\ k - 1 \in Nat
      OBVIOUS
    <3> QED BY <3>1, MailsAssumption
  <2>3. <<m.message, j - 1>> = <<m.message, k - 1>>
    BY <2>1, <2>2 DEF SourceTxnId
  <2>4. j - 1 = k - 1
    BY <2>3
  <2> QED BY <1>4, <1>5, <2>4
<1>8. CASE ~(n > 1)
  <2>1. j = k
    BY <1>3, <1>8
  <2> QED BY <1>4, <1>5, <2>1
<1> QED BY <1>7, <1>8

-----------------------------------------------------------------------------
(* A filled cell of the mail becomes unreadable.                           *)

Spoiled(m, i) == [m EXCEPT !.rows[i].value = Unreadable]

LEMMA SpoiledRows ==
    ASSUME NEW m \in Mail, NEW i \in DOMAIN m.rows, Filled(m.rows, i),
           NEW w, w = Spoiled(m, i)
    PROVE  /\ w \in Mail /\ w.message = m.message /\ w.schema = m.schema
           /\ w.received = m.received /\ DOMAIN w.rows = DOMAIN m.rows
           /\ \A j \in DOMAIN m.rows : j # i => w.rows[j] = m.rows[j]
           /\ \A j \in DOMAIN m.rows : w.rows[j].label = m.rows[j].label
           /\ \A j \in DOMAIN m.rows : Filled(w.rows, j) <=> Filled(m.rows, j)
           /\ w.rows[i].value = Unreadable
<1> DEFINE rows == [m.rows EXCEPT ![i] = [m.rows[i] EXCEPT !.value = Unreadable]]
<1>1. m.rows \in Seq(Rows) /\ m.rows[i] \in Rows
  BY DEF Mail
<1>2. /\ w.message = m.message /\ w.schema = m.schema /\ w.received = m.received
      /\ w.rows = rows /\ w = [m EXCEPT !.rows = rows]
  BY DEF Spoiled, Mail
<1> DEFINE r == [m.rows[i] EXCEPT !.value = Unreadable]
<1>3. r \in Rows /\ r.label = m.rows[i].label /\ r.value = Unreadable
  BY <1>1 DEF Rows
<1> HIDE DEF r
<1>4. rows \in Seq(Rows) /\ DOMAIN rows = DOMAIN m.rows
      /\ rows[i] = r /\ \A j \in DOMAIN m.rows : j # i => rows[j] = m.rows[j]
  BY <1>1, <1>3 DEF r
<1> HIDE DEF rows
<1>5. w \in Mail
  BY <1>2, <1>4 DEF Mail
<1>6. \A j \in DOMAIN m.rows : w.rows[j].label = m.rows[j].label
  BY <1>2, <1>3, <1>4
<1>7. \A j \in DOMAIN m.rows : Filled(w.rows, j) <=> Filled(m.rows, j)
  <2>1. Unreadable # Empty
    BY MailsAssumption
  <2> QED BY <1>2, <1>3, <1>4, <2>1 DEF Filled
<1> QED BY <1>2, <1>3, <1>4, <1>5, <1>6, <1>7

\* A cell of the spoiled mail reads as before or cannot be read.
LEMMA SpoiledCell ==
    ASSUME NEW m \in Mail, NEW i \in DOMAIN m.rows, Filled(m.rows, i),
           NEW w, w = Spoiled(m, i), NEW S, S \subseteq DOMAIN m.rows, NEW label
    PROVE  /\ Cell(w.rows, S, label) \in {Unreadable, Cell(m.rows, S, label)}
           /\ Cell(m.rows, S, label) = Missing <=> Cell(w.rows, S, label) = Missing
           /\ i \notin S => Cell(w.rows, S, label) = Cell(m.rows, S, label)
<1> DEFINE at == {j \in S : Filled(m.rows, j) /\ m.rows[j].label = label}
<1>1. {j \in S : Filled(w.rows, j) /\ w.rows[j].label = label} = at
  BY SpoiledRows
<1>2. /\ Cell(m.rows, S, label) = IF at = {} THEN Missing ELSE m.rows[First(at)].value
      /\ Cell(w.rows, S, label) = IF at = {} THEN Missing ELSE w.rows[First(at)].value
  BY <1>1 DEF Cell
<1>3. at \subseteq S /\ at \subseteq DOMAIN m.rows
  OBVIOUS
<1> HIDE DEF at
<1>4. CASE at = {}
  BY <1>2, <1>4
<1>5. CASE at # {}
  <2> DEFINE f == First(at)
  <2>1. f \in at
    <3>1. at \subseteq Nat
      BY <1>3 DEF Mail
    <3> QED BY <1>5, <3>1, FirstIsLeast
  <2>2. f \in S /\ f \in DOMAIN m.rows
    BY <1>3, <2>1
  <2> HIDE DEF f
  <2>3. w.rows[f].value \in {Unreadable, m.rows[f].value}
    <3>1. CASE f = i
      BY <3>1, SpoiledRows
    <3>2. CASE f # i
      BY <2>2, <3>2, SpoiledRows
    <3> QED BY <3>1, <3>2
  <2>4. m.rows[f].value # Missing /\ w.rows[f].value # Missing
    <3>1. m.rows[f] \in Rows
      BY <2>2 DEF Mail
    <3>2. m.rows[f].value # Missing /\ Unreadable # Missing
      BY <3>1, MailsAssumption DEF Rows
    <3> QED BY <2>3, <3>2
  <2>5. i \notin S => w.rows[f].value = m.rows[f].value
    BY <2>2, SpoiledRows
  <2> QED BY <1>2, <1>5, <2>3, <2>4, <2>5 DEF f
<1> QED BY <1>4, <1>5

LEMMA SpoiledHeads ==
    ASSUME NEW m \in Mail, NEW i \in DOMAIN m.rows, Filled(m.rows, i),
           NEW w, w = Spoiled(m, i)
    PROVE  /\ Heads(w) = Heads(m)
           /\ \A h : Extent(w, h) = Extent(m, h) /\ Extent(m, h) \subseteq DOMAIN m.rows
<1>1. Accounts(w.rows) = Accounts(m.rows)
  BY SpoiledRows DEF Accounts
<1>2. w.schema = m.schema /\ DOMAIN w.rows = DOMAIN m.rows
  BY SpoiledRows
<1> QED BY <1>1, <1>2 DEF Heads, Extent

LEMMA SpoiledDate ==
    ASSUME NEW m \in Mail, NEW i \in DOMAIN m.rows, Filled(m.rows, i),
           NEW w, w = Spoiled(m, i), NEW S, S \subseteq DOMAIN m.rows
    PROVE  /\ DateCell(w, S) \in {Unreadable, DateCell(m, S)}
           /\ DateOf(w, S) # Missing => DateOf(m, S) # Missing
           /\ i \notin S => DateOf(w, S) = DateOf(m, S)
<1>1. w.schema = m.schema /\ w.received = m.received
  BY SpoiledRows
<1>2. \A l : /\ Cell(w.rows, S, l) \in {Unreadable, Cell(m.rows, S, l)}
             /\ Cell(m.rows, S, l) = Missing <=> Cell(w.rows, S, l) = Missing
             /\ i \notin S => Cell(w.rows, S, l) = Cell(m.rows, S, l)
  BY SpoiledCell
<1>3. \A p, q : /\ Preferred(w.rows, S, p, q) \in {Unreadable, Preferred(m.rows, S, p, q)}
                /\ i \notin S => Preferred(w.rows, S, p, q) = Preferred(m.rows, S, p, q)
  BY <1>2 DEF Preferred
<1>4. /\ DateCell(w, S) \in {Unreadable, DateCell(m, S)}
      /\ i \notin S => DateCell(w, S) = DateCell(m, S)
  BY <1>1, <1>3 DEF DateCell
<1> QED BY <1>1, <1>4 DEF DateOf, Readable

LEMMA SpoiledReading ==
    ASSUME NEW m \in Mail, NEW i \in DOMAIN m.rows, Filled(m.rows, i),
           NEW w, w = Spoiled(m, i), NEW h
    PROVE  /\ Reading(w, h).block = Reading(m, h).block
           /\ h \in Legible(w) => h \in Legible(m)
           /\ SourceTxnId(w.message, Index(w, h)) = SourceTxnId(m.message, Index(m, h))
           /\ i \notin Extent(m, h) =>
                 TxnOf(w, h) = TxnOf(m, h) /\ (h \in Legible(m) => h \in Legible(w))
<1>1. Heads(w) = Heads(m) /\ Extent(w, h) = Extent(m, h) /\ Extent(m, h) \subseteq DOMAIN m.rows
  BY SpoiledHeads
<1>2. w.message = m.message
  BY SpoiledRows
<1> DEFINE S == Extent(m, h)
<1>3. /\ Cell(w.rows, S, "amount") \in {Unreadable, Cell(m.rows, S, "amount")}
      /\ i \notin S => Cell(w.rows, S, "amount") = Cell(m.rows, S, "amount")
  BY <1>1, SpoiledCell
<1>4. /\ DateOf(w, S) # Missing => DateOf(m, S) # Missing
      /\ i \notin S => DateOf(w, S) = DateOf(m, S)
  BY <1>1, SpoiledDate
<1>5. /\ Reading(w, h).amount = Cell(w.rows, S, "amount")
      /\ Reading(m, h).amount = Cell(m.rows, S, "amount")
      /\ Reading(w, h).date = DateOf(w, S) /\ Reading(m, h).date = DateOf(m, S)
      /\ Reading(w, h).block = Reading(m, h).block
  BY <1>1 DEF Reading
<1> HIDE DEF S
<1>6. h \in Legible(w) => h \in Legible(m)
  BY <1>1, <1>3, <1>4, <1>5 DEF Legible, Readable
<1>7. Index(w, h) = Index(m, h)
  BY <1>1, <1>5 DEF Index
<1>8. i \notin S => TxnOf(w, h) = TxnOf(m, h) /\ (h \in Legible(m) => h \in Legible(w))
  BY <1>1, <1>2, <1>3, <1>4, <1>5, <1>7 DEF TxnOf, Legible
<1> QED BY <1>2, <1>5, <1>6, <1>7, <1>8 DEF S

\* A row is in the extent of at most one head.
LEMMA OneExtent ==
    ASSUME NEW m \in Mail, NEW g \in Heads(m), NEW h \in Heads(m),
           NEW i \in Extent(m, g) \intersect Extent(m, h)
    PROVE  g = h
<1>1. CASE m.schema = "used"
  <2>1. g \in Accounts(m.rows) /\ h \in Accounts(m.rows)
    BY <1>1 DEF Heads
  <2>2. g \in Nat /\ h \in Nat /\ i \in Nat
    BY <1>1, <2>1 DEF Accounts, Extent, Mail
  <2>3. g <= i /\ h <= i /\ (g < h => i < h) /\ (h < g => i < g)
    BY <1>1, <2>1 DEF Extent
  <2> QED BY <2>2, <2>3
<1>2. CASE m.schema # "used"
  BY <1>2 DEF Heads
<1> QED BY <1>1, <1>2

-----------------------------------------------------------------------------
(* The properties of Mails, of every mail.                                 *)

LEMMA LaidOutOfMail ==
    ASSUME mail \in Mail
    PROVE  ParsedAsLaidOut
<1>1. ParseMessage(mail) = {TxnOf(mail, h) : h \in Legible(mail)}
  BY ParsedIs
<1>2. \A h : LET t == TxnOf(mail, h)
             IN  [block |-> t.block, amount |-> t.amount, date |-> t.date] = Reading(mail, h)
  BY DEF TxnOf, Reading
<1>3. LaidOut = {Reading(mail, h) : h \in Legible(mail)}
  BY DEF LaidOut, Legible
<1>4. {[block |-> t.block, amount |-> t.amount, date |-> t.date] :
          t \in {TxnOf(mail, h) : h \in Legible(mail)}}
        = {Reading(mail, h) : h \in Legible(mail)}
  BY <1>2
<1> QED BY <1>1, <1>3, <1>4 DEF ParsedAsLaidOut

LEMMA KeysOfMail ==
    ASSUME mail \in Mail
    PROVE  KeysTellApart
<1> SUFFICES ASSUME NEW t \in ParseMessage(mail), NEW u \in ParseMessage(mail), t.id = u.id
             PROVE  t = u
  BY DEF KeysTellApart
<1>1. PICK g \in Legible(mail) : t = TxnOf(mail, g)
  BY ParsedIs
<1>2. PICK h \in Legible(mail) : u = TxnOf(mail, h)
  BY ParsedIs
<1>3. SourceTxnId(mail.message, Index(mail, g)) = SourceTxnId(mail.message, Index(mail, h))
  BY <1>1, <1>2 DEF TxnOf
<1>4. g \in Heads(mail) /\ h \in Heads(mail)
  BY DEF Legible
<1> QED BY <1>1, <1>2, <1>3, <1>4, OneIndex

LEMMA CostOfMail ==
    ASSUME mail \in Mail
    PROVE  UnreadableCostsOne
<1> SUFFICES ASSUME NEW i \in DOMAIN mail.rows, Filled(mail.rows, i),
                    NEW less, less = ParseMessage(Spoiled(mail, i))
             PROVE  /\ {t.id : t \in less} \subseteq {t.id : t \in ParseMessage(mail)}
                    /\ Cardinality(ParseMessage(mail) \ less) <= 1
  BY DEF UnreadableCostsOne, Spoiled
<1>1. PICK w : w = Spoiled(mail, i)
  OBVIOUS
<1>2. /\ less = {TxnOf(w, h) : h \in Legible(w)}
      /\ ParseMessage(mail) = {TxnOf(mail, h) : h \in Legible(mail)}
  <2>1. w \in Mail
    BY <1>1, SpoiledRows
  <2> QED BY <1>1, <2>1, ParsedIs
<1>3. \A h : /\ h \in Legible(w) => h \in Legible(mail)
             /\ TxnOf(w, h).id = TxnOf(mail, h).id
             /\ i \notin Extent(mail, h) =>
                   TxnOf(w, h) = TxnOf(mail, h) /\ (h \in Legible(mail) => h \in Legible(w))
  BY <1>1, SpoiledReading DEF TxnOf
<1>4. {t.id : t \in less} \subseteq {t.id : t \in ParseMessage(mail)}
  <2> SUFFICES ASSUME NEW t \in less PROVE \E u \in ParseMessage(mail) : u.id = t.id
    OBVIOUS
  <2>1. PICK h \in Legible(w) : t = TxnOf(w, h)
    BY <1>2
  <2>2. h \in Legible(mail) /\ TxnOf(mail, h).id = t.id
    BY <1>3, <2>1
  <2> QED BY <1>2, <2>2
<1> DEFINE D == ParseMessage(mail) \ less
<1>5. ASSUME NEW t \in D, NEW u \in D PROVE t = u
  <2>1. PICK g \in Legible(mail) : t = TxnOf(mail, g)
    BY <1>2
  <2>2. PICK h \in Legible(mail) : u = TxnOf(mail, h)
    BY <1>2
  <2>3. i \in Extent(mail, g)
    BY <1>2, <1>3, <2>1
  <2>4. i \in Extent(mail, h)
    BY <1>2, <1>3, <2>2
  <2>5. g \in Heads(mail) /\ h \in Heads(mail)
    BY DEF Legible
  <2> QED BY <2>1, <2>2, <2>3, <2>4, <2>5, OneExtent
<1>6. Cardinality(D) <= 1
  <2> HIDE DEF D
  <2>1. CASE D = {}
    BY <2>1, FS_EmptySet
  <2>2. CASE D # {}
    <3>1. PICK t \in D : TRUE
      BY <2>2
    <3>2. D = {t}
      BY <1>5, <3>1
    <3>3. Cardinality(D) = 1
      BY <3>2, FS_Singleton
    <3> QED BY <3>3
  <2> QED BY <2>1, <2>2
<1> QED BY <1>4, <1>6

LEMMA MailStays == MailSpec => [](mail \in Mail)
<1>1. MailInit => mail \in Mail
  <2>1. <<>> \in Seq(Rows)
    OBVIOUS
  <2>2. NoMail \in Mail
    BY <2>1 DEF NoMail, Mail
  <2>3. \A s \in Schemas, d \in {Missing, 0} :
           [NoMail EXCEPT !.schema = s, !.received = d] \in Mail
    BY <2>2 DEF Mail
  <2> QED BY <2>3 DEF MailInit
<1>2. mail \in Mail /\ [NextRow]_mail => (mail \in Mail)'
  <2> SUFFICES ASSUME mail \in Mail, NextRow PROVE mail' \in Mail
    OBVIOUS
  <2>1. PICK r \in RowsOf[mail.schema] : mail' = [mail EXCEPT !.rows = Append(@, r)]
    BY DEF NextRow
  <2>2. mail.schema \in Schemas
    BY DEF NextRow, Mail
  <2>3. r \in Rows
    BY <2>1, <2>2, MailsAssumption
  <2>4. Append(mail.rows, r) \in Seq(Rows)
    BY <2>3 DEF Mail
  <2> QED BY <2>1, <2>4 DEF Mail
<1> QED BY <1>1, <1>2, PTL DEF MailSpec

\* A table of any length and of any rows is parsed as it is laid out: every
\* transaction takes its amount and its date from its own rows, none that can be
\* read is dropped and none is made up (parse_message, _split_pair_blocks).
THEOREM AlwaysLaidOut == MailSpec => []ParsedAsLaidOut
  BY MailStays, LaidOutOfMail, PTL

\* The transactions of one mail never share a source_txn_id
\* (email_scan_source_txn_id), however many blocks the alert has.
THEOREM KeysAlwaysTellApart == MailSpec => []KeysTellApart
  BY MailStays, KeysOfMail, PTL

\* Whichever cell of a table becomes unreadable, one transaction at most is lost
\* or changed, and those that remain keep their keys (parse_debitcard_used).
THEOREM UnreadableAlwaysCostsOne == MailSpec => []UnreadableCostsOne
  BY MailStays, CostOfMail, PTL
=============================================================================
