----------------------------- MODULE RuleProofs -----------------------------
(***************************************************************************)
(* The rules that rewrite one record before it is stored, for any text, any*)
(* answers of the registry and any table of provinces: the scope of a survey,*)
(* the marks on its options, and the scenarios its text reports.  First, what*)
(* the rules and the collector both build on, for any sequences: folds,    *)
(* selections and concatenations, which the library defines by recursion.  *)
(***************************************************************************)
EXTENDS RecordRules, FiniteSetTheorems, NaturalsInduction, TLAPS

-----------------------------------------------------------------------------
(* Recursive definitions: numbers, folds, selections, concatenations.      *)

\* A set of numbers that is not empty has a least one.
LEMMA LeastNumber ==
  ASSUME NEW S, S \subseteq Nat, S # {}
  PROVE  \E m \in S : \A k \in S : m <= k
<1> DEFINE R == {pair \in Nat \X Nat : pair[1] < pair[2]}
<1>1. PICK m \in S : \A k \in S : <<k, m>> \notin R
  <2>1. IsWellFoundedOn(R, Nat)
    BY NatLessThanWellFounded, Zenon DEF OpToRel
  <2> HIDE DEF R
  <2>2. QED
    BY <2>1, WFMin
<1>2. ASSUME NEW k \in S PROVE m <= k
  <2>1. k \in Nat /\ m \in Nat /\ <<k, m>> \notin R
    BY <1>1
  <2>2. ~ (k < m)
    BY <2>1
  <2>3. QED
    BY <2>1, <2>2
<1>3. QED
  BY <1>2

\* Induction up to n, for what a set says of a number.
LEMMA UpTo ==
  ASSUME NEW n \in Nat, NEW A, 0 \in A, \A k \in 0 .. n - 1 : k \in A => k + 1 \in A
  PROVE  \A k \in 0 .. n : k \in A
<1> DEFINE bad == {k \in 0 .. n : k \notin A}
<1>1. ASSUME bad # {} PROVE FALSE
  <2>1. PICK m \in bad : \A k \in bad : m <= k
    <3>1. bad \subseteq Nat
      OBVIOUS
    <3> HIDE DEF bad
    <3>2. QED
      BY <1>1, <3>1, LeastNumber
  <2>2. m \in 1 .. n /\ m - 1 \in 0 .. n - 1
    OBVIOUS
  <2>3. m - 1 \notin bad
    BY <2>1, <2>2
  <2>4. m - 1 \in A /\ (m - 1) + 1 = m
    BY <2>2, <2>3
  <2>5. QED
    BY <2>2, <2>4
<1>2. QED
  BY <1>1

LEMMA MaxOf ==
  ASSUME NEW k \in Nat, NEW s \in SUBSET (1 .. k + 1), k + 1 \in s
  PROVE  Max(s) = k + 1
<1>1. \A y \in s : k + 1 >= y
  OBVIOUS
<1>2. \A x \in s : (\A y \in s : x >= y) => x = k + 1
  OBVIOUS
<1>3. QED
  BY <1>1, <1>2 DEF Max

\* A step from S and T to S, where to begin, and what to go through.
Foldable(S, T, base, step, seq) ==
  base \in S /\ step \in [S \X T -> S] /\ seq \in Seq(T)

\* The recursion of FoldLeft, over the sets of indices.
FoldsSets(h, base, step, seq) ==
  \A s \in SUBSET DOMAIN seq :
    h[s] = IF s = {} THEN base ELSE step[<<h[s \ {Max(s)}], seq[Max(s)]>>]

\* The same, as long as the values are in S.
FoldsWithin(h, S, base, step, seq) ==
  /\ h[{}] = base
  /\ \A s \in SUBSET DOMAIN seq :
       s # {} /\ h[s \ {Max(s)}] \in S => h[s] = step[<<h[s \ {Max(s)}], seq[Max(s)]>>]

\* The values it goes through.
RunsThrough(run, S, base, step, seq) ==
  /\ run \in [0 .. Len(seq) -> S]
  /\ run[0] = base
  /\ \A k \in 0 .. Len(seq) - 1 : run[k + 1] = step[<<run[k], seq[k + 1]>>]

\* The recursion has a solution, whatever set its values are taken from.
LEMMA FoldExists ==
  ASSUME NEW S, NEW T, NEW base, NEW step, NEW seq, Foldable(S, T, base, step, seq)
  PROVE  \E h : h \in [SUBSET DOMAIN seq -> S] /\ FoldsSets(h, base, step, seq)
<1> DEFINE Solves(h, k) ==
             \A s \in SUBSET (1 .. k) :
               h[s] = IF s = {} THEN base ELSE step[<<h[s \ {Max(s)}], seq[Max(s)]>>]
           A == {k \in 0 .. Len(seq) : \E h \in [SUBSET (1 .. k) -> S] : Solves(h, k)}
<1>0. /\ Len(seq) \in Nat /\ DOMAIN seq = 1 .. Len(seq)
      /\ base \in S /\ step \in [S \X T -> S] /\ seq \in Seq(T)
  BY DEF Foldable
<1>1. 0 \in A
  <2> DEFINE g == [s \in SUBSET (1 .. 0) |-> base]
  <2>1. 1 .. 0 = {}
    OBVIOUS
  <2>2. g \in [SUBSET (1 .. 0) -> S]
    BY <1>0
  <2>3. Solves(g, 0)
    <3>1. \A s \in SUBSET (1 .. 0) : s = {} /\ g[s] = base
      BY <2>1
    <3> HIDE DEF g
    <3>2. QED
      BY <3>1
  <2> HIDE DEF g, Solves
  <2>4. \E h \in [SUBSET (1 .. 0) -> S] : Solves(h, 0)
    BY <2>2, <2>3
  <2>5. 0 \in 0 .. Len(seq)
    BY <1>0
  <2>6. QED
    BY <2>4, <2>5, Zenon
<1>2. ASSUME NEW k \in 0 .. Len(seq) - 1, k \in A PROVE k + 1 \in A
  <2>1. PICK h \in [SUBSET (1 .. k) -> S] : Solves(h, k)
    BY <1>2
  <2> DEFINE g == [s \in SUBSET (1 .. k + 1) |->
                     IF k + 1 \in s THEN step[<<h[s \ {k + 1}], seq[k + 1]>>] ELSE h[s]]
  <2>2. \A s \in SUBSET (1 .. k + 1) : /\ s \ {k + 1} \in SUBSET (1 .. k)
                                       /\ k + 1 \notin s => s \in SUBSET (1 .. k)
    OBVIOUS
  <2>3. k + 1 \in DOMAIN seq /\ seq[k + 1] \in T
    BY <1>0
  <2>4. g \in [SUBSET (1 .. k + 1) -> S]
    BY <1>0, <2>2, <2>3
  <2>5. ASSUME NEW s \in SUBSET (1 .. k + 1)
        PROVE  g[s] = IF s = {} THEN base ELSE step[<<g[s \ {Max(s)}], seq[Max(s)]>>]
    <3>1. CASE k + 1 \in s
      <4>1. Max(s) = k + 1
        BY <3>1, MaxOf
      <4>2. s \ {k + 1} \in SUBSET (1 .. k + 1) /\ k + 1 \notin s \ {k + 1}
        OBVIOUS
      <4>3. g[s \ {k + 1}] = h[s \ {k + 1}]
        BY <4>2
      <4>4. g[s] = step[<<h[s \ {k + 1}], seq[k + 1]>>]
        BY <3>1
      <4> HIDE DEF g
      <4>5. QED
        BY <3>1, <4>1, <4>3, <4>4
    <3>2. CASE k + 1 \notin s
      <4>1. s \ {Max(s)} \in SUBSET (1 .. k + 1) /\ k + 1 \notin s \ {Max(s)} /\ s \in SUBSET (1 .. k)
        BY <2>2, <3>2
      <4>2. g[s] = h[s] /\ g[s \ {Max(s)}] = h[s \ {Max(s)}]
        BY <3>2, <4>1
      <4> HIDE DEF g
      <4>3. QED
        BY <2>1, <4>1, <4>2
    <3>3. QED
      BY <3>1, <3>2
  <2> HIDE DEF g
  <2>6. Solves(g, k + 1)
    BY <2>5
  <2> HIDE DEF Solves
  <2>7. QED
    BY <2>4, <2>6, <1>0
<1> HIDE DEF A
<1>3. Len(seq) \in A
  <2>1. \A k \in 0 .. Len(seq) : k \in A
    BY <1>0, <1>1, <1>2, UpTo
  <2>2. QED
    BY <1>0, <2>1
<1>4. QED
  BY <1>0, <1>3 DEF A, FoldsSets

\* What satisfies the recursion runs through values of the set, one element after another.
LEMMA FoldRuns ==
  ASSUME NEW S, NEW T, NEW base, NEW step, NEW seq, Foldable(S, T, base, step, seq),
         NEW iter, FoldsWithin(iter, S, base, step, seq)
  PROVE  \E run : RunsThrough(run, S, base, step, seq) /\ run[Len(seq)] = iter[DOMAIN seq]
<1> DEFINE run == [k \in 0 .. Len(seq) |-> iter[1 .. k]]
           A == {k \in 0 .. Len(seq) : iter[1 .. k] \in S}
<1>0. /\ Len(seq) \in Nat /\ DOMAIN seq = 1 .. Len(seq)
      /\ base \in S /\ step \in [S \X T -> S] /\ seq \in Seq(T)
  BY DEF Foldable
<1>a. iter[{}] = base
  BY DEF FoldsWithin
<1>b. \A s \in SUBSET DOMAIN seq : s # {} /\ iter[s \ {Max(s)}] \in S =>
        iter[s] = step[<<iter[s \ {Max(s)}], seq[Max(s)]>>]
  BY DEF FoldsWithin
<1>1. 1 .. 0 = {} /\ 0 \in A
  <2>1. 1 .. 0 = {}
    OBVIOUS
  <2>2. QED
    BY <2>1, <1>0, <1>a
<1>2. ASSUME NEW k \in 0 .. Len(seq) - 1, iter[1 .. k] \in S
      PROVE  iter[1 .. (k + 1)] = step[<<iter[1 .. k], seq[k + 1]>>] /\ iter[1 .. (k + 1)] \in S
  <2>1. Max(1 .. (k + 1)) = k + 1
    <3>1. k + 1 \in 1 .. k + 1 /\ k \in Nat
      OBVIOUS
    <3>2. QED
      BY <3>1, MaxOf
  <2>2. (1 .. (k + 1)) \ {k + 1} = 1 .. k /\ 1 .. (k + 1) # {} /\ 1 .. (k + 1) \in SUBSET DOMAIN seq
    <3>1. k \in Nat /\ k + 1 \in Nat /\ k + 1 <= Len(seq)
      BY <1>0
    <3>2. (1 .. (k + 1)) \ {k + 1} = 1 .. k
      BY <3>1
    <3>3. k + 1 \in 1 .. (k + 1)
      BY <3>1
    <3>4. 1 .. (k + 1) \in SUBSET DOMAIN seq
      BY <1>0, <3>1
    <3>5. QED
      BY <3>2, <3>3, <3>4
  <2>3. k + 1 \in DOMAIN seq /\ seq[k + 1] \in T
    BY <1>0
  <2> HIDE DEF run, A
  <2>4. iter[1 .. (k + 1)] = step[<<iter[1 .. k], seq[k + 1]>>]
    <3> DEFINE t == 1 .. (k + 1)
    <3>1. t \in SUBSET DOMAIN seq /\ t # {} /\ iter[t \ {Max(t)}] \in S
      BY <1>2, <2>1, <2>2
    <3>2. iter[t] = step[<<iter[t \ {Max(t)}], seq[Max(t)]>>]
      BY <1>b, <3>1
    <3>3. QED
      BY <2>1, <2>2, <3>2
  <2>5. QED
    BY <1>0, <1>2, <2>3, <2>4
<1>3. \A k \in 0 .. Len(seq) : k \in A
  <2>1. ASSUME NEW k \in 0 .. Len(seq) - 1, k \in A PROVE k + 1 \in A
    <3>1. iter[1 .. (k + 1)] \in S
      BY <1>2, <2>1
    <3>2. QED
      BY <1>0, <3>1
  <2> HIDE DEF A
  <2>2. QED
    BY <1>0, <1>1, <2>1, UpTo
<1>4. run \in [0 .. Len(seq) -> S] /\ run[0] = base /\ run[Len(seq)] = iter[DOMAIN seq]
  <2>1. run \in [0 .. Len(seq) -> S]
    BY <1>3
  <2>2. run[0] = iter[1 .. 0] /\ run[Len(seq)] = iter[1 .. Len(seq)]
    BY <1>0
  <2> HIDE DEF run, A
  <2>3. QED
    BY <1>0, <1>1, <1>a, <2>1, <2>2
<1>5. \A k \in 0 .. Len(seq) - 1 : run[k + 1] = step[<<run[k], seq[k + 1]>>]
  <2>1. \A k \in 0 .. Len(seq) - 1 : /\ run[k] = iter[1 .. k] /\ run[k + 1] = iter[1 .. (k + 1)]
                                     /\ iter[1 .. k] \in S
    BY <1>0, <1>3
  <2> HIDE DEF run, A
  <2>2. QED
    BY <1>2, <2>1
<1>6. QED
  BY <1>4, <1>5 DEF RunsThrough

\* The recursion over numbers has a solution, too.
LEMMA RunExists ==
  ASSUME NEW S, NEW base, NEW n \in Nat, NEW step,
         Foldable(S, 1 .. n, base, step, [k \in 1 .. n |-> k])
  PROVE  \E run : RunsThrough(run, S, base, step, [k \in 1 .. n |-> k])
<1> DEFINE seq == [k \in 1 .. n |-> k]
<1>1. Foldable(S, 1 .. n, base, step, seq)
  OBVIOUS
<1> HIDE DEF seq
<1>2. PICK h : h \in [SUBSET DOMAIN seq -> S] /\ FoldsSets(h, base, step, seq)
  BY <1>1, FoldExists
<1>3. FoldsWithin(h, S, base, step, seq)
  BY <1>2 DEF FoldsSets, FoldsWithin
<1>5. \E run : RunsThrough(run, S, base, step, seq)
  BY <1>1, <1>3, FoldRuns
<1>6. QED
  BY <1>5 DEF seq

\* The indices that Kept keeps, in order.
Ordered(o, n, I) ==
  /\ o \in Seq(1 .. n)
  /\ \A k, l \in DOMAIN o : k < l => o[k] < o[l]
  /\ \A i \in 1 .. n : i \in I <=> \E k \in DOMAIN o : o[k] = i

LEMMA OrderedNext ==
  ASSUME NEW n \in Nat, NEW o, NEW I, Ordered(o, n, I)
  PROVE  Ordered(IF n + 1 \in I THEN Append(o, n + 1) ELSE o, n + 1, I)
<1>1. o \in Seq(1 .. n + 1) /\ Len(o) \in Nat /\ DOMAIN o = 1 .. Len(o) /\ n + 1 \in 1 .. n + 1
      /\ \A k \in DOMAIN o : o[k] \in 1 .. n
  BY DEF Ordered
<1>2. CASE n + 1 \notin I
  BY <1>1, <1>2 DEF Ordered
<1>3. CASE n + 1 \in I
  <2> DEFINE q == Append(o, n + 1)
  <2>1. q \in Seq(1 .. n + 1) /\ DOMAIN q = 1 .. Len(o) + 1 /\ q[Len(o) + 1] = n + 1
        /\ \A k \in 1 .. Len(o) : q[k] = o[k]
    BY <1>1
  <2> HIDE DEF q
  <2>2. ASSUME NEW k \in DOMAIN q, NEW l \in DOMAIN q, k < l PROVE q[k] < q[l]
    <3>1. k \in 1 .. Len(o) /\ k \in DOMAIN o /\ q[k] = o[k]
      BY <1>1, <2>1, <2>2
    <3>2. CASE l = Len(o) + 1
      BY <1>1, <2>1, <3>1, <3>2
    <3>3. CASE l \in 1 .. Len(o)
      <4>1. o[k] < o[l]
        BY <1>1, <2>2, <3>1, <3>3 DEF Ordered
      <4>2. QED
        BY <2>1, <3>1, <3>3, <4>1
    <3>4. QED
      BY <1>1, <2>1, <3>2, <3>3
  <2>3. ASSUME NEW i \in 1 .. n + 1 PROVE i \in I <=> \E k \in DOMAIN q : q[k] = i
    <3>1. CASE i = n + 1
      BY <1>1, <1>3, <2>1, <3>1
    <3>2. CASE i \in 1 .. n
      <4>1. i \in I <=> \E k \in DOMAIN o : o[k] = i
        BY <3>2 DEF Ordered
      <4>2. \A k \in DOMAIN o : k \in DOMAIN q /\ q[k] = o[k]
        BY <1>1, <2>1
      <4>3. \A k \in DOMAIN q : q[k] = i => k \in DOMAIN o /\ o[k] = i
        BY <1>1, <2>1, <3>2
      <4>4. QED
        BY <4>1, <4>2, <4>3
    <3>3. QED
      BY <3>1, <3>2
  <2>4. Ordered(q, n + 1, I)
    BY <2>1, <2>2, <2>3 DEF Ordered
  <2>5. QED
    BY <1>3, <2>4 DEF q
<1>4. QED
  BY <1>2, <1>3

\* The elements of s at the positions of an order, and what has been kept of s so far.
InThatOrder(s, o) == [k \in DOMAIN o |-> s[o[k]]]

KeptUpTo(s, I) ==
  CHOOSE f : f = [i \in 0 .. Len(s) |->
                    IF i = 0 THEN <<>> ELSE IF i \in I THEN Append(f[i - 1], s[i]) ELSE f[i - 1]]

\* Kept goes through the sequence in its order.
LEMMA KeptOrder ==
  ASSUME NEW T, NEW s \in Seq(T), NEW I
  PROVE  \E o : Ordered(o, Len(s), I) /\ Kept(s, I) = InThatOrder(s, o)
<1> DEFINE n == Len(s)
           Rec(f) == [i \in 0 .. n |->
                        IF i = 0 THEN <<>> ELSE IF i \in I THEN Append(f[i - 1], s[i]) ELSE f[i - 1]]
           f == CHOOSE g : g = Rec(g)
           S == Seq(T)
           step == [p \in S \X (1 .. n) |-> IF p[2] \in I THEN Append(p[1], s[p[2]]) ELSE p[1]]
<1>0. n \in Nat /\ DOMAIN s = 1 .. n /\ \A i \in 1 .. n : s[i] \in T
  OBVIOUS
<1>1. Kept(s, I) = f[n]
  BY Zenon DEF Kept
<1> HIDE DEF n
<1>2. f = Rec(f)
  <2>1. step \in [S \X (1 .. n) -> S]
    <3>1. ASSUME NEW p \in S \X (1 .. n)
          PROVE  (IF p[2] \in I THEN Append(p[1], s[p[2]]) ELSE p[1]) \in S
      <4>1. p[1] \in Seq(T) /\ s[p[2]] \in T
        BY <1>0
      <4>2. Append(p[1], s[p[2]]) \in Seq(T)
        BY <4>1
      <4>3. QED
        BY <4>1, <4>2
    <3> HIDE DEF S
    <3>2. QED
      BY <3>1
  <2>2. <<>> \in S
    OBVIOUS
  <2> DEFINE seq == [k \in 1 .. n |-> k]
  <2>3. PICK run : RunsThrough(run, S, <<>>, step, seq)
    <3>1. Foldable(S, 1 .. n, <<>>, step, seq)
      <4>1. seq \in Seq(1 .. n)
        BY <1>0
      <4> HIDE DEF S, step, seq
      <4>2. QED
        BY <2>1, <2>2, <4>1 DEF Foldable
    <3> HIDE DEF S, step, f
    <3>2. QED
      BY <1>0, <3>1, RunExists
  <2>7. /\ run \in [0 .. n -> S] /\ run[0] = <<>>
        /\ \A k \in 0 .. n - 1 : run[k + 1] = step[<<run[k], k + 1>>]
    <3>1. Len(seq) = n /\ \A k \in 0 .. n - 1 : seq[k + 1] = k + 1
      BY <1>0
    <3> HIDE DEF seq, step, S
    <3>2. QED
      BY <2>3, <3>1 DEF RunsThrough
  <2>4. ASSUME NEW i \in 0 .. n
        PROVE  run[i] = IF i = 0 THEN <<>> ELSE IF i \in I THEN Append(run[i - 1], s[i]) ELSE run[i - 1]
    <3>1. CASE i = 0
      BY <2>7, <3>1
    <3>2. CASE i \in 1 .. n
      <4>1. i - 1 \in 0 .. n - 1 /\ (i - 1) + 1 = i /\ run[i - 1] \in S
        BY <1>0, <2>7, <3>2
      <4>2. run[i] = step[<<run[i - 1], i>>]
        BY <2>7, <4>1
      <4> HIDE DEF S
      <4>3. QED
        BY <3>2, <4>1, <4>2
    <3>3. QED
      BY <1>0, <3>1, <3>2
  <2> HIDE DEF f
  <2>5. run = Rec(run)
    BY <2>4, <2>7
  <2> HIDE DEF Rec
  <2>6. QED
    BY <2>5 DEF f
<1>3. f[0] = <<>> /\ \A k \in 0 .. n - 1 : f[k + 1] = IF k + 1 \in I THEN Append(f[k], s[k + 1]) ELSE f[k]
  <2> HIDE DEF f
  <2>1. Rec(f)[0] = <<>>
    BY <1>0
  <2>2. ASSUME NEW k \in 0 .. n - 1
        PROVE  Rec(f)[k + 1] = IF k + 1 \in I THEN Append(f[k], s[k + 1]) ELSE f[k]
    <3>1. k + 1 \in 0 .. n /\ k + 1 # 0 /\ (k + 1) - 1 = k
      BY <1>0
    <3>2. QED
      BY <3>1
  <2> HIDE DEF Rec
  <2>3. QED
    BY <1>2, <2>1, <2>2
<1> HIDE DEF f
<1> DEFINE A == {k \in 0 .. n : \E o : Ordered(o, k, I) /\ f[k] = InThatOrder(s, o)}
<1>4. 0 \in A
  <2>1. Ordered(<<>>, 0, I) /\ InThatOrder(s, <<>>) = <<>>
    BY DEF Ordered, InThatOrder
  <2>2. QED
    BY <1>0, <1>3, <2>1
<1>5. ASSUME NEW k \in 0 .. n - 1, k \in A PROVE k + 1 \in A
  <2>1. PICK o : Ordered(o, k, I) /\ f[k] = InThatOrder(s, o)
    BY <1>5
  <2> DEFINE q == IF k + 1 \in I THEN Append(o, k + 1) ELSE o
  <2>2. Ordered(q, k + 1, I) /\ k + 1 \in 0 .. n /\ k \in Nat
    BY <1>0, <2>1, OrderedNext
  <2>3. f[k + 1] = InThatOrder(s, q)
    <3>1. CASE k + 1 \notin I
      BY <1>3, <2>1, <3>1
    <3>2. CASE k + 1 \in I
      <4>1. o \in Seq(1 .. k) /\ Len(o) \in Nat /\ DOMAIN o = 1 .. Len(o)
            /\ \A j \in 1 .. Len(o) : o[j] \in 1 .. k
        BY <2>1 DEF Ordered
      <4> DEFINE w == InThatOrder(s, o)
      <4>2. w \in Seq(T) /\ Len(w) = Len(o) /\ DOMAIN w = 1 .. Len(o)
            /\ \A j \in 1 .. Len(o) : w[j] = s[o[j]]
        <5>1. \A j \in 1 .. Len(o) : o[j] \in 1 .. n
          BY <1>0, <2>2, <4>1
        <5>2. QED
          BY <1>0, <4>1, <5>1 DEF InThatOrder
      <4>3. s[k + 1] \in T
        BY <1>0
      <4> DEFINE v == Append(w, s[k + 1])
                 p == Append(o, k + 1)
      <4> HIDE DEF w
      <4>4. v \in Seq(T) /\ Len(v) = Len(o) + 1 /\ DOMAIN v = 1 .. Len(o) + 1
            /\ v[Len(o) + 1] = s[k + 1] /\ \A j \in 1 .. Len(o) : v[j] = w[j]
        BY <4>1, <4>2, <4>3
      <4>5. p \in Seq(1 .. k + 1) /\ DOMAIN p = 1 .. Len(o) + 1 /\ p[Len(o) + 1] = k + 1
            /\ \A j \in 1 .. Len(o) : p[j] = o[j]
        BY <2>2, <4>1
      <4>6. q = p /\ f[k + 1] = v
        BY <1>3, <2>1, <3>2 DEF w
      <4> HIDE DEF v, p
      <4>7. ASSUME NEW j \in DOMAIN p PROVE v[j] = s[p[j]]
        <5>1. CASE j = Len(o) + 1
          BY <4>4, <4>5, <5>1
        <5>2. CASE j \in 1 .. Len(o)
          <6>1. v[j] = w[j] /\ p[j] = o[j] /\ w[j] = s[o[j]]
            BY <4>2, <4>4, <4>5, <5>2
          <6>2. QED
            BY <6>1
        <5>3. QED
          BY <4>1, <4>5, <5>1, <5>2
      <4>8. v = [j \in DOMAIN v |-> v[j]]
        BY <4>4
      <4>9. v = InThatOrder(s, p)
        BY <4>4, <4>5, <4>7, <4>8 DEF InThatOrder
      <4>10. QED
        BY <4>6, <4>9
    <3>3. QED
      BY <3>1, <3>2
  <2> HIDE DEF q
  <2>4. QED
    BY <2>2, <2>3
<1>6. n \in A
  <2>1. n \in 0 .. n
    BY <1>0
  <2> HIDE DEF A
  <2>2. \A k \in 0 .. n : k \in A
    BY <1>0, <1>4, <1>5, UpTo
  <2>3. QED
    BY <2>1, <2>2
<1>7. QED
  BY <1>1, <1>6 DEF n

\* Kept keeps the elements at the positions of I, in their order.
InOrder(s, I, r, pos) ==
  /\ pos \in [DOMAIN r -> I \cap DOMAIN s]
  /\ \A k, l \in DOMAIN r : k < l => pos[k] < pos[l]
  /\ \A i \in I \cap DOMAIN s : \E k \in DOMAIN r : pos[k] = i
  /\ \A k \in DOMAIN r : r[k] = s[pos[k]]

LEMMA KeptInOrder ==
  ASSUME NEW T, NEW s \in Seq(T), NEW I
  PROVE  Kept(s, I) \in Seq(T) /\ \E pos : InOrder(s, I, Kept(s, I), pos)
<1> DEFINE r == Kept(s, I)
<1>1. Len(s) \in Nat /\ DOMAIN s = 1 .. Len(s) /\ \A i \in 1 .. Len(s) : s[i] \in T
  OBVIOUS
<1>2. PICK order : Ordered(order, Len(s), I) /\ r = InThatOrder(s, order)
  BY KeptOrder
<1> HIDE DEF r
<1>4. order \in Seq(1 .. Len(s)) /\ Len(order) \in Nat /\ DOMAIN order = 1 .. Len(order)
      /\ \A k \in DOMAIN order : order[k] \in 1 .. Len(s) /\ order[k] \in I
  BY <1>2 DEF Ordered
<1>5. r \in Seq(T) /\ DOMAIN r = DOMAIN order /\ \A k \in DOMAIN r : r[k] = s[order[k]]
  BY <1>1, <1>2, <1>4 DEF InThatOrder
<1>6. order \in [DOMAIN r -> I \cap DOMAIN s]
  BY <1>1, <1>4, <1>5
<1>7. InOrder(s, I, r, order)
  BY <1>1, <1>2, <1>5, <1>6 DEF InOrder, Ordered
<1>8. QED
  BY <1>5, <1>7 DEF r

\* What is in a sequence.
Holds(s, x) == \E k \in DOMAIN s : s[k] = x

LEMMA KeptHolds ==
  ASSUME NEW T, NEW s \in Seq(T), NEW I
  PROVE  /\ Kept(s, I) \in Seq(T)
         /\ \A x : Holds(Kept(s, I), x) <=> \E i \in I \cap DOMAIN s : s[i] = x
         /\ Kept(s, I) = <<>> <=> I \cap DOMAIN s = {}
         /\ Kept(s, I) # <<>> =>
              \E i \in I \cap DOMAIN s : /\ Kept(s, I)[1] = s[i]
                                         /\ \A j \in I \cap DOMAIN s : i <= j
<1> DEFINE r == Kept(s, I)
<1>1. PICK pos : r \in Seq(T) /\ InOrder(s, I, r, pos)
  BY KeptInOrder
<1> HIDE DEF r
<1>2. /\ Len(r) \in Nat /\ DOMAIN r = 1 .. Len(r) /\ DOMAIN s = 1 .. Len(s) /\ Len(s) \in Nat
      /\ \A k \in DOMAIN r : pos[k] \in I \cap DOMAIN s /\ r[k] = s[pos[k]]
  BY <1>1 DEF InOrder
<1>3. ASSUME NEW x PROVE Holds(r, x) <=> \E i \in I \cap DOMAIN s : s[i] = x
  BY <1>1, <1>2 DEF Holds, InOrder
<1>4. r = <<>> <=> I \cap DOMAIN s = {}
  <2>1. ASSUME r = <<>>, NEW i \in I \cap DOMAIN s PROVE FALSE
    <3>1. PICK k \in DOMAIN r : pos[k] = i
      BY <1>1 DEF InOrder
    <3>2. QED
      BY <1>2, <2>1, <3>1
  <2>2. ASSUME r # <<>> PROVE I \cap DOMAIN s # {}
    <3>1. 1 \in DOMAIN r
      BY <1>1, <1>2, <2>2
    <3>2. QED
      BY <1>2, <3>1
  <2>3. QED
    BY <2>1, <2>2
<1>5. ASSUME r # <<>>
      PROVE  \E i \in I \cap DOMAIN s : r[1] = s[i] /\ \A j \in I \cap DOMAIN s : i <= j
  <2>1. 1 \in DOMAIN r
    BY <1>1, <1>2, <1>5
  <2>2. ASSUME NEW j \in I \cap DOMAIN s PROVE pos[1] <= j
    <3>1. PICK k \in DOMAIN r : pos[k] = j
      BY <1>1 DEF InOrder
    <3>2. 1 < k => pos[1] < pos[k]
      BY <1>1, <2>1 DEF InOrder
    <3>3. pos[1] \in Nat /\ j \in Nat /\ k \in 1 .. Len(r)
      BY <1>2, <2>1
    <3>4. QED
      BY <3>1, <3>2, <3>3
  <2>3. QED
    BY <1>2, <2>1, <2>2
<1>6. QED
  BY <1>1, <1>3, <1>4, <1>5 DEF r

FlattenUpTo(seqs) ==
  CHOOSE f : f = [i \in 1 .. Len(seqs) |-> IF i = 1 THEN seqs[i] ELSE f[i - 1] \o seqs[i]]

\* A flattened sequence holds what its sequences hold.
LEMMA Flattened ==
  ASSUME NEW T, NEW seqs \in Seq(Seq(T))
  PROVE  /\ FlattenSeq(seqs) \in Seq(T)
         /\ \A x : Holds(FlattenSeq(seqs), x) <=> \E i \in DOMAIN seqs : Holds(seqs[i], x)
<1> DEFINE n == Len(seqs)
           Rec(f) == [i \in 1 .. n |-> IF i = 1 THEN seqs[i] ELSE f[i - 1] \o seqs[i]]
           f == CHOOSE g : g = Rec(g)
           S == Seq(T)
           step == [p \in S \X (1 .. n) |-> p[1] \o seqs[p[2]]]
           ids == [k \in 1 .. n |-> k]
<1>0. n \in Nat /\ DOMAIN seqs = 1 .. n /\ \A i \in 1 .. n : seqs[i] \in Seq(T)
  OBVIOUS
<1>1. FlattenSeq(seqs) = IF n = 0 THEN seqs ELSE f[n]
  BY Zenon DEF FlattenSeq
<1> HIDE DEF n
<1>2. PICK run : RunsThrough(run, S, <<>>, step, ids)
  <2>1. step \in [S \X (1 .. n) -> S]
    <3>1. ASSUME NEW p \in S \X (1 .. n) PROVE p[1] \o seqs[p[2]] \in S
      <4>1. p[1] \in Seq(T) /\ seqs[p[2]] \in Seq(T)
        BY <1>0
      <4>2. QED
        BY <4>1
    <3> HIDE DEF S
    <3>2. QED
      BY <3>1
  <2>2. ids \in Seq(1 .. n) /\ <<>> \in S
    BY <1>0
  <2>3. Foldable(S, 1 .. n, <<>>, step, ids)
    <3> HIDE DEF S, step, ids
    <3>1. QED
      BY <2>1, <2>2 DEF Foldable
  <2> HIDE DEF S, step, f
  <2>4. QED
    BY <1>0, <2>3, RunExists
<1>3. /\ run \in [0 .. n -> Seq(T)] /\ run[0] = <<>>
      /\ \A k \in 0 .. n - 1 : run[k + 1] = run[k] \o seqs[k + 1]
  <2>1. Len(ids) = n /\ \A k \in 0 .. n - 1 : ids[k + 1] = k + 1
    BY <1>0
  <2> HIDE DEF ids
  <2>2. run \in [0 .. n -> S] /\ run[0] = <<>> /\ \A k \in 0 .. n - 1 : run[k + 1] = step[<<run[k], k + 1>>]
    <3> HIDE DEF step, S
    <3>1. QED
      BY <1>2, <2>1 DEF RunsThrough
  <2>3. ASSUME NEW k \in 0 .. n - 1 PROVE run[k + 1] = run[k] \o seqs[k + 1]
    <3>1. run[k] \in S /\ k + 1 \in 1 .. n
      <4>1. k \in 0 .. n /\ k + 1 \in 1 .. n
        BY <1>0
      <4> HIDE DEF S
      <4>2. QED
        BY <2>2, <4>1
    <3>2. step[<<run[k], k + 1>>] = run[k] \o seqs[k + 1]
      <4> HIDE DEF S
      <4>1. QED
        BY <3>1
    <3> HIDE DEF S, step
    <3>3. QED
      BY <2>2, <3>2
  <2>4. QED
    BY <2>2, <2>3
<1>4. f = Rec(f)
  <2> DEFINE g == [i \in 1 .. n |-> run[i]]
  <2>1. ASSUME NEW i \in 1 .. n PROVE g[i] = IF i = 1 THEN seqs[i] ELSE g[i - 1] \o seqs[i]
    <3>1. i - 1 \in 0 .. n - 1 /\ (i - 1) + 1 = i
      BY <1>0
    <3>2. g[i] = run[i - 1] \o seqs[i]
      BY <1>3, <3>1
    <3>3. CASE i = 1
      <4>1. seqs[i] \in Seq(T) /\ run[i - 1] = <<>>
        BY <1>0, <1>3, <3>3
      <4>2. <<>> \o seqs[i] = seqs[i]
        BY <4>1
      <4> HIDE DEF g
      <4>3. QED
        BY <3>2, <3>3, <4>1, <4>2
    <3>4. CASE i # 1
      <4>1. i - 1 \in 1 .. n
        BY <1>0, <3>4
      <4>2. g[i - 1] = run[i - 1]
        BY <4>1
      <4> HIDE DEF g
      <4>3. QED
        BY <3>2, <3>4, <4>2
    <3>5. QED
      BY <3>3, <3>4
  <2>2. g = Rec(g)
    <3>1. DOMAIN g = 1 .. n /\ g = [i \in 1 .. n |-> g[i]]
      OBVIOUS
    <3> HIDE DEF g, f
    <3>2. QED
      BY <2>1, <3>1
  <2> HIDE DEF Rec, g
  <2>3. QED
    BY <2>2
<1> HIDE DEF step, ids, S
<1> DEFINE Whole(k, s) == /\ s \in Seq(T)
                          /\ \A x : Holds(s, x) <=> \E i \in 1 .. k : Holds(seqs[i], x)
           A == {k \in 0 .. n : k = 0 \/ Whole(k, f[k])}
<1>5. ASSUME NEW k \in 0 .. n - 1, NEW s, Whole(k, s) PROVE Whole(k + 1, s \o seqs[k + 1])
  <2> DEFINE t == seqs[k + 1]
             c == s \o t
  <2>1. s \in Seq(T) /\ t \in Seq(T) /\ 1 .. k + 1 = (1 .. k) \cup {k + 1}
    BY <1>0, <1>5
  <2> HIDE DEF t
  <2>2. /\ c \in Seq(T) /\ Len(c) = Len(s) + Len(t) /\ Len(s) \in Nat /\ Len(t) \in Nat
        /\ DOMAIN s = 1 .. Len(s) /\ DOMAIN t = 1 .. Len(t) /\ DOMAIN c = 1 .. Len(c)
        /\ \A i \in 1 .. Len(s) : c[i] = s[i]
        /\ \A i \in 1 .. Len(t) : c[Len(s) + i] = t[i]
    BY <2>1
  <2> HIDE DEF c
  <2>3. ASSUME NEW x PROVE Holds(c, x) <=> Holds(s, x) \/ Holds(t, x)
    <3>1. ASSUME Holds(s, x) PROVE Holds(c, x)
      <4>1. PICK i \in 1 .. Len(s) : s[i] = x
        BY <2>2, <3>1 DEF Holds
      <4>2. i \in DOMAIN c /\ c[i] = x
        BY <2>2, <4>1
      <4>3. QED
        BY <4>2 DEF Holds
    <3>2. ASSUME Holds(t, x) PROVE Holds(c, x)
      <4>1. PICK i \in 1 .. Len(t) : t[i] = x
        BY <2>2, <3>2 DEF Holds
      <4>2. Len(s) + i \in DOMAIN c /\ c[Len(s) + i] = x
        BY <2>2, <4>1
      <4>3. QED
        BY <4>2 DEF Holds
    <3>3. ASSUME Holds(c, x) PROVE Holds(s, x) \/ Holds(t, x)
      <4>1. PICK i \in DOMAIN c : c[i] = x
        BY <3>3 DEF Holds
      <4>2. CASE i \in 1 .. Len(s)
        BY <2>2, <4>1, <4>2 DEF Holds
      <4>3. CASE i \notin 1 .. Len(s)
        <5>1. i - Len(s) \in 1 .. Len(t) /\ Len(s) + (i - Len(s)) = i
          BY <2>2, <4>3
        <5>2. t[i - Len(s)] = x
          BY <2>2, <4>1, <5>1
        <5>3. QED
          BY <2>2, <5>1, <5>2 DEF Holds
      <4>4. QED
        BY <4>2, <4>3
    <3>4. QED
      BY <3>1, <3>2, <3>3
  <2>4. ASSUME NEW x PROVE Holds(c, x) <=> \E i \in 1 .. k + 1 : Holds(seqs[i], x)
    <3>1. Holds(s, x) <=> \E i \in 1 .. k : Holds(seqs[i], x)
      BY <1>5
    <3>2. QED
      BY <2>1, <2>3, <3>1 DEF t
  <2>5. QED
    BY <2>2, <2>4 DEF c, t
<1>6. ASSUME NEW k \in 0 .. n - 1, k \in A PROVE k + 1 \in A
  <2>1. f[k + 1] = IF k = 0 THEN seqs[1] ELSE f[k] \o seqs[k + 1]
    <3>1. k + 1 \in 1 .. n /\ (k + 1 = 1 <=> k = 0) /\ (k + 1) - 1 = k
      BY <1>0
    <3>2. Rec(f)[k + 1] = IF k + 1 = 1 THEN seqs[k + 1] ELSE f[(k + 1) - 1] \o seqs[k + 1]
      <4> HIDE DEF f
      <4>1. QED
        BY <3>1
    <3> HIDE DEF f, Rec
    <3>3. QED
      BY <1>4, <3>1, <3>2
  <2> HIDE DEF f, Rec
  <2>2. CASE k = 0
    <3>1. Whole(1, seqs[1])
      <4>1. 1 \in 1 .. n /\ 1 .. 1 = {1}
        BY <1>0, <2>2
      <4>2. seqs[1] \in Seq(T)
        BY <1>0, <4>1
      <4>3. QED
        BY <4>1, <4>2
    <3> HIDE DEF Whole
    <3>2. QED
      BY <1>0, <2>1, <2>2, <3>1
  <2>3. CASE k # 0
    <3>1. Whole(k, f[k])
      BY <1>6, <2>3
    <3>2. Whole(k + 1, f[k] \o seqs[k + 1])
      <4> HIDE DEF Whole
      <4>1. QED
        BY <1>5, <3>1
    <3>3. k + 1 \in 0 .. n
      BY <1>0
    <3> HIDE DEF Whole
    <3>4. f[k + 1] = f[k] \o seqs[k + 1]
      BY <2>1, <2>3
    <3>5. Whole(k + 1, f[k + 1])
      BY <3>2, <3>4
    <3>6. QED
      BY <3>3, <3>5
  <2>4. QED
    BY <2>2, <2>3
<1> HIDE DEF f, Rec
<1>7. n = 0 \/ Whole(n, f[n])
  <2>1. 0 \in A
    BY <1>0
  <2>2. \A k \in 0 .. n : k \in A
    <3> HIDE DEF A
    <3>1. QED
      BY <1>0, <1>6, <2>1, UpTo
  <2>3. n \in A
    <3>1. n \in 0 .. n
      BY <1>0
    <3> HIDE DEF A
    <3>2. QED
      BY <2>2, <3>1
  <2> HIDE DEF Whole
  <2>4. QED
    BY <2>3
<1>8. CASE n = 0
  <2>1. seqs = <<>> /\ DOMAIN seqs = {}
    BY <1>0, <1>8 DEF n
  <2>2. FlattenSeq(seqs) = <<>>
    BY <1>1, <1>8, <2>1
  <2>3. <<>> \in Seq(T) /\ \A x : ~ Holds(<<>>, x)
    BY DEF Holds
  <2>4. QED
    BY <2>1, <2>2, <2>3
<1>9. CASE n # 0
  <2>1. Whole(n, f[n])
    BY <1>7, <1>9
  <2>2. FlattenSeq(seqs) = f[n]
    BY <1>1, <1>9
  <2>3. QED
    BY <1>0, <2>1, <2>2
<1>10. QED
  BY <1>8, <1>9

\* Of indices there is a last one.
LEMMA GreatestIndex ==
  ASSUME NEW n \in Nat, NEW s \in SUBSET (1 .. n), s # {}
  PROVE  \E x \in s : \A y \in s : y <= x
<1> DEFINE left == {n - k : k \in s}
<1>1. left \subseteq Nat /\ left # {}
  <2>1. \A k \in s : n - k \in Nat
    OBVIOUS
  <2>2. left \subseteq Nat
    BY <2>1
  <2>3. PICK k \in s : TRUE
    OBVIOUS
  <2>4. n - k \in left
    OBVIOUS
  <2>5. QED
    BY <2>2, <2>4
<1> HIDE DEF left
<1>2. PICK m \in left : \A k \in left : m <= k
  BY <1>1, LeastNumber
<1>3. PICK x \in s : m = n - x
  BY DEF left
<1>4. ASSUME NEW y \in s PROVE y <= x
  <2>1. n - y \in left
    BY DEF left
  <2>2. n - x <= n - y
    BY <1>2, <1>3, <2>1
  <2>3. QED
    BY <2>2
<1>5. QED
  BY <1>4

LEMMA LastIndex ==
  ASSUME NEW T, NEW seq \in Seq(T), NEW s \in SUBSET DOMAIN seq, s # {}
  PROVE  s \ {Max(s)} \in SUBSET DOMAIN seq /\ seq[Max(s)] \in T /\ Max(s) \in s
<1>1. /\ Len(seq) \in Nat /\ s \in SUBSET (1 .. Len(seq)) /\ DOMAIN seq = 1 .. Len(seq)
      /\ \A k \in DOMAIN seq : seq[k] \in T
  OBVIOUS
<1>2. PICK x \in s : \A y \in s : y <= x
  BY <1>1, GreatestIndex
<1>3. \A y \in s : x >= y
  BY <1>1, <1>2
<1>4. Max(s) \in s
  BY <1>3, Zenon DEF Max
<1>5. QED
  BY <1>1, <1>4

-----------------------------------------------------------------------------
(* The rules.                                                              *)

\* A part keeps what it is, and its outcome is what its rules make of it.
RecordInv == part \in Parts /\ (outcome = <<>> \/ outcome = <<RulesOf(part)>>)

LEMMA RecordInvariant == RecordSpec => []RecordInv
<1>1. RecordInit => RecordInv
  BY DEF RecordInit, RecordInv
<1>2. RecordInv /\ [ApplyRules]_recordVars => RecordInv'
  <2> SUFFICES ASSUME RecordInv, [ApplyRules]_recordVars PROVE RecordInv'
    OBVIOUS
  <2>1. CASE ApplyRules
    BY <2>1, Zenon DEF ApplyRules, RecordInv
  <2>2. CASE UNCHANGED recordVars
    BY <2>2, Zenon DEF recordVars, RecordInv
  <2>3. QED
    BY <2>1, <2>2
<1>3. QED
  BY <1>1, <1>2, PTL DEF RecordSpec

-----------------------------------------------------------------------------
(* Options.                                                                *)

\* The fields that stay readable whatever the rules have made of an option.
IsOption(o) ==
  /\ o = [type |-> o.type, signals |-> o.signals, question |-> o.question, noise |-> o.noise,
          party |-> o.party, inferred |-> o.inferred, confidence |-> o.confidence,
          review |-> o.review]
  /\ o.review \in BOOLEAN /\ o.inferred \in BOOLEAN /\ o.noise \in BOOLEAN

\* A low confidence of an inferred party, where there is one.
Doubtful(o) ==
  o.inferred /\ o.confidence # NoConfidence /\ o.confidence < ReviewThreshold

LEMMA PayloadIsOption == ASSUME NEW o \in PayloadOption(STRING) PROVE IsOption(o)
BY DEF PayloadOption, IsOption

LEMMA ClassKept ==
  ASSUME NEW type, NEW signals, type \in CandidateTypes
  PROVE  OptionType(type, signals).type = type
BY DEF OptionType, CandidateTypes

LEMMA RouteMarks ==
  ASSUME NEW o, IsOption(o)
  PROVE  /\ IsOption(RouteOption(o))
         /\ RouteOption(o).noise = o.noise /\ RouteOption(o).party = o.party
         /\ RouteOption(o).inferred = o.inferred
         /\ o.type \in CandidateTypes => RouteOption(o).type = o.type
<1>1. PICK class : class = OptionType(o.type, o.signals \cup o.question)
  OBVIOUS
<1>2. o.type \in CandidateTypes => class.type = o.type
  BY <1>1, ClassKept
<1>3. PICK review \in BOOLEAN : review = (o.review \/ class.reason # "none")
  OBVIOUS
<1>4. RouteOption(o) = [o EXCEPT !.type = class.type, !.review = review]
  BY <1>1, <1>3 DEF RouteOption, IsOption
<1>5. PICK type : type = class.type
  OBVIOUS
<1>6. RouteOption(o) =
        [type |-> type, signals |-> o.signals, question |-> o.question, noise |-> o.noise,
         party |-> o.party, inferred |-> o.inferred, confidence |-> o.confidence,
         review |-> review]
  BY <1>4, <1>5 DEF IsOption
<1>7. PICK route : route = RouteOption(o)
  OBVIOUS
<1>8. QED
  BY <1>2, <1>5, <1>6, <1>7 DEF IsOption

LEMMA NormalMarks ==
  ASSUME NEW o, IsOption(o)
  PROVE  LET normal == NormalizedOption(o)
         IN /\ IsOption(normal.option)
            /\ normal.option.noise = o.noise /\ normal.option.party = o.party
            /\ o.type \in CandidateTypes => normal.option.type = o.type
            /\ o.review /\ ~ o.inferred => normal.option.review
            /\ normal.reason # "none" => normal.option.review
            /\ Doubtful(normal.option) => normal.option.review
<1>1. PICK class : class = OptionType(o.type, o.signals)
  OBVIOUS
<1>2. o.type \in CandidateTypes => class.type = o.type
  BY <1>1, ClassKept
<1>3. PICK low : low = (o.confidence < ReviewThreshold)
  OBVIOUS
<1>4. PICK marked :
        marked = IF o.inferred /\ o.confidence # NoConfidence THEN low ELSE o.review
  BY DEF IsOption
<1>5. PICK review \in BOOLEAN : review = (marked \/ class.reason # "none")
  OBVIOUS
<1>6. PICK option : option = [o EXCEPT !.type = class.type, !.review = review]
  OBVIOUS
<1>7. PICK type : type = class.type
  OBVIOUS
<1>8. option = [type |-> type, signals |-> o.signals, question |-> o.question, noise |-> o.noise,
                party |-> o.party, inferred |-> o.inferred, confidence |-> o.confidence,
                review |-> review]
  BY <1>6, <1>7 DEF IsOption
<1>9. NormalizedOption(o) = [option |-> option, reason |-> class.reason]
  BY <1>1, <1>3, <1>4, <1>5, <1>6 DEF NormalizedOption
<1>10. PICK normal : normal = NormalizedOption(o)
  OBVIOUS
<1>11. normal.option = option /\ normal.reason = class.reason
  BY <1>9, <1>10
<1>12. IsOption(option) /\ option.noise = o.noise /\ option.party = o.party
       /\ option.type = type /\ option.review = review
       /\ option.inferred = o.inferred /\ option.confidence = o.confidence
  BY <1>8 DEF IsOption
<1>13. /\ o.review /\ ~ o.inferred => review
       /\ class.reason # "none" => review
       /\ Doubtful(option) => review
  BY <1>3, <1>4, <1>5, <1>12 DEF Doubtful
<1>14. QED
  BY <1>2, <1>7, <1>10, <1>11, <1>12, <1>13

\* An inferred party is marked when its confidence is low; noise gets none.
LEMMA InferenceMarks ==
  ASSUME NEW o, IsOption(o), NEW context, Doubtful(o) => o.review
  PROVE  LET made == PartyInferred(o, context)
         IN /\ IsOption(made) /\ made.noise = o.noise /\ made.type = o.type
            /\ o.type \in CandidateTypes /\ o.noise => made.party = o.party
            /\ o.review => made.review
            /\ Doubtful(made) => made.review
<1>1. CASE PartyInferred(o, context) = o
  BY <1>1
<1>2. ASSUME NEW party, NEW confidence,
             PartyInferred(o, context) = WithParty(o, party, confidence),
             o.type \in CandidateTypes => ~ o.noise
      PROVE  LET made == PartyInferred(o, context)
             IN /\ IsOption(made) /\ made.noise = o.noise /\ made.type = o.type
                /\ o.type \in CandidateTypes /\ o.noise => made.party = o.party
                /\ o.review => made.review
                /\ Doubtful(made) => made.review
  <2>1. PICK low : low = (confidence < ReviewThreshold)
    OBVIOUS
  <2>2. PICK review \in BOOLEAN : review = (o.review \/ low)
    OBVIOUS
  <2>3. PICK made : made = [o EXCEPT !.party = party, !.inferred = TRUE,
                                     !.confidence = confidence, !.review = review]
    OBVIOUS
  <2>4. made = PartyInferred(o, context)
    BY <1>2, <2>1, <2>2, <2>3 DEF WithParty, IsOption
  <2>5. made = [type |-> o.type, signals |-> o.signals, question |-> o.question,
                noise |-> o.noise, party |-> party, inferred |-> TRUE,
                confidence |-> confidence, review |-> review]
    BY <2>3 DEF IsOption
  <2>6. /\ IsOption(made) /\ made.noise = o.noise /\ made.type = o.type
        /\ made.confidence = confidence /\ made.review = review
    BY <2>5 DEF IsOption
  <2>7. Doubtful(made) => review
    BY <2>1, <2>2, <2>6 DEF Doubtful
  <2>8. QED
    BY <1>2, <2>2, <2>4, <2>6, <2>7
<1>3. CASE PartyInferred(o, context) # o
  <2>1. o.type \in CandidateTypes /\ ~ o.noise
    BY <1>3 DEF PartyInferred
  <2>2. \E party, confidence : PartyInferred(o, context) = WithParty(o, party, confidence)
    BY <1>3, <2>1 DEF PartyInferred
  <2>3. QED
    BY <1>2, <2>1, <2>2
<1>4. QED
  BY <1>1, <1>3

\* Verification marks what it could not verify, and noise above all.
LEMMA VerificationMarks ==
  ASSUME NEW o, IsOption(o), NEW context
  PROVE  LET result == CandidateVerified(o, context)
         IN /\ IsOption(result.option) /\ result.option.party = o.party
            /\ result.option.inferred = o.inferred /\ result.option.confidence = o.confidence
            /\ o.review => result.option.review
            /\ result.reason # "none" => result.option.review
            /\ ~ result.verified => result.option.review
            /\ o.type \in CandidateTypes /\ o.noise => ~ result.verified
<1>1. \E verified \in BOOLEAN : \E source, confidence, reason :
        /\ CandidateVerified(o, context) =
             [option |-> [o EXCEPT !.review = @ \/ reason # "none"],
              verified |-> verified, source |-> source, confidence |-> confidence,
              reason |-> reason]
        /\ ~ verified => reason # "none"
        /\ o.type \in CandidateTypes /\ o.noise => ~ verified
  <2>1. CASE o.type \notin CandidateTypes
    BY <2>1 DEF CandidateVerified
  <2>2. CASE o.type \in CandidateTypes /\ o.noise
    BY <2>2 DEF CandidateVerified
  <2>3. CASE o.type \in CandidateTypes /\ ~ o.noise /\ context.registry # "absent"
    <3>1. PICK party :
            party = IF context.parties # <<>> THEN MostCommon(context.parties) ELSE o.party
      OBVIOUS
    <3>2. PICK sure : sure = IF party = "none" \/ context.registry = "nameless" THEN 90
                             ELSE IF party = context.registry THEN 98 ELSE 82
      OBVIOUS
    <3>3. CandidateVerified(o, context) =
            [option |-> [o EXCEPT !.review = @ \/ "none" # "none"], verified |-> TRUE,
             source |-> "data_go", confidence |-> sure, reason |-> "none"]
      BY <2>3, <3>1, <3>2 DEF CandidateVerified
    <3>4. QED
      BY <2>3, <3>3
  <2>4. CASE o.type \in CandidateTypes /\ ~ o.noise /\ context.registry = "absent"
    BY <2>4 DEF CandidateVerified
  <2>5. QED
    BY <2>1, <2>2, <2>3, <2>4
<1>1a. PICK verified \in BOOLEAN : \E source, confidence, reason :
        /\ CandidateVerified(o, context) =
             [option |-> [o EXCEPT !.review = @ \/ reason # "none"],
              verified |-> verified, source |-> source, confidence |-> confidence,
              reason |-> reason]
        /\ ~ verified => reason # "none"
        /\ o.type \in CandidateTypes /\ o.noise => ~ verified
  BY <1>1
<1>2. PICK source, confidence, reason :
        /\ CandidateVerified(o, context) =
             [option |-> [o EXCEPT !.review = @ \/ reason # "none"],
              verified |-> verified, source |-> source, confidence |-> confidence,
              reason |-> reason]
        /\ ~ verified => reason # "none"
        /\ o.type \in CandidateTypes /\ o.noise => ~ verified
  BY <1>1a
<1>3. PICK review \in BOOLEAN : review = (o.review \/ reason # "none")
  OBVIOUS
<1>4. PICK option : option = [o EXCEPT !.review = review]
  OBVIOUS
<1>5. option = [type |-> o.type, signals |-> o.signals, question |-> o.question,
                noise |-> o.noise, party |-> o.party, inferred |-> o.inferred,
                confidence |-> o.confidence, review |-> review]
  BY <1>4 DEF IsOption
<1>6. PICK result : result = CandidateVerified(o, context)
  OBVIOUS
<1>7. result.option = option /\ result.verified = verified /\ result.reason = reason
  BY <1>2, <1>3, <1>4, <1>6 DEF IsOption
<1>8. /\ IsOption(option) /\ option.party = o.party /\ option.inferred = o.inferred
      /\ option.confidence = o.confidence /\ option.review = review
  BY <1>5 DEF IsOption
<1>9. QED
  BY <1>2, <1>3, <1>6, <1>7, <1>8

LEMMA OptionMarked ==
  ASSUME NEW o \in PayloadOption(STRING), NEW context
  PROVE  LET stored == StoredOption(o, context)
         IN /\ stored.notes # {} => stored.option.review
            /\ ~ stored.verified => stored.option.review
            /\ o.type \in CandidateTypes /\ o.noise =>
                 ~ stored.verified /\ stored.option.party = o.party
            /\ RouteOption(o).review /\ ~ o.inferred => stored.option.review
<1>1. PICK route : route = RouteOption(o)
  OBVIOUS
<1>2. /\ IsOption(route) /\ route.noise = o.noise /\ route.party = o.party
      /\ route.inferred = o.inferred /\ (o.type \in CandidateTypes => route.type = o.type)
  BY <1>1, PayloadIsOption, RouteMarks
<1>3. PICK normal : normal = NormalizedOption(route)
  OBVIOUS
<1>4. /\ IsOption(normal.option)
      /\ normal.option.noise = route.noise /\ normal.option.party = route.party
      /\ route.type \in CandidateTypes => normal.option.type = route.type
      /\ route.review /\ ~ route.inferred => normal.option.review
      /\ normal.reason # "none" => normal.option.review
      /\ Doubtful(normal.option) => normal.option.review
  BY <1>2, <1>3, NormalMarks
<1>5. PICK made : made = PartyInferred(normal.option, context)
  OBVIOUS
<1>6. /\ IsOption(made) /\ made.noise = normal.option.noise /\ made.type = normal.option.type
      /\ normal.option.type \in CandidateTypes /\ normal.option.noise =>
           made.party = normal.option.party
      /\ normal.option.review => made.review
      /\ Doubtful(made) => made.review
  BY <1>4, <1>5, InferenceMarks
<1>7. PICK result : result = CandidateVerified(made, context)
  OBVIOUS
<1>8. /\ IsOption(result.option) /\ result.option.party = made.party
      /\ result.option.inferred = made.inferred /\ result.option.confidence = made.confidence
      /\ made.review => result.option.review
      /\ result.reason # "none" => result.option.review
      /\ ~ result.verified => result.option.review
      /\ made.type \in CandidateTypes /\ made.noise => ~ result.verified
  BY <1>6, <1>7, VerificationMarks
<1>9. PICK stored : stored = StoredOption(o, context)
  OBVIOUS
<1>10. /\ stored.option = result.option /\ stored.verified = result.verified
       /\ stored.notes # {} => \/ normal.reason # "none" \/ result.reason # "none"
                               \/ Doubtful(result.option)
  BY <1>1, <1>3, <1>5, <1>7, <1>9 DEF StoredOption, Doubtful
<1>11. Doubtful(result.option) = Doubtful(made)
  BY <1>8 DEF Doubtful
<1>12. stored.notes # {} => result.option.review
  BY <1>4, <1>6, <1>8, <1>10, <1>11
<1>13. QED
  BY <1>1, <1>2, <1>4, <1>6, <1>8, <1>9, <1>10, <1>12

-----------------------------------------------------------------------------
(* Scope.                                                                  *)

\* The offices a record comes with and those the rules give it.
Offices == STRING \cup {"metropolitan", "district", "superintendent"}

PlacedRecord ==
  [title : Seq(Phrase), body : Seq(Phrase), survey : Seq(Phrase),
   office : Offices, region : Region, matchup : Offices \X Region,
   regionRow : Region \cup {NoRegion}, scope : Scopes \cup {"none"},
   audience : Region \cup {NoRegion}, population : Population]

LEMMA RecordPlaced == ScopeRecord \subseteq PlacedRecord
BY DEF ScopeRecord, PlacedRecord, Offices

\* A place of a text is a region, and a region is one of a province.
LEMMA RegionParts ==
  /\ NoRegion \notin Region
  /\ \A r \in Region : /\ r[1] \in Nat \ {0} /\ r[2] \in {0, 1} /\ r = <<r[1], r[2]>>
                       /\ IsProvince(ProvinceOf(r)) /\ ProvinceOf(ProvinceOf(r)) = ProvinceOf(r)
                       /\ IsProvince(r) => ProvinceOf(r) = r
<1>1. NoRegion \notin Region
  BY ProvincesAssumption DEF Region, NoRegion
<1>2. ASSUME NEW r \in Region
      PROVE  /\ r[1] \in Nat \ {0} /\ r[2] \in {0, 1} /\ r = <<r[1], r[2]>>
             /\ IsProvince(ProvinceOf(r)) /\ ProvinceOf(ProvinceOf(r)) = ProvinceOf(r)
             /\ IsProvince(r) => ProvinceOf(r) = r
  <2>1. PICK p \in Provinces, d \in {0, 1} : r = <<p, d>>
    BY DEF Region
  <2>2. p \in Nat \ {0}
    BY ProvincesAssumption
  <2>3. /\ r[1] = p /\ r[2] = d /\ ProvinceOf(r) = <<p, 0>>
    BY <2>1 DEF ProvinceOf
  <2>4. <<p, 0>> # NoRegion /\ ProvinceOf(<<p, 0>>) = <<p, 0>>
    BY <2>2 DEF ProvinceOf, NoRegion
  <2>5. QED
    BY <2>1, <2>2, <2>3, <2>4 DEF IsProvince
<1>3. QED
  BY <1>1, <1>2

\* Of provinces there is a first one.
LEMMA FirstProvince ==
  ASSUME NEW places \in SUBSET Region, places # {}, \A r \in places : IsProvince(r)
  PROVE  (CHOOSE r \in places : \A q \in places : r[1] <= q[1]) \in places
<1> DEFINE numbers == {r[1] : r \in places}
           R == {pair \in Nat \X Nat : pair[1] < pair[2]}
<1>1. numbers \subseteq Nat /\ numbers # {}
  BY RegionParts
<1>2. PICK n \in numbers : \A m \in numbers : <<m, n>> \notin R
  <2>1. IsWellFoundedOn(R, Nat)
    BY NatLessThanWellFounded, Zenon DEF OpToRel
  <2> HIDE DEF numbers, R
  <2>2. QED
    BY <1>1, <2>1, WFMin
<1>3. PICK r \in places : n = r[1]
  OBVIOUS
<1>4. ASSUME NEW q \in places PROVE r[1] <= q[1]
  <2>1. r[1] \in Nat /\ q[1] \in Nat /\ q[1] \in numbers
    BY RegionParts
  <2>2. <<q[1], r[1]>> \notin R
    BY <1>2, <1>3, <2>1
  <2>3. q[1] < r[1] => <<q[1], r[1]>> \in R
    BY <2>1
  <2> HIDE DEF numbers, R
  <2>4. QED
    BY <2>1, <2>2, <2>3
<1>5. QED
  BY <1>4

LEMMA PlacesGuarded ==
  ASSUME NEW rec \in PlacedRecord
  PROVE  GuardedPlaces(rec) \subseteq Region /\ \A r \in GuardedPlaces(rec) : IsProvince(r)
<1> DEFINE phrases == rec.title \o rec.body \o rec.survey
<1>1. rec.title \in Seq(Phrase) /\ rec.body \in Seq(Phrase) /\ rec.survey \in Seq(Phrase)
  BY DEF PlacedRecord
<1>2. phrases \in Seq(Phrase)
  BY <1>1
<1>3. \A i \in DOMAIN phrases : phrases[i].place \in Region
  <2> HIDE DEF phrases
  <2>1. \A i \in DOMAIN phrases : phrases[i] \in Phrase
    BY <1>2
  <2>2. QED
    BY <2>1 DEF Phrase
<1>4. QED
  BY <1>3 DEF GuardedPlaces

LEMMA AudiencePlaced ==
  ASSUME NEW rec \in PlacedRecord
  PROVE  \E audience \in Region \cup {NoRegion} :
           AudienceNormalised(rec) = [rec EXCEPT !.audience = audience]
<1>1. rec.audience \in Region \cup {NoRegion} /\ rec.region \in Region
  BY DEF PlacedRecord
<1>2. PICK audience : audience = IF rec.scope = "national" THEN NoRegion
                                 ELSE IF rec.scope # "none" /\ rec.audience = NoRegion
                                      THEN rec.region ELSE rec.audience
  OBVIOUS
<1>3. AudienceNormalised(rec) = [rec EXCEPT !.audience = audience]
  BY <1>2 DEF AudienceNormalised
<1>4. QED
  BY <1>1, <1>2, <1>3

\* What the texts alone have: the guard and the correction leave the rest alone.
SameTexts(a, b) == a.title = b.title /\ a.body = b.body /\ a.survey = b.survey

LEMMA Guarded ==
  ASSUME NEW rec \in PlacedRecord
  PROVE  LET made == ScopeHardguard(rec)
         IN /\ made \in PlacedRecord /\ SameTexts(made, rec)
            /\ made.population = rec.population
            /\ GuardedPlaces(rec) # {} =>
                 /\ made.office = "metropolitan" /\ IsProvince(made.region)
                 /\ made.matchup = <<"metropolitan", made.region>>
                 /\ made.regionRow # NoRegion => made.regionRow = made.region
<1>1. CASE GuardedPlaces(rec) = {}
  BY <1>1 DEF ScopeHardguard, SameTexts
<1>2. CASE GuardedPlaces(rec) # {}
  <2>1. PICK first : first = CHOOSE r \in GuardedPlaces(rec) :
                                \A q \in GuardedPlaces(rec) : r[1] <= q[1]
    OBVIOUS
  <2>2. first \in Region /\ IsProvince(first)
    BY <1>2, <2>1, PlacesGuarded, FirstProvince
  <2>3. PICK row \in Region \cup {NoRegion} :
          row = IF rec.regionRow = NoRegion THEN NoRegion ELSE first
    BY <2>2
  <2>4. PICK made : made = ScopeHardguard(rec)
    OBVIOUS
  <2>5. made = [rec EXCEPT !.office = "metropolitan", !.region = first,
                           !.matchup = <<"metropolitan", first>>, !.regionRow = row]
    BY <1>2, <2>1, <2>3, <2>4 DEF ScopeHardguard, For, PlacedRecord
  <2>6. <<"metropolitan", first>> \in Offices \X Region
    BY <2>2 DEF Offices
  <2>7. made \in PlacedRecord
    BY <2>2, <2>5, <2>6 DEF PlacedRecord
  <2>8. /\ SameTexts(made, rec) /\ made.population = rec.population
        /\ made.office = "metropolitan" /\ made.region = first
        /\ made.matchup = <<"metropolitan", first>> /\ made.regionRow = row
    BY <2>5 DEF PlacedRecord, SameTexts
  <2>9. QED
    BY <2>2, <2>3, <2>4, <2>7, <2>8
<1>3. QED
  BY <1>1, <1>2

LEMMA Corrected ==
  ASSUME NEW rec \in PlacedRecord
  PROVE  LET made == SurveyNameCorrection(rec)
             named == rec.survey \o rec.title
         IN /\ made \in PlacedRecord
            /\ made.population = rec.population /\ made.regionRow = rec.regionRow
            /\ named = <<>> => made = rec
            /\ named # <<>> => /\ made.region = named[1].place
                               /\ made.office = PhraseOffice(named[1])
                               /\ made.matchup = <<made.office, made.region>>
<1> DEFINE named == rec.survey \o rec.title
<1>1. CASE named = <<>>
  BY <1>1 DEF SurveyNameCorrection
<1>2. CASE named # <<>>
  <2>1. named \in Seq(Phrase)
    BY DEF PlacedRecord
  <2>2. PICK phrase \in Phrase : phrase = named[1]
    <3> HIDE DEF named
    <3>1. QED
      BY <1>2, <2>1
  <2>3. PICK place \in Region : place = phrase.place
    BY DEF Phrase
  <2>4. PICK office \in Offices : office = PhraseOffice(phrase)
    BY DEF PhraseOffice, Offices
  <2>5. PICK scope \in Scopes \cup {"none"} :
          scope = IF rec.scope # "none" THEN rec.scope
                  ELSE IF IsProvince(place) THEN "regional" ELSE "local"
    BY DEF PlacedRecord, Scopes
  <2>6. PICK made : made = SurveyNameCorrection(rec)
    OBVIOUS
  <2>7. made = [rec EXCEPT !.office = office, !.region = place, !.matchup = <<office, place>>,
                           !.scope = scope]
    BY <1>2, <2>2, <2>3, <2>4, <2>5, <2>6 DEF SurveyNameCorrection, For, PlacedRecord
  <2>8. <<office, place>> \in Offices \X Region
    BY Zenon
  <2>9. made \in PlacedRecord
    BY <2>7, <2>8 DEF PlacedRecord
  <2>10. /\ made.population = rec.population /\ made.regionRow = rec.regionRow
         /\ made.office = office /\ made.region = place /\ made.matchup = <<office, place>>
    BY <2>7 DEF PlacedRecord
  <2>11. QED
    BY <1>2, <2>2, <2>3, <2>4, <2>6, <2>9, <2>10
<1>3. QED
  BY <1>1, <1>2

\* The population says a scope when the inference is sure, and never a local one when its
\* region is a province.
LEMMA ScopeInferred ==
  ASSUME NEW p \in Population
  PROVE  LET inferred == Inferred(p)
         IN /\ inferred.scope \in Scopes \cup {"none"}
            /\ inferred.scope # "none" <=> inferred.confidence >= ConflictThreshold
            /\ IsProvince(p.region) => inferred.scope # "local"
<1> DEFINE score == Scores(p)
           best == {s \in Scopes : \A t \in Scopes : score[s] >= score[t]}
           top == CHOOSE s \in best : TRUE
           clear == \A t \in Scopes \ {top} : score[top] - score[t] >= 2
<1>1. PICK inferred : inferred = Inferred(p)
  OBVIOUS
<1>2. CASE best = Scopes /\ score[top] = 0
  BY <1>1, <1>2 DEF Inferred, ConflictThreshold
<1>3. CASE ~ (best = Scopes /\ score[top] = 0) /\ best # {top}
  BY <1>1, <1>3 DEF Inferred, ConflictThreshold
<1>4. CASE ~ (best = Scopes /\ score[top] = 0) /\ best = {top}
  <2>1. inferred.scope = top /\ inferred.confidence \in {80, 92}
    BY <1>1, <1>4 DEF Inferred
  <2>2. top \in Scopes /\ top # "none"
    BY <1>4 DEF Scopes
  <2>3. ASSUME IsProvince(p.region), top = "local" PROVE FALSE
    <3>1. score["local"] \in {0, 1}
      BY <2>3 DEF Scores
    <3>2. score["regional"] \in {2, 3}
      BY <2>3 DEF Scores
    <3>3. score["local"] >= score["regional"]
      BY <1>4, <2>3 DEF Scopes
    <3>4. QED
      BY <3>1, <3>2, <3>3
  <2>4. QED
    BY <1>1, <2>1, <2>2, <2>3 DEF ConflictThreshold
<1>5. QED
  BY <1>2, <1>3, <1>4

\* Whom the poll asked, of a record that is not turned away.
LEMMA ScopeResolved ==
  ASSUME NEW rec \in PlacedRecord, Resolved(rec).conflict = "none"
  PROVE  LET res == Resolved(rec)
             clear == Inferred(rec.population)
         IN /\ clear.scope # "none" => res.scope = clear.scope
            /\ res.scope = "national" => res.audience = NoRegion
            /\ res.scope = "regional" => IsProvince(res.audience)
            /\ res.scope = "local" /\ ~ IsProvince(rec.region) => ~ IsProvince(res.audience)
            /\ res.scope # "national" /\ clear.confidence >= ConflictThreshold
                 /\ rec.population.region # NoRegion =>
               ProvinceOf(res.audience) = ProvinceOf(rec.population.region)
<1>1. /\ rec.audience \in Region \cup {NoRegion} /\ rec.region \in Region
      /\ rec.scope \in Scopes \cup {"none"} /\ rec.population \in Population
      /\ rec.population.region \in Region \cup {NoRegion}
  BY DEF PlacedRecord, Population
<1>2. PICK clear : clear = Inferred(rec.population)
  OBVIOUS
<1>3. /\ clear.scope \in Scopes \cup {"none"}
      /\ clear.scope # "none" <=> clear.confidence >= ConflictThreshold
      /\ IsProvince(rec.population.region) => clear.scope # "local"
  BY <1>1, <1>2, ScopeInferred
<1>4. PICK scope : scope = IF rec.scope # "none" THEN rec.scope
                           ELSE IF clear.scope # "none" THEN clear.scope
                           ELSE IF IsProvince(rec.region) THEN "regional" ELSE "local"
  OBVIOUS
<1>5. scope \in Scopes
  BY <1>1, <1>3, <1>4 DEF Scopes
<1>6. PICK res : res = Resolved(rec)
  OBVIOUS
<1>7. /\ res.scope = scope /\ res.audience = AudienceRegion(rec, scope)
      /\ res.conflict = "none"
  BY <1>2, <1>4, <1>6 DEF Resolved
<1>8. ~ (/\ rec.scope # "none" /\ clear.scope # "none" /\ rec.scope # clear.scope
         /\ clear.confidence >= ConflictThreshold)
  BY <1>2, <1>6, <1>7 DEF Resolved
<1>9. clear.scope # "none" => scope = clear.scope
  BY <1>3, <1>4, <1>8
<1>10. scope # "national" /\ rec.audience # NoRegion /\ rec.population.region # NoRegion
         /\ clear.confidence >= ConflictThreshold =>
           ProvinceOf(rec.audience) = ProvinceOf(rec.population.region)
  <2>1. SUFFICES ASSUME scope # "national", rec.audience # NoRegion,
                        rec.population.region # NoRegion,
                        clear.confidence >= ConflictThreshold
                 PROVE  ProvinceOf(rec.audience) = ProvinceOf(rec.population.region)
    OBVIOUS
  <2>2. ~ (IF scope = "regional"
           THEN ProvinceOf(rec.audience) # ProvinceOf(rec.population.region)
           ELSE rec.audience # rec.population.region)
    BY <1>2, <1>4, <1>6, <1>7, <1>8, <2>1 DEF Resolved
  <2>3. QED
    BY <2>2
<1>11. PICK region \in Region :
         /\ region = IF rec.audience # NoRegion THEN rec.audience
                     ELSE IF rec.population.region # NoRegion THEN rec.population.region
                     ELSE rec.region
  BY <1>1
<1>12. AudienceRegion(rec, scope) =
         CASE scope = "national" -> NoRegion
           [] scope = "regional" -> ProvinceOf(region)
           [] scope = "local" /\ IsProvince(region) /\ ~ IsProvince(rec.region) -> rec.region
           [] OTHER -> region
  BY <1>11 DEF AudienceRegion
<1>13. scope # "national" /\ clear.confidence >= ConflictThreshold
         /\ rec.population.region # NoRegion =>
           ProvinceOf(region) = ProvinceOf(rec.population.region)
  BY <1>10, <1>11
<1>14. scope = "national" => res.audience = NoRegion
  BY <1>7, <1>12
<1>15. scope = "regional" =>
         IsProvince(res.audience) /\ ProvinceOf(res.audience) = ProvinceOf(region)
  BY <1>7, <1>12, RegionParts
<1>16. scope = "local" =>
         /\ ~ IsProvince(rec.region) => ~ IsProvince(res.audience)
         /\ ~ IsProvince(region) => res.audience = region
         /\ IsProvince(region) => res.audience \in {region, rec.region}
  BY <1>7, <1>12
<1>17. ASSUME scope = "local", clear.confidence >= ConflictThreshold,
              rec.population.region # NoRegion, IsProvince(region)
       PROVE  res.audience = region
  <2>1. ~ IsProvince(rec.population.region)
    BY <1>3, <1>9, <1>17
  <2>2. CASE rec.audience = NoRegion
    BY <1>11, <1>17, <2>1, <2>2
  <2>3. CASE rec.audience # NoRegion
    <3>1. rec.audience = rec.population.region
      BY <1>2, <1>4, <1>6, <1>7, <1>8, <1>17, <2>3 DEF Resolved
    <3>2. QED
      BY <1>11, <1>17, <2>1, <2>3, <3>1
  <2>4. QED
    BY <2>2, <2>3
<1>18. scope = "local" /\ clear.confidence >= ConflictThreshold
         /\ rec.population.region # NoRegion =>
           ProvinceOf(res.audience) = ProvinceOf(region)
  BY <1>16, <1>17
<1>19. scope # "national" /\ clear.confidence >= ConflictThreshold
         /\ rec.population.region # NoRegion =>
           ProvinceOf(res.audience) = ProvinceOf(rec.population.region)
  BY <1>5, <1>13, <1>15, <1>18 DEF Scopes
<1>20. QED
  BY <1>2, <1>6, <1>7, <1>9, <1>14, <1>15, <1>16, <1>19

LEMMA ScopeIsSettled ==
  ASSUME NEW case \in PlacedRecord
  PROVE  LET made == Scoped(case)
             rec == made.rec
             clear == Inferred(case.population)
             others == case.survey \o case.title
         IN /\ made.conflict = "none" =>
                 /\ clear.scope # "none" => rec.scope = clear.scope
                 /\ rec.scope = "national" => rec.audience = NoRegion
                 /\ rec.scope = "regional" => IsProvince(rec.audience)
                 /\ rec.scope = "local" /\ ~ IsProvince(rec.region) => ~ IsProvince(rec.audience)
                 /\ rec.scope # "national" /\ clear.confidence >= ConflictThreshold
                      /\ case.population.region # NoRegion =>
                    ProvinceOf(rec.audience) = ProvinceOf(case.population.region)
            /\ GuardedPlaces(case) # {}
                 /\ (\A i \in DOMAIN others : others[i].place \in GuardedPlaces(case)
                                                /\ others[i].office # "superintendent") =>
                 /\ rec.office = "metropolitan" /\ IsProvince(rec.region)
                 /\ rec.matchup = <<rec.office, rec.region>>
            /\ GuardedPlaces(case) # {} /\ others = <<>> /\ rec.regionRow # NoRegion =>
                 rec.regionRow = rec.region
<1> DEFINE others == case.survey \o case.title
<1>1. PICK audience \in Region \cup {NoRegion} :
        AudienceNormalised(case) = [case EXCEPT !.audience = audience]
  BY AudiencePlaced
<1>2. PICK normal : normal = AudienceNormalised(case)
  OBVIOUS
<1>3. /\ normal \in PlacedRecord /\ SameTexts(normal, case)
      /\ normal.population = case.population
  BY <1>1, <1>2 DEF PlacedRecord, SameTexts
<1>4. GuardedPlaces(normal) = GuardedPlaces(case)
  BY <1>3 DEF GuardedPlaces, SameTexts
<1>5. PICK guarded : guarded = ScopeHardguard(normal)
  OBVIOUS
<1>6. /\ guarded \in PlacedRecord /\ SameTexts(guarded, normal)
      /\ guarded.population = normal.population
      /\ GuardedPlaces(case) # {} =>
           /\ guarded.office = "metropolitan" /\ IsProvince(guarded.region)
           /\ guarded.matchup = <<"metropolitan", guarded.region>>
           /\ guarded.regionRow # NoRegion => guarded.regionRow = guarded.region
  BY <1>3, <1>4, <1>5, Guarded
<1>7. PICK placed : placed = SurveyNameCorrection(guarded)
  OBVIOUS
<1>8. guarded.survey \o guarded.title = others
  BY <1>3, <1>6 DEF SameTexts
<1>9. /\ placed \in PlacedRecord
      /\ placed.population = guarded.population /\ placed.regionRow = guarded.regionRow
      /\ others = <<>> => placed = guarded
      /\ others # <<>> => /\ placed.region = others[1].place
                          /\ placed.office = PhraseOffice(others[1])
                          /\ placed.matchup = <<placed.office, placed.region>>
  BY <1>6, <1>7, <1>8, Corrected
<1>10. placed = Placed(case)
  BY <1>2, <1>5, <1>7 DEF Placed
<1>11. PICK res : res = Resolved(placed)
  OBVIOUS
<1>12. PICK made : made = Scoped(case)
  OBVIOUS
<1>13. /\ made.conflict = res.conflict
       /\ made.rec = [placed EXCEPT !.scope = res.scope, !.audience = res.audience]
  BY <1>10, <1>11, <1>12 DEF Scoped
<1>14. /\ made.rec.scope = res.scope /\ made.rec.audience = res.audience
       /\ made.rec.office = placed.office /\ made.rec.region = placed.region
       /\ made.rec.matchup = placed.matchup /\ made.rec.regionRow = placed.regionRow
  BY <1>9, <1>13 DEF PlacedRecord
<1>15. placed.population = case.population
  BY <1>3, <1>6, <1>9
<1>16. PICK clear : clear = Inferred(case.population)
  OBVIOUS
<1>17. res.conflict = "none" =>
         /\ clear.scope # "none" => res.scope = clear.scope
         /\ res.scope = "national" => res.audience = NoRegion
         /\ res.scope = "regional" => IsProvince(res.audience)
         /\ res.scope = "local" /\ ~ IsProvince(placed.region) => ~ IsProvince(res.audience)
         /\ res.scope # "national" /\ clear.confidence >= ConflictThreshold
              /\ case.population.region # NoRegion =>
            ProvinceOf(res.audience) = ProvinceOf(case.population.region)
  BY <1>9, <1>11, <1>15, <1>16, ScopeResolved
<1>18. ASSUME GuardedPlaces(case) # {},
              \A i \in DOMAIN others : others[i].place \in GuardedPlaces(case)
                                         /\ others[i].office # "superintendent"
       PROVE  /\ placed.office = "metropolitan" /\ IsProvince(placed.region)
              /\ placed.matchup = <<placed.office, placed.region>>
  <2>1. CASE others = <<>>
    BY <1>6, <1>9, <1>18, <2>1
  <2>2. CASE others # <<>>
    <3>1. others \in Seq(Phrase)
      BY DEF PlacedRecord
    <3>2. 1 \in DOMAIN others
      <4> HIDE DEF others
      <4>1. QED
        BY <2>2, <3>1
    <3>3. IsProvince(others[1].place) /\ others[1].office # "superintendent"
      BY <1>18, <3>2, PlacesGuarded
    <3>4. PhraseOffice(others[1]) = "metropolitan"
      BY <3>3 DEF PhraseOffice
    <3>5. QED
      BY <1>9, <2>2, <3>3, <3>4
  <2>3. QED
    BY <2>1, <2>2
<1>19. GuardedPlaces(case) # {} /\ others = <<>> /\ placed.regionRow # NoRegion =>
         placed.regionRow = placed.region
  BY <1>6, <1>9
<1>20. QED
  BY <1>12, <1>13, <1>14, <1>16, <1>17, <1>18, <1>19

-----------------------------------------------------------------------------
\* Whatever the survey's name, the texts and the population say, a record that is not
\* turned away is stored with the scope its population clearly says and an audience that
\* fits it, and a text about the head of a province settles office, region and matchup
\* together (ingest_payload's scope rules), for every table of provinces.
THEOREM ScopeTheorem == RecordSpec => []ScopeSettled
<1>1. RecordInv => ScopeSettled
  <2> SUFFICES ASSUME RecordInv, Ruled("scope") PROVE ScopeSettled
    BY DEF ScopeSettled
  <2>1. part \in Parts /\ part.rule = "scope" /\ outcome = <<RulesOf(part)>>
    BY DEF RecordInv, Ruled
  <2>2. part.case \in ScopeCases
    BY <2>1 DEF Parts
  <2>3. PICK case \in PlacedRecord : case = part.case
    BY <2>2, RecordAssumption, RecordPlaced
  <2>4. outcome[1] = Scoped(case)
    BY <2>1, <2>3 DEF RulesOf
  <2>5. QED
    BY <2>3, <2>4, ScopeIsSettled DEF ScopeSettled
<1>2. QED
  BY <1>1, RecordInvariant, PTL

\* Whatever the payload, the record's candidate rows and the registry say of an option,
\* the one that is stored is marked for review whenever somebody has to look at it, and a
\* noise token is neither verified nor given a party.
THEOREM OptionTheorem == RecordSpec => []OptionsMarked
<1>1. RecordInv => OptionsMarked
  <2> SUFFICES ASSUME RecordInv, Ruled("option") PROVE OptionsMarked
    BY DEF OptionsMarked
  <2>1. part \in Parts /\ part.rule = "option" /\ outcome = <<RulesOf(part)>>
    BY DEF RecordInv, Ruled
  <2>2. part.case \in OptionCases
    BY <2>1 DEF Parts
  <2>3. PICK o, context :
          o \in PayloadOption(STRING) /\ o = part.case.option /\ context = part.case.context
    BY <2>2, RecordAssumption
  <2>4. outcome[1] = StoredOption(o, context)
    BY <2>1, <2>3 DEF RulesOf
  <2>5. QED
    BY <2>3, <2>4, OptionMarked DEF OptionsMarked
<1>2. QED
  BY <1>1, RecordInvariant, PTL

-----------------------------------------------------------------------------
(* The options of one observation.                                         *)

\* Names, and the words the rules use themselves.
Word == STRING \cup {"default", "h2h", "multi", "nobody"}

OptionRow == [name : Word, value : Int, key : Seq(Word), whose : Word]
PairState == [rows : Seq(OptionRow), taken : SUBSET Nat, anchor : Seq(Word)]

\* The text gives this value to this name.
Gives(text, name, value) ==
  \/ \E i \in DOMAIN text.pairs : \/ text.pairs[i].left = name /\ text.pairs[i].leftValue = value
                                  \/ text.pairs[i].right = name /\ text.pairs[i].rightValue = value
  \/ \E i \in DOMAIN text.anchor : text.anchor[i].name = name /\ text.anchor[i].value = value

LEMMA KeysAreSequences ==
  /\ Default \in Seq(Word)
  /\ \A a, b \in Word : HeadToHead(a, b) \in Seq(Word) /\ Multi(a) \in Seq(Word)
<1>1. "default" \in Word /\ "h2h" \in Word /\ "multi" \in Word
  BY DEF Word
<1>2. \A x \in Word : <<x>> \in Seq(Word)
  OBVIOUS
<1>3. \A x, y \in Word : <<x, y>> \in Seq(Word)
  OBVIOUS
<1>4. \A x, y, z \in Word : <<x, y, z>> \in Seq(Word)
  OBVIOUS
<1>5. QED
  BY <1>1, <1>2, <1>3, <1>4 DEF Default, HeadToHead, Multi

\* Of rows there is a nearest one.
LEMMA NearestIn ==
  ASSUME NEW rows \in Seq(OptionRow), NEW I, I \subseteq DOMAIN rows, I # {}, NEW value \in Int
  PROVE  Nearest(rows, I, value) \in I
<1> DEFINE d(i) == Distance(rows[i].value, value)
           D == {d(i) : i \in I}
<1>0. DOMAIN rows = 1 .. Len(rows) /\ Len(rows) \in Nat /\ \A i \in DOMAIN rows : rows[i].value \in Int
  <2>1. DOMAIN rows = 1 .. Len(rows) /\ Len(rows) \in Nat /\ \A i \in DOMAIN rows : rows[i] \in OptionRow
    OBVIOUS
  <2>2. \A r \in OptionRow : r.value \in Int
    BY DEF OptionRow
  <2>3. QED
    BY <2>1, <2>2
<1>1. \A i \in I : d(i) \in Nat
  BY <1>0 DEF Distance
<1> HIDE DEF d
<1>2. D \subseteq Nat /\ D # {}
  BY <1>1
<1>3. PICK least \in D : \A e \in D : least <= e
  <2> HIDE DEF D
  <2>1. QED
    BY <1>2, LeastNumber
<1> DEFINE J == {i \in I : d(i) = least}
<1>4. J \subseteq Nat /\ J # {}
  BY <1>0
<1>5. PICK i \in J : \A j \in J : i <= j
  <2> HIDE DEF J
  <2>1. QED
    BY <1>4, LeastNumber
<1>6. ASSUME NEW j \in I \ {i} PROVE d(i) < d(j) \/ (d(i) = d(j) /\ i < j)
  <2>1. d(i) <= d(j) /\ d(i) = least /\ d(i) \in Nat /\ d(j) \in Nat /\ i \in Nat /\ j \in Nat
    BY <1>0, <1>1, <1>3, <1>4, <1>5
  <2>2. CASE d(j) = least
    BY <1>5, <1>6, <2>1, <2>2
  <2>3. CASE d(j) # least
    BY <2>1, <2>3
  <2>4. QED
    BY <2>2, <2>3
<1>7. \E k \in I : \A j \in I \ {k} :
        \/ Distance(rows[k].value, value) < Distance(rows[j].value, value)
        \/ Distance(rows[k].value, value) = Distance(rows[j].value, value) /\ k < j
  BY <1>5, <1>6 DEF d
<1>8. QED
  BY <1>7, Zenon DEF Nearest

\* Where Found puts a name of the text: a row of this name that is not taken and not far from
\* the value, or one at the end, made of a row of this name; the rows there are stay.
IsFound(rows, taken, name, value, f) ==
  /\ f.rows \in Seq(OptionRow) /\ Len(rows) <= Len(f.rows) /\ f.at \in 0 .. Len(f.rows)
  /\ \A i \in DOMAIN rows : i \in DOMAIN f.rows /\ f.rows[i] = rows[i]
  /\ f.at \in DOMAIN rows => /\ f.at \notin taken /\ rows[f.at].name = name
                             /\ Distance(rows[f.at].value, value) <= Tolerance
  /\ f.at \in DOMAIN f.rows => f.rows[f.at].name = name
  /\ \A i \in DOMAIN f.rows \ DOMAIN rows :
       /\ f.rows[i].name = name /\ f.rows[i].value = value
       /\ \E j \in DOMAIN rows : rows[j].name = name

LEMMA FoundRow ==
  ASSUME NEW rows \in Seq(OptionRow), NEW taken, NEW name \in Word, NEW value \in Int
  PROVE  IsFound(rows, taken, name, value, Found(rows, taken, name, value))
<1> DEFINE fit == Matching(rows, name, value, taken)
           same == Named(rows, name)
<1>0. DOMAIN rows = 1 .. Len(rows) /\ Len(rows) \in Nat /\ \A i \in DOMAIN rows : rows[i] \in OptionRow
  OBVIOUS
<1>1. /\ fit \subseteq DOMAIN rows /\ same \subseteq DOMAIN rows
      /\ \A i \in fit : i \notin taken /\ rows[i].name = name /\ Distance(rows[i].value, value) <= Tolerance
  BY DEF Matching, Named
<1>2. Found(rows, taken, name, value) =
        IF fit # {} THEN [rows |-> rows, at |-> Nearest(rows, fit, value)]
        ELSE IF same = {} THEN [rows |-> rows, at |-> 0]
        ELSE [rows |-> Cloned(rows, name, value), at |-> Len(rows) + 1]
  BY Zenon DEF Found
<1>3. same # {} =>
        /\ Cloned(rows, name, value) \in Seq(OptionRow)
        /\ Len(Cloned(rows, name, value)) = Len(rows) + 1
        /\ \A i \in DOMAIN rows : /\ i \in DOMAIN Cloned(rows, name, value)
                                  /\ Cloned(rows, name, value)[i] = rows[i]
        /\ Cloned(rows, name, value)[Len(rows) + 1].name = name
        /\ Cloned(rows, name, value)[Len(rows) + 1].value = value
  <2> SUFFICES ASSUME same # {} PROVE
        /\ Cloned(rows, name, value) \in Seq(OptionRow)
        /\ Len(Cloned(rows, name, value)) = Len(rows) + 1
        /\ \A i \in DOMAIN rows : /\ i \in DOMAIN Cloned(rows, name, value)
                                  /\ Cloned(rows, name, value)[i] = rows[i]
        /\ Cloned(rows, name, value)[Len(rows) + 1].name = name
        /\ Cloned(rows, name, value)[Len(rows) + 1].value = value
    OBVIOUS
  <2> DEFINE near == Nearest(rows, same, value)
             whose == IF same = {} THEN "nobody" ELSE rows[near].whose
             row == [name |-> name, key |-> Default, value |-> value, whose |-> whose]
  <2>1. near \in DOMAIN rows
    BY <1>1, NearestIn
  <2>2. whose \in Word
    BY <1>0, <2>1 DEF OptionRow, Word
  <2>3. Default \in Seq(Word)
    BY KeysAreSequences
  <2>4. Cloned(rows, name, value) = Append(rows, row)
    BY DEF Cloned
  <2> HIDE DEF whose
  <2>5. row \in OptionRow
    BY <2>2, <2>3 DEF OptionRow
  <2>6. row.name = name /\ row.value = value
    OBVIOUS
  <2> HIDE DEF row
  <2>7. QED
    BY <1>0, <2>4, <2>5, <2>6
<1>4. fit # {} => Nearest(rows, fit, value) \in fit
  BY <1>1, NearestIn
<1>9. same # {} => \E j \in DOMAIN rows : rows[j].name = name
  BY DEF Named
<1> HIDE DEF fit, same
<1> DEFINE f == Found(rows, taken, name, value)
<1>5. CASE fit # {}
  <2>1. f.rows = rows /\ f.at = Nearest(rows, fit, value)
    BY <1>2, <1>5
  <2> HIDE DEF f, IsFound
  <2>2. f.at \in fit
    BY <1>4, <1>5, <2>1
  <2>3. QED
    BY <1>0, <1>1, <2>1, <2>2 DEF f, IsFound
<1>6. CASE fit = {} /\ same = {}
  <2>1. f.rows = rows /\ f.at = 0
    BY <1>2, <1>6
  <2> HIDE DEF f, IsFound
  <2>2. QED
    BY <1>0, <2>1 DEF f, IsFound
<1>7. CASE fit = {} /\ same # {}
  <2>1. f.rows = Cloned(rows, name, value) /\ f.at = Len(rows) + 1
    BY <1>2, <1>7
  <2> DEFINE new == Cloned(rows, name, value)
  <2>2. /\ new \in Seq(OptionRow) /\ Len(new) = Len(rows) + 1
        /\ \A i \in DOMAIN rows : i \in DOMAIN new /\ new[i] = rows[i]
        /\ new[Len(rows) + 1].name = name /\ new[Len(rows) + 1].value = value
        /\ f.rows = new
    BY <1>3, <1>7, <2>1
  <2> HIDE DEF f, new
  <2>3. \A i \in DOMAIN f.rows \ DOMAIN rows : i = Len(rows) + 1
    BY <1>0, <2>2
  <2>4. QED
    BY <1>0, <1>7, <1>9, <2>1, <2>2, <2>3 DEF f, IsFound
<1>8. QED
  BY <1>5, <1>6, <1>7

\* The rows of a record stay in their places with their names, and keep their values but for
\* those the text gives to the same name and that are not far from them.
KeepsRow(text, old, new) ==
  /\ new.name = old.name
  /\ \/ new.value = old.value
     \/ Distance(old.value, new.value) <= Tolerance /\ Gives(text, new.name, new.value)

\* A row has its name from a row of the record, and its value from the same row or from the
\* text, which gives it to that name.
ComesFrom(text, old, new) ==
  \E j \in DOMAIN old :
    old[j].name = new.name /\ (new.value = old[j].value \/ Gives(text, new.name, new.value))

StillRows(text, old, rows, taken) ==
  /\ rows \in Seq(OptionRow) /\ Len(old) <= Len(rows)
  /\ \A i \in DOMAIN old : /\ KeepsRow(text, old[i], rows[i])
                           /\ i \notin taken => rows[i].value = old[i].value
  /\ \A i \in DOMAIN rows : ComesFrom(text, old, rows[i])

SameNames(rows, r) == DOMAIN r = DOMAIN rows /\ \A i \in DOMAIN rows : r[i].name = rows[i].name

\* Giving one row, not taken before, a value of the text that is near, and any key.
LEMMA RowMoved ==
  ASSUME NEW text, NEW old \in Seq(OptionRow), NEW rows, NEW taken, StillRows(text, old, rows, taken),
         NEW at \in Nat, NEW value \in Int, NEW key \in Seq(Word),
         at \in DOMAIN old => Distance(old[at].value, value) <= Tolerance,
         at \in DOMAIN rows => Gives(text, rows[at].name, value)
  PROVE  /\ StillRows(text, old, [rows EXCEPT ![at].value = value], taken \cup {at})
         /\ StillRows(text, old, [rows EXCEPT ![at].value = value, ![at].key = key], taken \cup {at})
         /\ SameNames(rows, [rows EXCEPT ![at].value = value, ![at].key = key])
<1>1. rows \in Seq(OptionRow) /\ Len(old) <= Len(rows) /\ Len(rows) \in Nat /\ Len(old) \in Nat
      /\ DOMAIN rows = 1 .. Len(rows) /\ DOMAIN old = 1 .. Len(old) /\ DOMAIN old \subseteq DOMAIN rows
      /\ \A i \in DOMAIN rows : rows[i] \in OptionRow
  BY DEF StillRows
<1>2. ASSUME NEW r \in Seq(OptionRow), Len(r) = Len(rows), DOMAIN r = DOMAIN rows,
             \A i \in DOMAIN rows : i # at => r[i].name = rows[i].name /\ r[i].value = rows[i].value,
             at \in DOMAIN rows => r[at].name = rows[at].name /\ r[at].value = value
      PROVE  StillRows(text, old, r, taken \cup {at})
  <2>1. ASSUME NEW i \in DOMAIN old
        PROVE  /\ KeepsRow(text, old[i], r[i])
               /\ i \notin taken \cup {at} => r[i].value = old[i].value
    <3>1. KeepsRow(text, old[i], rows[i]) /\ (i \notin taken => rows[i].value = old[i].value)
          /\ i \in DOMAIN rows
      BY <1>1 DEF StillRows
    <3>2. CASE i # at
      BY <1>2, <3>1, <3>2 DEF KeepsRow
    <3>3. CASE i = at
      BY <1>2, <3>1, <3>3 DEF KeepsRow
    <3>4. QED
      BY <3>2, <3>3
  <2>2. ASSUME NEW i \in DOMAIN rows PROVE ComesFrom(text, old, r[i])
    <3>1. ComesFrom(text, old, rows[i])
      BY DEF StillRows
    <3>2. CASE i # at
      BY <1>2, <3>1, <3>2 DEF ComesFrom
    <3>3. CASE i = at
      BY <1>2, <3>1, <3>3 DEF ComesFrom
    <3>4. QED
      BY <3>2, <3>3
  <2>3. QED
    BY <1>1, <1>2, <2>1, <2>2 DEF StillRows
<1> DEFINE S == OptionRow
           r1 == [rows EXCEPT ![at].value = value]
           r2 == [rows EXCEPT ![at].value = value, ![at].key = key]
<1>3. ASSUME NEW i \in DOMAIN rows
      PROVE  /\ [rows[i] EXCEPT !.value = value] \in S
             /\ [[rows[i] EXCEPT !.value = value] EXCEPT !.key = key] \in S
             /\ [rows[i] EXCEPT !.value = value].value = value
             /\ [rows[i] EXCEPT !.value = value].name = rows[i].name
             /\ [[rows[i] EXCEPT !.value = value] EXCEPT !.key = key].value = value
             /\ [[rows[i] EXCEPT !.value = value] EXCEPT !.key = key].name = rows[i].name
  BY <1>1 DEF OptionRow
<1>4. /\ r1 = [i \in DOMAIN rows |-> IF i = at THEN [rows[i] EXCEPT !.value = value] ELSE rows[i]]
      /\ r2 = [i \in DOMAIN rows |-> IF i = at THEN [[rows[i] EXCEPT !.value = value] EXCEPT !.key = key]
                                     ELSE rows[i]]
  BY <1>1 DEF S
<1>5. \A i \in DOMAIN rows : rows[i] \in S
  BY <1>1 DEF S
<1> HIDE DEF r1, r2, S
<1>6. r1 \in [1 .. Len(rows) -> S] /\ r2 \in [1 .. Len(rows) -> S]
  BY <1>1, <1>3, <1>4, <1>5
<1>7. r1 \in Seq(S) /\ r2 \in Seq(S) /\ Len(r1) = Len(rows) /\ Len(r2) = Len(rows)
      /\ DOMAIN r1 = DOMAIN rows /\ DOMAIN r2 = DOMAIN rows
  <2>1. Len(rows) \in Nat
    BY <1>1
  <2>2. ASSUME NEW r \in [1 .. Len(rows) -> S]
        PROVE  r \in Seq(S) /\ Len(r) = Len(rows) /\ DOMAIN r = 1 .. Len(rows)
    BY <2>1
  <2>3. QED
    BY <1>1, <1>6, <2>2
<1>8. /\ \A i \in DOMAIN rows : i # at => r1[i] = rows[i] /\ r2[i] = rows[i]
      /\ at \in DOMAIN rows => /\ r1[at].name = rows[at].name /\ r1[at].value = value
                               /\ r2[at].name = rows[at].name /\ r2[at].value = value
  BY <1>3, <1>4
<1>9. StillRows(text, old, r1, taken \cup {at}) /\ StillRows(text, old, r2, taken \cup {at})
  BY <1>2, <1>7, <1>8 DEF S
<1>10. SameNames(rows, r2)
  BY <1>7, <1>8 DEF SameNames
<1>11. QED
  BY <1>9, <1>10 DEF r1, r2


\* The states the pairs of a text lead through: the record's rows are still there.
StillPaired(text, old) == {st \in PairState : StillRows(text, old, st.rows, st.taken)}
PairsOf(text) == {text.pairs[i] : i \in DOMAIN text.pairs}

\* A row found for a name of the text may be given the value of the text.
MayTake(text, old, rows, taken, value, f) ==
  /\ StillRows(text, old, f.rows, taken) /\ f.at \in Nat
  /\ f.at \in DOMAIN old => Distance(old[f.at].value, value) <= Tolerance
  /\ f.at \in DOMAIN f.rows => Gives(text, f.rows[f.at].name, value)
  /\ f.at # 0 => f.at \in DOMAIN f.rows
  /\ \A i \in DOMAIN rows : i \in DOMAIN f.rows /\ f.rows[i] = rows[i]

LEMMA FoundMoves ==
  ASSUME NEW text, NEW old \in Seq(OptionRow), NEW rows, NEW taken, StillRows(text, old, rows, taken),
         NEW name \in Word, NEW value \in Int, Gives(text, name, value)
  PROVE  MayTake(text, old, rows, taken, value, Found(rows, taken, name, value))
<1> DEFINE f == Found(rows, taken, name, value)
<1>1. rows \in Seq(OptionRow) /\ Len(old) <= Len(rows) /\ DOMAIN old \subseteq DOMAIN rows
      /\ Len(old) \in Nat /\ Len(rows) \in Nat
      /\ \A i \in DOMAIN old : KeepsRow(text, old[i], rows[i]) /\ (i \notin taken => rows[i].value = old[i].value)
  <2>1. rows \in Seq(OptionRow) /\ Len(old) <= Len(rows)
        /\ \A i \in DOMAIN old : KeepsRow(text, old[i], rows[i]) /\ (i \notin taken => rows[i].value = old[i].value)
    BY DEF StillRows
  <2>2. QED
    BY <2>1
<1>2. /\ f.rows \in Seq(OptionRow) /\ Len(rows) <= Len(f.rows) /\ f.at \in 0 .. Len(f.rows)
      /\ \A i \in DOMAIN rows : i \in DOMAIN f.rows /\ f.rows[i] = rows[i]
      /\ f.at \in DOMAIN rows => /\ f.at \notin taken /\ rows[f.at].name = name
                                 /\ Distance(rows[f.at].value, value) <= Tolerance
      /\ f.at \in DOMAIN f.rows => f.rows[f.at].name = name
      /\ \A i \in DOMAIN f.rows \ DOMAIN rows :
           /\ f.rows[i].name = name /\ f.rows[i].value = value
           /\ \E j \in DOMAIN rows : rows[j].name = name
  <2>1. IsFound(rows, taken, name, value, f)
    BY <1>1, FoundRow
  <2> HIDE DEF f
  <2>2. QED
    BY <2>1 DEF IsFound
<1> HIDE DEF f
<1>3. Len(f.rows) \in Nat /\ Len(old) <= Len(f.rows) /\ f.at \in Nat
  BY <1>1, <1>2
<1>4. ASSUME NEW i \in DOMAIN f.rows PROVE ComesFrom(text, old, f.rows[i])
  <2>1. CASE i \in DOMAIN rows
    BY <1>2, <2>1 DEF StillRows
  <2>2. CASE i \notin DOMAIN rows
    <3>1. PICK j \in DOMAIN rows : rows[j].name = name
      BY <1>2, <1>4, <2>2
    <3>2. ComesFrom(text, old, rows[j])
      BY DEF StillRows
    <3>3. f.rows[i].name = name /\ f.rows[i].value = value
      BY <1>2, <1>4, <2>2
    <3>4. QED
      BY <3>1, <3>2, <3>3 DEF ComesFrom
  <2>3. QED
    BY <2>1, <2>2
<1>5. StillRows(text, old, f.rows, taken)
  BY <1>1, <1>2, <1>3, <1>4 DEF StillRows
<1>6. f.at \in DOMAIN old => Distance(old[f.at].value, value) <= Tolerance
  BY <1>1, <1>2
<1>7. f.at # 0 => f.at \in DOMAIN f.rows
  BY <1>2, <1>3
<1>8. QED
  <2>1. MayTake(text, old, rows, taken, value, f)
    BY <1>2, <1>3, <1>5, <1>6, <1>7 DEF MayTake
  <2>2. QED
    BY <2>1 DEF f

\* A state with the rows still there.
LEMMA StillThere ==
  ASSUME NEW text, NEW old, NEW rows, NEW taken \in SUBSET Nat, NEW anchor \in Seq(Word),
         StillRows(text, old, rows, taken)
  PROVE  [rows |-> rows, taken |-> taken, anchor |-> anchor] \in StillPaired(text, old)
<1> DEFINE st == [rows |-> rows, taken |-> taken, anchor |-> anchor]
<1>1. rows \in Seq(OptionRow)
  BY DEF StillRows
<1>2. st \in PairState
  BY <1>1 DEF PairState
<1>3. st.rows = rows /\ st.taken = taken
  OBVIOUS
<1> HIDE DEF st
<1>4. st \in StillPaired(text, old)
  BY <1>2, <1>3 DEF StillPaired
<1>5. QED
  BY <1>4 DEF st

LEMMA PairKeeps ==
  ASSUME NEW text, text.pairs \in Seq(Race), NEW old \in Seq(OptionRow),
         NEW st \in StillPaired(text, old), NEW p \in PairsOf(text)
  PROVE  Paired(st, p) \in StillPaired(text, old)
<1> DEFINE l == Found(st.rows, st.taken, p.left, p.leftValue)
           r == Found(l.rows, st.taken, p.right, p.rightValue)
           key == HeadToHead(p.left, p.right)
           anchor == IF st.anchor = <<>> THEN <<p.left>> ELSE st.anchor
           one == [r.rows EXCEPT ![l.at].value = p.leftValue, ![l.at].key = key]
           both == [one EXCEPT ![r.at].value = p.rightValue, ![r.at].key = key]
<1>1. PICK i \in DOMAIN text.pairs : p = text.pairs[i]
  BY DEF PairsOf
<1>2. p \in Race
  BY <1>1
<1>3. p.left \in Word /\ p.right \in Word /\ p.leftValue \in Int /\ p.rightValue \in Int
  BY <1>2 DEF Race, Word
<1>4. Gives(text, p.left, p.leftValue) /\ Gives(text, p.right, p.rightValue)
  BY <1>1 DEF Gives
<1>5. st = [rows |-> st.rows, taken |-> st.taken, anchor |-> st.anchor]
      /\ st.taken \in SUBSET Nat /\ st.anchor \in Seq(Word) /\ StillRows(text, old, st.rows, st.taken)
  BY DEF StillPaired, PairState
<1>6. /\ StillRows(text, old, l.rows, st.taken) /\ l.at \in Nat
      /\ l.at \in DOMAIN old => Distance(old[l.at].value, p.leftValue) <= Tolerance
      /\ l.at \in DOMAIN l.rows => Gives(text, l.rows[l.at].name, p.leftValue)
      /\ l.at # 0 => l.at \in DOMAIN l.rows
  <2>1. MayTake(text, old, st.rows, st.taken, p.leftValue, l)
    BY <1>3, <1>4, <1>5, FoundMoves
  <2> HIDE DEF l
  <2>2. QED
    BY <2>1 DEF MayTake
<1> HIDE DEF l
<1>7. /\ StillRows(text, old, r.rows, st.taken) /\ r.at \in Nat /\ r.rows \in Seq(OptionRow)
      /\ r.at \in DOMAIN old => Distance(old[r.at].value, p.rightValue) <= Tolerance
      /\ r.at \in DOMAIN r.rows => Gives(text, r.rows[r.at].name, p.rightValue)
      /\ \A j \in DOMAIN l.rows : j \in DOMAIN r.rows /\ r.rows[j] = l.rows[j]
  <2>1. MayTake(text, old, l.rows, st.taken, p.rightValue, r)
    BY <1>3, <1>4, <1>6, FoundMoves
  <2> HIDE DEF r
  <2>2. QED
    BY <2>1 DEF MayTake, StillRows
<1> HIDE DEF r
<1>15. l.at \in DOMAIN r.rows => Gives(text, r.rows[l.at].name, p.leftValue)
  <2>1. 0 \notin DOMAIN r.rows
    BY <1>7
  <2>2. QED
    BY <1>6, <1>7, <2>1
<1>8. key \in Seq(Word) /\ anchor \in Seq(Word)
  BY <1>3, <1>5, KeysAreSequences
<1>9. Paired(st, p) = IF 0 \in {l.at, r.at} THEN [st EXCEPT !.rows = r.rows]
                      ELSE [rows |-> both, taken |-> st.taken \cup {l.at, r.at}, anchor |-> anchor]
  BY Zenon DEF Paired, l, r
<1> HIDE DEF key, anchor
<1>10. StillRows(text, old, one, st.taken \cup {l.at}) /\ SameNames(r.rows, one)
  BY <1>3, <1>6, <1>7, <1>8, <1>15, RowMoved
<1> HIDE DEF one
<1>16. r.at \in DOMAIN one => Gives(text, one[r.at].name, p.rightValue)
  BY <1>7, <1>10 DEF SameNames
<1>11. StillRows(text, old, both, (st.taken \cup {l.at}) \cup {r.at})
  BY <1>3, <1>7, <1>8, <1>10, <1>16, RowMoved
<1> HIDE DEF both
<1>12. CASE 0 \in {l.at, r.at}
  <2>1. Paired(st, p) = [rows |-> r.rows, taken |-> st.taken, anchor |-> st.anchor]
    BY <1>5, <1>9, <1>12
  <2>2. QED
    BY <1>5, <1>7, <2>1 DEF StillPaired, PairState
<1>13. CASE 0 \notin {l.at, r.at}
  <2>1. Paired(st, p) = [rows |-> both, taken |-> st.taken \cup {l.at, r.at}, anchor |-> anchor]
    BY <1>9, <1>13
  <2> DEFINE more == (st.taken \cup {l.at}) \cup {r.at}
  <2>2. st.taken \cup {l.at, r.at} = more
    OBVIOUS
  <2>3. more \in SUBSET Nat
    BY <1>5, <1>6, <1>7
  <2>4. StillRows(text, old, both, more)
    BY <1>11
  <2> HIDE DEF more
  <2>5. [rows |-> both, taken |-> more, anchor |-> anchor] \in StillPaired(text, old)
    BY <1>8, <2>3, <2>4, StillThere
  <2>6. QED
    BY <2>1, <2>2, <2>5
<1>14. QED
  BY <1>12, <1>13

\* One pair of the text after the other.
PairsFolded(base, seq) == FoldLeft(Paired, base, seq)

\* The states S are closed under the pairs T.
PairsStay(S, T) == \A a \in S, b \in T : Paired(a, b) \in S

\* The pairs of a text are gone through one after the other.
LEMMA PairsRun ==
  ASSUME NEW S, NEW T, NEW base \in S, NEW seq \in Seq(T), PairsStay(S, T)
  PROVE  \E run \in [0 .. Len(seq) -> S] :
           /\ run[0] = base
           /\ \A k \in 0 .. Len(seq) - 1 : run[k + 1] = Paired(run[k], seq[k + 1])
           /\ PairsFolded(base, seq) = run[Len(seq)]
<1> DEFINE step == [p \in S \X T |-> Paired(p[1], p[2])]
           Rec(f) == [s \in SUBSET DOMAIN seq |->
                        IF s = {} THEN base ELSE Paired(f[s \ {Max(s)}], seq[Max(s)])]
           iter == CHOOSE f : f = Rec(f)
<1>1. PairsFolded(base, seq) = iter[DOMAIN seq]
  BY Zenon DEF PairsFolded, FoldLeft, MapThenFoldSet
<1>2. Foldable(S, T, base, step, seq)
  <2>1. step \in [S \X T -> S]
    BY DEF PairsStay
  <2> HIDE DEF step
  <2>2. QED
    BY <2>1 DEF Foldable
<1>3. \A a \in S, b \in T : step[<<a, b>>] = Paired(a, b)
  OBVIOUS
<1>4. \A s \in SUBSET DOMAIN seq :
        s # {} => s \ {Max(s)} \in SUBSET DOMAIN seq /\ seq[Max(s)] \in T
  BY LastIndex
<1> HIDE DEF step
<1>5. PICK h : h \in [SUBSET DOMAIN seq -> S] /\ FoldsSets(h, base, step, seq)
  BY <1>2, FoldExists
<1>6. h = Rec(h)
  <2>1. \A s \in SUBSET DOMAIN seq :
          h[s] = IF s = {} THEN base ELSE Paired(h[s \ {Max(s)}], seq[Max(s)])
    BY <1>3, <1>4, <1>5 DEF FoldsSets
  <2>2. h = [s \in SUBSET DOMAIN seq |-> h[s]]
    BY <1>5
  <2>3. QED
    BY <2>1, <2>2
<1>7. iter = Rec(iter)
  <2> HIDE DEF Rec
  <2>1. QED
    BY <1>6
<1> HIDE DEF iter
<1>8. FoldsWithin(iter, S, base, step, seq)
  <2>1. Rec(iter)[{}] = base
    OBVIOUS
  <2>2. ASSUME NEW s \in SUBSET DOMAIN seq, s # {}, iter[s \ {Max(s)}] \in S
        PROVE  Rec(iter)[s] = step[<<iter[s \ {Max(s)}], seq[Max(s)]>>]
    <3>1. Rec(iter)[s] = Paired(iter[s \ {Max(s)}], seq[Max(s)])
      BY <2>2
    <3> HIDE DEF Rec
    <3>2. QED
      BY <1>3, <1>4, <2>2, <3>1
  <2> HIDE DEF Rec
  <2>3. QED
    BY <1>7, <2>1, <2>2 DEF FoldsWithin
<1> HIDE DEF Rec
<1>9. PICK run : RunsThrough(run, S, base, step, seq) /\ run[Len(seq)] = iter[DOMAIN seq]
  BY <1>2, <1>8, FoldRuns
<1>10. run \in [0 .. Len(seq) -> S] /\ run[0] = base
       /\ \A k \in 0 .. Len(seq) - 1 : run[k + 1] = Paired(run[k], seq[k + 1])
  <2>1. ASSUME NEW k \in 0 .. Len(seq) - 1 PROVE run[k] \in S /\ seq[k + 1] \in T
    <3>1. run \in [0 .. Len(seq) -> S]
      BY <1>9 DEF RunsThrough
    <3>2. Len(seq) \in Nat /\ DOMAIN seq = 1 .. Len(seq) /\ \A i \in DOMAIN seq : seq[i] \in T
      OBVIOUS
    <3>3. k \in 0 .. Len(seq) /\ k + 1 \in DOMAIN seq
      BY <3>2
    <3>4. QED
      BY <3>1, <3>2, <3>3
  <2>2. QED
    BY <1>3, <1>9, <2>1 DEF RunsThrough
<1>11. QED
  BY <1>1, <1>9, <1>10

\* Splitting keeps the rows of the record, their names, and their values as far as the text
\* does not give another one nearby, and every row comes from one of them.
LEMMA SplitKeeps ==
  ASSUME NEW old \in Seq(OptionRow), NEW text, text.pairs \in Seq(Race), text.anchor \in Seq(NamedValue)
  PROVE  /\ \A i \in DOMAIN old : /\ i \in DOMAIN SplitCandidates(old, text)
                                  /\ KeepsRow(text, old[i], SplitCandidates(old, text)[i])
         /\ \A i \in DOMAIN SplitCandidates(old, text) :
              ComesFrom(text, old, SplitCandidates(old, text)[i])
<1> DEFINE base == [rows |-> old, taken |-> {}, anchor |-> <<>>]
           st == FoldLeft(Paired, [rows |-> old, taken |-> {}, anchor |-> <<>>], text.pairs)
           a == text.anchor[1]
           f == Found(st.rows, st.taken, a.name, a.value)
           valued == IF f.at = 0 THEN f.rows ELSE [f.rows EXCEPT ![f.at].value = a.value]
           anchored == IF text.anchor = <<>> THEN st.rows ELSE valued
           split == IF st.anchor = <<>> THEN anchored
                    ELSE [i \in DOMAIN anchored |->
                            IF i \in st.taken THEN anchored[i]
                            ELSE [anchored[i] EXCEPT !.key = Multi(st.anchor[1])]]
<1>1. base \in StillPaired(text, old)
  <2>1. StillRows(text, old, old, {})
    BY DEF StillRows, KeepsRow, ComesFrom
  <2>2. {} \in SUBSET Nat /\ <<>> \in Seq(Word)
    OBVIOUS
  <2>3. QED
    BY <2>1, <2>2, StillThere
<1>2. text.pairs \in Seq(PairsOf(text))
  <2> DEFINE s == text.pairs
             R == PairsOf(text)
  <2>1. \A i \in DOMAIN s : s[i] \in R
    BY DEF PairsOf
  <2>2. s \in Seq(Race)
    OBVIOUS
  <2> HIDE DEF s, R
  <2>3. s \in [1 .. Len(s) -> R] /\ Len(s) \in Nat
    BY <2>1, <2>2
  <2>4. s \in Seq(R)
    BY <2>3
  <2>5. QED
    BY <2>4 DEF s, R
<1>3. st \in StillPaired(text, old)
  <2>1. \A s \in StillPaired(text, old), p \in PairsOf(text) : Paired(s, p) \in StillPaired(text, old)
    BY PairKeeps
  <2> HIDE DEF st
  <2>2. PICK run \in [0 .. Len(text.pairs) -> StillPaired(text, old)] :
          FoldLeft(Paired, base, text.pairs) = run[Len(text.pairs)]
    <3> DEFINE S == StillPaired(text, old)
               T == PairsOf(text)
               pairs == text.pairs
    <3>1. base \in S /\ pairs \in Seq(T) /\ PairsStay(S, T)
      BY <1>1, <1>2, <2>1 DEF PairsStay
    <3> HIDE DEF base, S, T, pairs
    <3>2. \E run \in [0 .. Len(pairs) -> S] : PairsFolded(base, pairs) = run[Len(pairs)]
      BY <3>1, PairsRun
    <3>3. PairsFolded(base, pairs) = FoldLeft(Paired, base, pairs)
      BY DEF PairsFolded
    <3>4. QED
      BY <3>2, <3>3 DEF S, pairs
  <2>3. Len(text.pairs) \in 0 .. Len(text.pairs)
    OBVIOUS
  <2>4. QED
    BY <2>2, <2>3 DEF st
<1>4. SplitCandidates(old, text) = old \/ SplitCandidates(old, text) = split
  BY Zenon DEF SplitCandidates
<1> HIDE DEF st
<1>5. StillRows(text, old, st.rows, st.taken) /\ st.taken \in SUBSET Nat /\ st.anchor \in Seq(Word)
  BY <1>3 DEF StillPaired, PairState
<1>6. \E taken : StillRows(text, old, anchored, taken)
  <2>1. CASE text.anchor = <<>>
    BY <1>5, <2>1
  <2>2. CASE text.anchor # <<>>
    <3>1. a \in NamedValue /\ 1 \in DOMAIN text.anchor
      BY <2>2
    <3>2. a.name \in Word /\ a.value \in Int /\ Gives(text, a.name, a.value)
      BY <3>1 DEF NamedValue, Word, Gives
    <3> HIDE DEF a
    <3>3. /\ StillRows(text, old, f.rows, st.taken) /\ f.at \in Nat
          /\ f.at \in DOMAIN old => Distance(old[f.at].value, a.value) <= Tolerance
          /\ f.at \in DOMAIN f.rows => Gives(text, f.rows[f.at].name, a.value)
      <4>1. MayTake(text, old, st.rows, st.taken, a.value, f)
        BY <1>5, <3>2, FoundMoves
      <4> HIDE DEF f
      <4>2. QED
        BY <4>1 DEF MayTake
    <3> HIDE DEF f
    <3>4. <<>> \in Seq(Word)
      OBVIOUS
    <3>5. StillRows(text, old, [f.rows EXCEPT ![f.at].value = a.value], st.taken \cup {f.at})
      BY <3>2, <3>3, <3>4, RowMoved
    <3>6. anchored = f.rows \/ anchored = [f.rows EXCEPT ![f.at].value = a.value]
      BY <2>2
    <3> HIDE DEF anchored
    <3>7. QED
      BY <3>3, <3>5, <3>6
  <2>3. QED
    BY <2>1, <2>2
<1> HIDE DEF anchored
<1>7. \A i \in DOMAIN old : i \in DOMAIN anchored /\ KeepsRow(text, old[i], anchored[i])
  <2>1. anchored \in Seq(OptionRow) /\ Len(old) <= Len(anchored)
        /\ \A i \in DOMAIN old : KeepsRow(text, old[i], anchored[i])
    BY <1>6 DEF StillRows
  <2>2. QED
    BY <2>1
<1>8. ASSUME NEW i \in DOMAIN old PROVE i \in DOMAIN split /\ KeepsRow(text, old[i], split[i])
  <2>1. anchored[i] \in OptionRow /\ i \in DOMAIN anchored
    BY <1>6, <1>7 DEF StillRows
  <2>2. [anchored[i] EXCEPT !.key = Multi(st.anchor[1])].name = anchored[i].name
        /\ [anchored[i] EXCEPT !.key = Multi(st.anchor[1])].value = anchored[i].value
    BY <2>1 DEF OptionRow
  <2>3. split[i] = anchored[i] \/ split[i] = [anchored[i] EXCEPT !.key = Multi(st.anchor[1])]
    BY <2>1
  <2>4. i \in DOMAIN split
    BY <2>1
  <2> HIDE DEF split
  <2>5. QED
    BY <1>7, <2>2, <2>3, <2>4 DEF KeepsRow
<1>9. \A i \in DOMAIN old : KeepsRow(text, old[i], old[i]) /\ ComesFrom(text, old, old[i])
  BY DEF KeepsRow, ComesFrom
<1>10. ASSUME NEW i \in DOMAIN split PROVE ComesFrom(text, old, split[i])
  <2>1. i \in DOMAIN anchored
    BY <1>10
  <2>2. anchored[i] \in OptionRow /\ ComesFrom(text, old, anchored[i])
    BY <1>6, <2>1 DEF StillRows
  <2>3. [anchored[i] EXCEPT !.key = Multi(st.anchor[1])].name = anchored[i].name
        /\ [anchored[i] EXCEPT !.key = Multi(st.anchor[1])].value = anchored[i].value
    BY <2>2 DEF OptionRow
  <2>4. split[i] = anchored[i] \/ split[i] = [anchored[i] EXCEPT !.key = Multi(st.anchor[1])]
    BY <2>1
  <2> HIDE DEF split
  <2>5. QED
    BY <2>2, <2>3, <2>4 DEF ComesFrom
<1> HIDE DEF split
<1>11. QED
  BY <1>4, <1>8, <1>9, <1>10

-----------------------------------------------------------------------------
(* Scenarios.                                                              *)

\* Rows without the data of a stranger, and the states a text leads through: its rows, some
\* of which scenarios have taken.
OwnRow == {r \in OptionRow : r.whose \in {r.name, "nobody"}}
MoveState == {st \in [rows : Seq(OwnRow), taken : SUBSET Nat] : st.taken \subseteq DOMAIN st.rows}

\* What a row says, and what the taken ones say.
Says(r) == <<r.name, r.value, r.key>>
Took(rows, taken) == {Says(rows[i]) : i \in taken}

\* The rows that nobody has taken are those of before.
RestOf(old, rows, taken) == \A i \in DOMAIN rows \ taken : i \in DOMAIN old /\ rows[i] = old[i]

LEMMA OwnRows ==
  ASSUME NEW rows \in Seq(OwnRow)
  PROVE  /\ rows \in Seq(OptionRow) /\ Len(rows) \in Nat /\ DOMAIN rows = 1 .. Len(rows)
         /\ \A i \in DOMAIN rows : rows[i] \in OwnRow /\ rows[i] \in OptionRow
<1>1. OwnRow \subseteq OptionRow
  BY DEF OwnRow
<1> HIDE DEF OwnRow
<1>2. QED
  BY <1>1

\* A copy, and what stays.
LEMMA OwnCloned ==
  ASSUME NEW rows \in Seq(OwnRow), NEW name \in Word, NEW value \in Int
  PROVE  /\ Cloned(rows, name, value) \in Seq(OwnRow)
         /\ Len(Cloned(rows, name, value)) = Len(rows) + 1
         /\ \A i \in DOMAIN rows : /\ i \in DOMAIN Cloned(rows, name, value)
                                   /\ Cloned(rows, name, value)[i] = rows[i]
         /\ Len(rows) + 1 \in DOMAIN Cloned(rows, name, value)
         /\ Cloned(rows, name, value)[Len(rows) + 1].name = name
         /\ Cloned(rows, name, value)[Len(rows) + 1].key = Default
<1> DEFINE same == Named(rows, name)
           near == Nearest(rows, same, value)
           whose == IF same = {} THEN "nobody" ELSE rows[near].whose
           row == [name |-> name, key |-> Default, value |-> value, whose |-> whose]
<1>1. same \subseteq DOMAIN rows /\ \A i \in same : rows[i].name = name
  BY DEF Named
<1>2. same # {} => near \in same
  BY <1>1, OwnRows, NearestIn
<1> HIDE DEF same, near
<1>3. "nobody" \in Word
  BY DEF Word
<1>4. whose \in Word /\ whose \in {name, "nobody"}
  <2>1. CASE same = {}
    BY <1>3, <2>1
  <2>2. CASE same # {}
    <3>1. rows[near] \in OwnRow /\ rows[near].name = name
      BY <1>1, <1>2, <2>2, OwnRows
    <3>2. rows[near].whose \in Word /\ rows[near].whose \in {name, "nobody"}
      BY <3>1 DEF OwnRow, OptionRow
    <3>3. QED
      BY <2>2, <3>2
  <2>3. QED
    BY <2>1, <2>2
<1>5. Default \in Seq(Word)
  BY KeysAreSequences
<1>6. Cloned(rows, name, value) = Append(rows, row)
  BY DEF Cloned, same, near
<1> HIDE DEF whose
<1>7. row \in OptionRow
  BY <1>4, <1>5 DEF OptionRow
<1>8. row.whose \in {row.name, "nobody"} /\ row.name = name /\ row.key = Default
  BY <1>4
<1>9. row \in OwnRow
  BY <1>7, <1>8 DEF OwnRow
<1> HIDE DEF row
<1>10. QED
  BY <1>6, <1>8, <1>9, OwnRows

\* The rows with one moved to a key.
KeyedRow(rows, at, value, key) == [rows EXCEPT ![at].value = value, ![at].key = key]

\* A row moved to a key keeps its owner.
LEMMA RowKeyed ==
  ASSUME NEW rows \in Seq(OwnRow), NEW at \in DOMAIN rows, NEW value \in Int, NEW key \in Seq(Word)
  PROVE  LET r == KeyedRow(rows, at, value, key)
         IN /\ r \in Seq(OwnRow) /\ DOMAIN r = DOMAIN rows
            /\ Says(r[at]) = <<rows[at].name, value, key>>
            /\ \A i \in DOMAIN rows \ {at} : r[i] = rows[i]
<1> DEFINE S == OwnRow
           r == KeyedRow(rows, at, value, key)
           row == [[rows[at] EXCEPT !.value = value] EXCEPT !.key = key]
<1>1. DOMAIN rows = 1 .. Len(rows) /\ Len(rows) \in Nat /\ \A i \in DOMAIN rows : rows[i] \in S
  BY OwnRows
<1>2. rows[at] \in OptionRow /\ rows[at].whose \in {rows[at].name, "nobody"}
  BY <1>1 DEF OwnRow
<1>3. row \in OptionRow /\ row.whose = rows[at].whose /\ row.name = rows[at].name
  BY <1>2 DEF OptionRow
<1>4. row.value = value /\ row.key = key
  BY <1>2 DEF OptionRow
<1>5. row \in S
  BY <1>2, <1>3 DEF OwnRow
<1>6. r = [i \in DOMAIN rows |-> IF i = at THEN row ELSE rows[i]]
  BY <1>1 DEF KeyedRow
<1> HIDE DEF r, S, row
<1>7. r \in [1 .. Len(rows) -> S] /\ r[at] = row /\ \A i \in DOMAIN rows \ {at} : r[i] = rows[i]
  BY <1>1, <1>5, <1>6
<1>8. r \in Seq(S) /\ DOMAIN r = DOMAIN rows
  BY <1>1, <1>7
<1>9. Says(r[at]) = <<rows[at].name, value, key>>
  BY <1>3, <1>4, <1>7 DEF Says
<1>10. QED
  BY <1>7, <1>8, <1>9 DEF r, S

\* A name of the text takes one row more, which says what the text says; the others stay.
LEMMA MovedRow ==
  ASSUME NEW st \in MoveState, NEW name \in Word, NEW value \in Int, NEW key \in Seq(Word)
  PROVE  LET m == Moved(st, name, value, key)
         IN /\ m \in MoveState
            /\ Took(m.rows, m.taken) = Took(st.rows, st.taken) \cup {<<name, value, key>>}
            /\ RestOf(st.rows, m.rows, m.taken) /\ DOMAIN st.rows \subseteq DOMAIN m.rows
            /\ st.taken \subseteq m.taken
<1> DEFINE found == Matching(st.rows, name, value, st.taken)
           rows == IF found = {} THEN Cloned(st.rows, name, value) ELSE st.rows
           at == IF found = {} THEN Len(rows) ELSE Nearest(rows, found, value)
           r == KeyedRow(rows, at, value, key)
           m == Moved(st, name, value, key)
<1>1. /\ st.rows \in Seq(OwnRow) /\ st.taken \subseteq DOMAIN st.rows /\ st.taken \in SUBSET Nat
      /\ DOMAIN st.rows = 1 .. Len(st.rows) /\ Len(st.rows) \in Nat
  BY OwnRows DEF MoveState
<1>2. m = [rows |-> r, taken |-> st.taken \cup {at}]
  BY Zenon DEF Moved, KeyedRow
<1>3. found \subseteq DOMAIN st.rows /\ \A i \in found : i \notin st.taken /\ st.rows[i].name = name
  BY DEF Matching, Named
<1>4. found # {} => Nearest(st.rows, found, value) \in found
  BY <1>1, <1>3, OwnRows, NearestIn
<1> HIDE DEF found
<1>5. /\ rows \in Seq(OwnRow) /\ at \in DOMAIN rows /\ at \notin st.taken /\ rows[at].name = name
      /\ DOMAIN st.rows \subseteq DOMAIN rows
      /\ \A i \in DOMAIN rows \ {at} : i \in DOMAIN st.rows /\ rows[i] = st.rows[i]
      /\ \A i \in DOMAIN st.rows : rows[i] = st.rows[i]
  <2>1. CASE found = {}
    <3> DEFINE c == Cloned(st.rows, name, value)
               n == Len(st.rows) + 1
    <3>1. /\ c \in Seq(OwnRow) /\ Len(c) = n /\ n \in DOMAIN c /\ c[n].name = name
          /\ \A i \in DOMAIN st.rows : i \in DOMAIN c /\ c[i] = st.rows[i]
      <4> DEFINE old == st.rows
      <4>1. old \in Seq(OwnRow)
        BY <1>1
      <4> HIDE DEF old, rows, at, r, m
      <4>2. /\ Cloned(old, name, value) \in Seq(OwnRow) /\ Len(Cloned(old, name, value)) = Len(old) + 1
            /\ Len(old) + 1 \in DOMAIN Cloned(old, name, value)
            /\ Cloned(old, name, value)[Len(old) + 1].name = name
            /\ \A i \in DOMAIN old : /\ i \in DOMAIN Cloned(old, name, value)
                                    /\ Cloned(old, name, value)[i] = old[i]
        BY <4>1, OwnCloned
      <4>3. QED
        BY <4>2 DEF old
    <3>2. rows = c /\ at = Len(c)
      BY <2>1
    <3> HIDE DEF c, rows, at
    <3>3. DOMAIN c = 1 .. n /\ n \notin st.taken
      BY <1>1, <3>1, OwnRows
    <3>4. \A i \in DOMAIN c \ {n} : i \in DOMAIN st.rows
      BY <1>1, <3>3
    <3>5. QED
      BY <3>1, <3>2, <3>3, <3>4
  <2>2. CASE found # {}
    <3>1. rows = st.rows /\ at = Nearest(st.rows, found, value)
      BY <2>2
    <3> HIDE DEF rows, at
    <3>2. QED
      BY <1>1, <1>3, <1>4, <2>2, <3>1
  <2>3. QED
    BY <2>1, <2>2
<1> HIDE DEF rows, at
<1>6. /\ r \in Seq(OwnRow) /\ DOMAIN r = DOMAIN rows /\ Says(r[at]) = <<name, value, key>>
      /\ \A i \in DOMAIN rows \ {at} : r[i] = rows[i]
  BY <1>5, RowKeyed
<1> DEFINE more == st.taken \cup {at}
<1> HIDE DEF r
<1>7. m \in MoveState
  <2>1. more \subseteq DOMAIN r /\ more \in SUBSET Nat
    BY <1>1, <1>5, <1>6, OwnRows
  <2> HIDE DEF m
  <2>2. QED
    BY <1>2, <1>6, <2>1 DEF MoveState
<1>8. m.rows = r /\ m.taken = more
  BY <1>2
<1> HIDE DEF m
<1>9. Took(r, more) = Took(st.rows, st.taken) \cup {<<name, value, key>>}
  <2>1. \A i \in st.taken : r[i] = st.rows[i]
    BY <1>1, <1>5, <1>6
  <2>2. QED
    BY <1>6, <2>1 DEF Took
<1>10. RestOf(st.rows, r, more)
  BY <1>5, <1>6 DEF RestOf
<1>11. QED
  BY <1>5, <1>6, <1>7, <1>8, <1>9, <1>10 DEF m

\* The items of a list, and the pairs, are gone through one after the other.
ItemsStay(S, T, key) == \A a \in S, b \in T : Moved(a, b.name, b.value, key) \in S

LEMMA ItemsRun ==
  ASSUME NEW S, NEW T, NEW base \in S, NEW seq \in Seq(T), NEW key,
         ItemsStay(S, T, key)
  PROVE  \E run \in [0 .. Len(seq) -> S] :
           /\ run[0] = base
           /\ \A k \in 0 .. Len(seq) - 1 : run[k + 1] = Moved(run[k], seq[k + 1].name, seq[k + 1].value, key)
           /\ MovedItems(base, seq, key) = run[Len(seq)]
<1> DEFINE step == [p \in S \X T |-> Moved(p[1], p[2].name, p[2].value, key)]
           Rec(f) == [s \in SUBSET DOMAIN seq |->
                        IF s = {} THEN base ELSE Moved(f[s \ {Max(s)}], seq[Max(s)].name, seq[Max(s)].value, key)]
           iter == CHOOSE f : f = Rec(f)
<1>1. MovedItems(base, seq, key) = iter[DOMAIN seq]
  BY Zenon DEF FoldLeft, MapThenFoldSet, MovedItems
<1>2. Foldable(S, T, base, step, seq)
  <2>1. step \in [S \X T -> S]
    BY DEF ItemsStay
  <2> HIDE DEF step
  <2>2. QED
    BY <2>1 DEF Foldable
<1>3. \A a \in S, b \in T : step[<<a, b>>] = Moved(a, b.name, b.value, key)
  OBVIOUS
<1>4. \A s \in SUBSET DOMAIN seq :
        s # {} => s \ {Max(s)} \in SUBSET DOMAIN seq /\ seq[Max(s)] \in T
  BY LastIndex
<1> HIDE DEF step
<1>5. PICK h : h \in [SUBSET DOMAIN seq -> S] /\ FoldsSets(h, base, step, seq)
  BY <1>2, FoldExists
<1>6. h = Rec(h)
  <2>1. \A s \in SUBSET DOMAIN seq :
          h[s] = IF s = {} THEN base ELSE Moved(h[s \ {Max(s)}], seq[Max(s)].name, seq[Max(s)].value, key)
    BY <1>3, <1>4, <1>5 DEF FoldsSets
  <2>2. h = [s \in SUBSET DOMAIN seq |-> h[s]]
    BY <1>5
  <2>3. QED
    BY <2>1, <2>2
<1>7. iter = Rec(iter)
  <2> HIDE DEF Rec
  <2>1. QED
    BY <1>6
<1> HIDE DEF iter
<1>8. FoldsWithin(iter, S, base, step, seq)
  <2>1. Rec(iter)[{}] = base
    OBVIOUS
  <2>2. ASSUME NEW s \in SUBSET DOMAIN seq, s # {}, iter[s \ {Max(s)}] \in S
        PROVE  Rec(iter)[s] = step[<<iter[s \ {Max(s)}], seq[Max(s)]>>]
    <3>1. Rec(iter)[s] = Moved(iter[s \ {Max(s)}], seq[Max(s)].name, seq[Max(s)].value, key)
      BY <2>2
    <3> HIDE DEF Rec
    <3>2. QED
      BY <1>3, <1>4, <2>2, <3>1
  <2> HIDE DEF Rec
  <2>3. QED
    BY <1>7, <2>1, <2>2 DEF FoldsWithin
<1> HIDE DEF Rec
<1>9. PICK run : RunsThrough(run, S, base, step, seq) /\ run[Len(seq)] = iter[DOMAIN seq]
  BY <1>2, <1>8, FoldRuns
<1>10. run \in [0 .. Len(seq) -> S] /\ run[0] = base
       /\ \A k \in 0 .. Len(seq) - 1 : run[k + 1] = Moved(run[k], seq[k + 1].name, seq[k + 1].value, key)
  <2>1. ASSUME NEW k \in 0 .. Len(seq) - 1 PROVE run[k] \in S /\ seq[k + 1] \in T
    <3>1. run \in [0 .. Len(seq) -> S]
      BY <1>9 DEF RunsThrough
    <3>2. Len(seq) \in Nat /\ DOMAIN seq = 1 .. Len(seq) /\ \A i \in DOMAIN seq : seq[i] \in T
      OBVIOUS
    <3>3. k \in 0 .. Len(seq) /\ k + 1 \in DOMAIN seq
      BY <3>2
    <3>4. QED
      BY <3>1, <3>2, <3>3
  <2>2. QED
    BY <1>3, <1>9, <2>1 DEF RunsThrough
<1>11. QED
  BY <1>1, <1>9, <1>10

PairMoved(st, p) ==
  LET key == HeadToHead(p.left, p.right)
      left == Moved(st, p.left, p.leftValue, key)
  IN Moved(left, p.right, p.rightValue, key)

RacesStay(S, T) == \A a \in S, b \in T : PairMoved(a, b) \in S

LEMMA RacesRun ==
  ASSUME NEW S, NEW T, NEW rows, [rows |-> rows, taken |-> {}] \in S,
         NEW seq \in Seq(T), RacesStay(S, T)
  PROVE  \E run \in [0 .. Len(seq) -> S] :
           /\ run[0] = [rows |-> rows, taken |-> {}]
           /\ \A k \in 0 .. Len(seq) - 1 : run[k + 1] = PairMoved(run[k], seq[k + 1])
           /\ PairsMoved(rows, seq) = run[Len(seq)]
<1> DEFINE base == [rows |-> rows, taken |-> {}]
           step == [p \in S \X T |-> PairMoved(p[1], p[2])]
           Rec(f) == [s \in SUBSET DOMAIN seq |->
                        IF s = {} THEN base ELSE PairMoved(f[s \ {Max(s)}], seq[Max(s)])]
           iter == CHOOSE f : f = Rec(f)
<1>1. PairsMoved(rows, seq) = iter[DOMAIN seq]
  BY Zenon DEF FoldLeft, MapThenFoldSet, PairsMoved, PairMoved
<1>2. Foldable(S, T, base, step, seq)
  <2>1. step \in [S \X T -> S]
    BY DEF RacesStay
  <2> HIDE DEF step
  <2>2. QED
    BY <2>1 DEF Foldable
<1>3. \A a \in S, b \in T : step[<<a, b>>] = PairMoved(a, b)
  OBVIOUS
<1>4. \A s \in SUBSET DOMAIN seq :
        s # {} => s \ {Max(s)} \in SUBSET DOMAIN seq /\ seq[Max(s)] \in T
  BY LastIndex
<1> HIDE DEF step
<1>5. PICK h : h \in [SUBSET DOMAIN seq -> S] /\ FoldsSets(h, base, step, seq)
  BY <1>2, FoldExists
<1>6. h = Rec(h)
  <2>1. \A s \in SUBSET DOMAIN seq :
          h[s] = IF s = {} THEN base ELSE PairMoved(h[s \ {Max(s)}], seq[Max(s)])
    BY <1>3, <1>4, <1>5 DEF FoldsSets
  <2>2. h = [s \in SUBSET DOMAIN seq |-> h[s]]
    BY <1>5
  <2>3. QED
    BY <2>1, <2>2
<1>7. iter = Rec(iter)
  <2> HIDE DEF Rec
  <2>1. QED
    BY <1>6
<1> HIDE DEF iter
<1>8. FoldsWithin(iter, S, base, step, seq)
  <2>1. Rec(iter)[{}] = base
    OBVIOUS
  <2>2. ASSUME NEW s \in SUBSET DOMAIN seq, s # {}, iter[s \ {Max(s)}] \in S
        PROVE  Rec(iter)[s] = step[<<iter[s \ {Max(s)}], seq[Max(s)]>>]
    <3>1. Rec(iter)[s] = PairMoved(iter[s \ {Max(s)}], seq[Max(s)])
      BY <2>2
    <3> HIDE DEF Rec
    <3>2. QED
      BY <1>3, <1>4, <2>2, <3>1
  <2> HIDE DEF Rec
  <2>3. QED
    BY <1>7, <2>1, <2>2 DEF FoldsWithin
<1> HIDE DEF Rec
<1>9. PICK run : RunsThrough(run, S, base, step, seq) /\ run[Len(seq)] = iter[DOMAIN seq]
  BY <1>2, <1>8, FoldRuns
<1>10. run \in [0 .. Len(seq) -> S] /\ run[0] = base
       /\ \A k \in 0 .. Len(seq) - 1 : run[k + 1] = PairMoved(run[k], seq[k + 1])
  <2>1. ASSUME NEW k \in 0 .. Len(seq) - 1 PROVE run[k] \in S /\ seq[k + 1] \in T
    <3>1. run \in [0 .. Len(seq) -> S]
      BY <1>9 DEF RunsThrough
    <3>2. Len(seq) \in Nat /\ DOMAIN seq = 1 .. Len(seq) /\ \A i \in DOMAIN seq : seq[i] \in T
      OBVIOUS
    <3>3. k \in 0 .. Len(seq) /\ k + 1 \in DOMAIN seq
      BY <3>2
    <3>4. QED
      BY <3>1, <3>2, <3>3
  <2>2. QED
    BY <1>3, <1>9, <2>1 DEF RunsThrough
<1>11. QED
  BY <1>1, <1>9, <1>10

LEMMA RestStays ==
  ASSUME NEW a, NEW b, NEW c, NEW s, NEW t, s \subseteq t, RestOf(a, b, s), RestOf(b, c, t)
  PROVE  RestOf(a, c, t)
BY DEF RestOf

\* What a list says, each item under the key.
SaidItems(items, n, key) == {<<items[i].name, items[i].value, key>> : i \in 1 .. n}

\* Every item of a list takes a row.
LEMMA ItemsTake ==
  ASSUME NEW st \in MoveState, NEW items \in Seq(NamedValue), NEW key \in Seq(Word)
  PROVE  LET m == MovedItems(st, items, key)
         IN /\ m \in MoveState /\ RestOf(st.rows, m.rows, m.taken)
            /\ Took(m.rows, m.taken) = Took(st.rows, st.taken) \cup SaidItems(items, Len(items), key)
<1> DEFINE n == Len(items)
           next(s, k) == Moved(s, items[k].name, items[k].value, key)
<1>1. n \in Nat /\ DOMAIN items = 1 .. n /\ \A k \in 1 .. n : items[k] \in NamedValue
  OBVIOUS
<1>2. \A b \in NamedValue : b.name \in Word /\ b.value \in Int
  BY DEF NamedValue, Word
<1>3. \A s \in MoveState, b \in NamedValue : Moved(s, b.name, b.value, key) \in MoveState
  BY <1>2, MovedRow
<1>4. ItemsStay(MoveState, NamedValue, key)
  BY <1>3 DEF ItemsStay
<1> HIDE DEF MoveState, NamedValue
<1>5. PICK run \in [0 .. n -> MoveState] :
        /\ run[0] = st
        /\ \A k \in 0 .. n - 1 : run[k + 1] = next(run[k], k + 1)
        /\ MovedItems(st, items, key) = run[n]
  BY <1>4, ItemsRun
<1> HIDE DEF n
<1> DEFINE A == {k \in 0 .. n : /\ RestOf(st.rows, run[k].rows, run[k].taken)
                                /\ Took(run[k].rows, run[k].taken)
                                     = Took(st.rows, st.taken) \cup SaidItems(items, k, key)}
<1>6. 0 \in A
  <2>1. RestOf(st.rows, st.rows, st.taken)
    BY DEF RestOf
  <2>2. SaidItems(items, 0, key) = {}
    BY DEF SaidItems
  <2>3. QED
    BY <1>1, <1>5, <2>1, <2>2
<1>7. ASSUME NEW k \in 0 .. n - 1, k \in A PROVE k + 1 \in A
  <2> DEFINE s == run[k]
             m == run[k + 1]
             b == items[k + 1]
  <2>1. k + 1 \in 1 .. n /\ k \in 0 .. n /\ k + 1 \in 0 .. n
    BY <1>1
  <2>2. s \in MoveState /\ m \in MoveState /\ b \in NamedValue /\ m = Moved(s, b.name, b.value, key)
    BY <1>1, <1>5, <2>1
  <2>3. /\ RestOf(st.rows, s.rows, s.taken)
        /\ Took(s.rows, s.taken) = Took(st.rows, st.taken) \cup SaidItems(items, k, key)
    BY <1>7
  <2> HIDE DEF s, m
  <2>4. /\ Took(m.rows, m.taken) = Took(s.rows, s.taken) \cup {<<b.name, b.value, key>>}
        /\ RestOf(s.rows, m.rows, m.taken) /\ s.taken \subseteq m.taken
    BY <1>2, <2>2, MovedRow
  <2>5. RestOf(st.rows, m.rows, m.taken)
    BY <2>3, <2>4, RestStays
  <2>6. SaidItems(items, k + 1, key) = SaidItems(items, k, key) \cup {<<b.name, b.value, key>>}
    <3>1. 1 .. k + 1 = (1 .. k) \cup {k + 1}
      BY <1>1
    <3> HIDE DEF b
    <3>2. b = items[k + 1]
      BY DEF b
    <3>3. QED
      BY <3>1, <3>2 DEF SaidItems
  <2>7. QED
    BY <2>1, <2>3, <2>4, <2>5, <2>6 DEF m
<1>8. n \in A
  <2> HIDE DEF A
  <2>1. \A k \in 0 .. n : k \in A
    BY <1>1, <1>6, <1>7, UpTo
  <2>2. QED
    BY <1>1, <2>1
<1>9. run[n] \in MoveState
  BY <1>1, <1>5
<1>10. QED
  BY <1>5, <1>8, <1>9 DEF n

\* What a pair says, and the first n of them.
Duel(p) ==
  {<<p.left, p.leftValue, HeadToHead(p.left, p.right)>>,
   <<p.right, p.rightValue, HeadToHead(p.left, p.right)>>}
Duels(pairs, n) == UNION {Duel(pairs[i]) : i \in 1 .. n}

\* A pair takes two rows.
LEMMA PairTakes ==
  ASSUME NEW st \in MoveState, NEW p \in Race
  PROVE  LET m == PairMoved(st, p)
         IN /\ m \in MoveState /\ RestOf(st.rows, m.rows, m.taken) /\ st.taken \subseteq m.taken
            /\ Took(m.rows, m.taken) = Took(st.rows, st.taken) \cup Duel(p)
<1> DEFINE key == HeadToHead(p.left, p.right)
           left == Moved(st, p.left, p.leftValue, key)
           m == Moved(left, p.right, p.rightValue, key)
<1>1. p.left \in Word /\ p.right \in Word /\ p.leftValue \in Int /\ p.rightValue \in Int
  BY DEF Race, Word
<1>2. key \in Seq(Word)
  BY <1>1, KeysAreSequences
<1>3. PairMoved(st, p) = m
  BY Zenon DEF PairMoved
<1>4. Duel(p) = {<<p.left, p.leftValue, key>>} \cup {<<p.right, p.rightValue, key>>}
  BY DEF Duel
<1> HIDE DEF key
<1>5. /\ left \in MoveState /\ RestOf(st.rows, left.rows, left.taken) /\ st.taken \subseteq left.taken
      /\ Took(left.rows, left.taken) = Took(st.rows, st.taken) \cup {<<p.left, p.leftValue, key>>}
  <2> DEFINE name == p.left
             value == p.leftValue
  <2>1. name \in Word /\ value \in Int /\ left = Moved(st, name, value, key)
    BY <1>1
  <2> HIDE DEF left, name, value
  <2>2. /\ left \in MoveState /\ RestOf(st.rows, left.rows, left.taken) /\ st.taken \subseteq left.taken
        /\ Took(left.rows, left.taken) = Took(st.rows, st.taken) \cup {<<name, value, key>>}
    BY <1>2, <2>1, MovedRow
  <2>3. QED
    BY <2>2 DEF name, value
<1> HIDE DEF left
<1>6. /\ m \in MoveState /\ RestOf(left.rows, m.rows, m.taken) /\ left.taken \subseteq m.taken
      /\ Took(m.rows, m.taken) = Took(left.rows, left.taken) \cup {<<p.right, p.rightValue, key>>}
  BY <1>1, <1>2, <1>5, MovedRow
<1> HIDE DEF m
<1>7. RestOf(st.rows, m.rows, m.taken)
  BY <1>5, <1>6, RestStays
<1>8. QED
  BY <1>3, <1>4, <1>5, <1>6, <1>7

\* Every pair of a text takes its two rows.
LEMMA PairsTake ==
  ASSUME NEW rows \in Seq(OwnRow), NEW pairs \in Seq(Race)
  PROVE  LET m == PairsMoved(rows, pairs)
         IN /\ m \in MoveState /\ RestOf(rows, m.rows, m.taken)
            /\ Took(m.rows, m.taken) = Duels(pairs, Len(pairs))
<1> DEFINE n == Len(pairs)
           st == [rows |-> rows, taken |-> {}]
<1>1. n \in Nat /\ DOMAIN pairs = 1 .. n /\ \A k \in 1 .. n : pairs[k] \in Race
  OBVIOUS
<1>2. st \in MoveState
  BY DEF MoveState
<1>3. \A s \in MoveState, p \in Race : PairMoved(s, p) \in MoveState
  BY PairTakes
<1>4. RacesStay(MoveState, Race)
  BY <1>3 DEF RacesStay
<1> HIDE DEF MoveState, Race
<1>5. PICK run \in [0 .. n -> MoveState] :
        /\ run[0] = st
        /\ \A k \in 0 .. n - 1 : run[k + 1] = PairMoved(run[k], pairs[k + 1])
        /\ PairsMoved(rows, pairs) = run[n]
  BY <1>2, <1>4, RacesRun
<1> HIDE DEF n
<1> DEFINE A == {k \in 0 .. n : /\ RestOf(rows, run[k].rows, run[k].taken)
                                /\ Took(run[k].rows, run[k].taken) = Duels(pairs, k)}
<1>6. 0 \in A
  <2>1. RestOf(rows, rows, {}) /\ Took(rows, {}) = {} /\ Duels(pairs, 0) = {}
    BY DEF RestOf, Took, Duels
  <2>2. run[0].rows = rows /\ run[0].taken = {}
    BY <1>5
  <2>3. 0 \in 0 .. n
    BY <1>1
  <2>4. QED
    BY <2>1, <2>2, <2>3
<1>7. ASSUME NEW k \in 0 .. n - 1, k \in A PROVE k + 1 \in A
  <2> DEFINE s == run[k]
             m == run[k + 1]
             p == pairs[k + 1]
  <2>1. k + 1 \in 1 .. n /\ k \in 0 .. n /\ k + 1 \in 0 .. n
    BY <1>1
  <2>2. s \in MoveState /\ m \in MoveState /\ p \in Race /\ m = PairMoved(s, p)
    BY <1>1, <1>5, <2>1
  <2>3. RestOf(rows, s.rows, s.taken) /\ Took(s.rows, s.taken) = Duels(pairs, k)
    BY <1>7
  <2> HIDE DEF s, m
  <2>4. /\ Took(m.rows, m.taken) = Took(s.rows, s.taken) \cup Duel(p)
        /\ RestOf(s.rows, m.rows, m.taken) /\ s.taken \subseteq m.taken
    BY <2>2, PairTakes
  <2>5. RestOf(rows, m.rows, m.taken)
    BY <2>3, <2>4, RestStays
  <2>6. Duels(pairs, k + 1) = Duels(pairs, k) \cup Duel(p)
    <3>1. 1 .. k + 1 = (1 .. k) \cup {k + 1}
      BY <1>1
    <3>2. QED
      BY <3>1 DEF Duels
  <2>7. QED
    BY <2>1, <2>3, <2>4, <2>5, <2>6 DEF m
<1>8. n \in A
  <2> HIDE DEF A
  <2>1. \A k \in 0 .. n : k \in A
    BY <1>1, <1>6, <1>7, UpTo
  <2>2. QED
    BY <1>1, <2>1
<1>9. run[n] \in MoveState
  BY <1>1, <1>5
<1>10. QED
  BY <1>5, <1>8, <1>9 DEF n

\* Of the rows with one name and key, one is stored.
LEMMA LastStored ==
  ASSUME NEW T, NEW rows \in Seq(T), NEW i \in DOMAIN rows
  PROVE  \E r \in StoredRows(rows) : r.name = rows[i].name /\ r.key = rows[i].key
<1> DEFINE n == Len(rows)
           s == {k \in 1 .. n : rows[k].name = rows[i].name /\ rows[k].key = rows[i].key}
<1>1. n \in Nat /\ DOMAIN rows = 1 .. n
  OBVIOUS
<1>2. s \in SUBSET (1 .. n) /\ s # {}
  BY <1>1
<1> HIDE DEF n
<1>3. PICK x \in s : \A y \in s : y <= x
  <2> HIDE DEF s
  <2>1. QED
    BY <1>1, <1>2, GreatestIndex
<1>4. x \in DOMAIN rows /\ rows[x].name = rows[i].name /\ rows[x].key = rows[i].key
  BY <1>1
<1>5. ASSUME NEW k \in DOMAIN rows, k > x
      PROVE  <<rows[k].name, rows[k].key>> # <<rows[x].name, rows[x].key>>
  <2>1. k \notin s
    BY <1>1, <1>3, <1>5
  <2>2. QED
    BY <1>1, <1>4, <2>1
<1>6. rows[x] \in StoredRows(rows)
  BY <1>4, <1>5 DEF StoredRows
<1>7. QED
  BY <1>4, <1>6

\* The rows under a key say M, one value of each name.
SaysUnder(rows, key, M) ==
  /\ \A i \in DOMAIN rows : rows[i].key = key => <<rows[i].name, rows[i].value>> \in M
  /\ \A m \in M : \E i \in DOMAIN rows : rows[i].key = key /\ m = <<rows[i].name, rows[i].value>>
  /\ \A l, m \in M : l[1] = m[1] => l = m

\* What is stored under a key, when its rows agree on the value of each name.
LEMMA ValuesStored ==
  ASSUME NEW T, NEW rows \in Seq(T), NEW key, NEW M, SaysUnder(rows, key, M)
  PROVE  ValuesOf(rows, key) = M
<1>1. \A r \in StoredRows(rows) : \E i \in DOMAIN rows : r = rows[i]
  BY DEF StoredRows
<1>2. ASSUME NEW r \in RowsOf(rows, key) PROVE <<r.name, r.value>> \in M
  BY <1>1 DEF RowsOf, SaysUnder
<1>3. ASSUME NEW m \in M PROVE \E r \in RowsOf(rows, key) : m = <<r.name, r.value>>
  <2>1. PICK i \in DOMAIN rows : rows[i].key = key /\ m = <<rows[i].name, rows[i].value>>
    BY DEF SaysUnder
  <2>2. PICK r \in StoredRows(rows) : r.name = rows[i].name /\ r.key = key
    BY <2>1, LastStored
  <2>3. r \in RowsOf(rows, key)
    BY <2>2 DEF RowsOf
  <2>4. <<r.name, r.value>> \in M /\ <<r.name, r.value>>[1] = m[1]
    BY <1>2, <2>1, <2>2, <2>3
  <2>5. QED
    BY <2>3, <2>4 DEF SaysUnder
<1>4. QED
  BY <1>2, <1>3 DEF ValuesOf

\* Of rows there is a highest one.
LEMMA HighestIn ==
  ASSUME NEW rows \in Seq(OwnRow), NEW I, I \subseteq DOMAIN rows, I # {}
  PROVE  Highest(rows, I) \in I
<1> DEFINE n == Len(rows)
           v(i) == rows[i].value
           Upto(k) == I \cap (1 .. k)
           Best(i, J) == \A j \in J \ {i} : v(i) > v(j) \/ (v(i) = v(j) /\ i < j)
           A == {k \in 0 .. n : Upto(k) = {} \/ \E i \in Upto(k) : Best(i, Upto(k))}
<1>1. n \in Nat /\ DOMAIN rows = 1 .. n /\ I \subseteq 1 .. n /\ \A i \in 1 .. n : v(i) \in Int
  <2>1. \A r \in OwnRow : r.value \in Int
    BY DEF OwnRow, OptionRow
  <2>2. QED
    BY <2>1, OwnRows
<1> HIDE DEF n, v
<1>2. 0 \in A
  BY <1>1
<1>3. ASSUME NEW k \in 0 .. n - 1, k \in A PROVE k + 1 \in A
  <2>1. k + 1 \in 1 .. n /\ k \in Nat /\ 1 .. k + 1 = (1 .. k) \cup {k + 1}
        /\ k + 1 \in 0 .. n /\ \A i \in 1 .. k : i < k + 1 /\ i \in 1 .. n
    BY <1>1
  <2>2. CASE k + 1 \notin I
    <3>1. Upto(k + 1) = Upto(k)
      BY <2>1, <2>2
    <3>2. QED
      BY <1>3, <2>1, <3>1
  <2>3. CASE k + 1 \in I /\ Upto(k) = {}
    <3>1. Upto(k + 1) = {k + 1}
      BY <2>1, <2>3
    <3>2. QED
      BY <2>1, <3>1
  <2>4. CASE k + 1 \in I /\ Upto(k) # {}
    <3>1. PICK i \in Upto(k) : Best(i, Upto(k))
      BY <1>3, <2>4
    <3>2. Upto(k + 1) = Upto(k) \cup {k + 1} /\ i \in 1 .. k
      BY <2>1, <2>4
    <3>3. v(i) \in Int /\ v(k + 1) \in Int /\ \A j \in Upto(k) : v(j) \in Int
      BY <1>1, <2>1, <3>2
    <3>4. CASE v(k + 1) > v(i)
      <4>1. Best(k + 1, Upto(k + 1))
        BY <2>1, <3>1, <3>2, <3>3, <3>4
      <4>2. QED
        BY <2>1, <3>2, <4>1
    <3>5. CASE ~ (v(k + 1) > v(i))
      <4>1. v(i) > v(k + 1) \/ (v(i) = v(k + 1) /\ i < k + 1)
        BY <2>1, <3>2, <3>3, <3>5
      <4>2. Best(i, Upto(k + 1))
        BY <3>1, <3>2, <4>1
      <4>3. QED
        BY <2>1, <3>2, <4>2
    <3>6. QED
      BY <3>4, <3>5
  <2>5. QED
    BY <2>2, <2>3, <2>4
<1>4. n \in A
  <2> HIDE DEF A
  <2>1. \A k \in 0 .. n : k \in A
    BY <1>1, <1>2, <1>3, UpTo
  <2>2. QED
    BY <1>1, <2>1
<1>5. Upto(n) = I
  BY <1>1
<1>6. \E i \in I : \A j \in I \ {i} :
        rows[i].value > rows[j].value \/ (rows[i].value = rows[j].value /\ i < j)
  BY <1>4, <1>5 DEF v
<1>7. QED
  BY <1>6, Zenon DEF Highest

\* Where the default rows of a record go is a multi-candidate scenario.
LEMMA MultiKeyIs ==
  ASSUME NEW fixed \in Seq(OwnRow), fixed # <<>>,
         \A i \in DOMAIN fixed : fixed[i].key[1] = "h2h" => Len(fixed[i].key) >= 2
  PROVE  /\ MultiKey(fixed) \in Seq(Word) /\ MultiKey(fixed)[1] = "multi"
         /\ MultiKey(fixed) # Default
<1> DEFINE multis == Kept(fixed, {i \in DOMAIN fixed : IsMulti(fixed[i])})
           h2hs == Kept(fixed, {i \in DOMAIN fixed : fixed[i].key[1] = "h2h"})
           name == IF h2hs # <<>> THEN h2hs[1].key[2] ELSE fixed[1].name
<1>1. MultiKey(fixed) = IF multis # <<>> THEN multis[1].key ELSE Multi(name)
  BY Zenon DEF MultiKey
<1>2. \A r \in OwnRow : r.key \in Seq(Word) /\ r.name \in Word
  BY DEF OwnRow, OptionRow
<1>3. \A i \in DOMAIN fixed : fixed[i] \in OwnRow
  BY OwnRows
<1>4. multis # <<>> => multis[1].key \in Seq(Word) /\ multis[1].key[1] = "multi"
  <2>1. multis # <<>> => \E i \in {i \in DOMAIN fixed : IsMulti(fixed[i])} \cap DOMAIN fixed :
                            multis[1] = fixed[i]
    BY KeptHolds
  <2> HIDE DEF multis
  <2>2. QED
    BY <1>2, <1>3, <2>1 DEF IsMulti
<1>5. h2hs # <<>> => h2hs[1].key \in Seq(Word) /\ Len(h2hs[1].key) >= 2
  <2>1. h2hs # <<>> => \E i \in {i \in DOMAIN fixed : fixed[i].key[1] = "h2h"} \cap DOMAIN fixed :
                          h2hs[1] = fixed[i]
    BY KeptHolds
  <2> HIDE DEF h2hs
  <2>2. QED
    BY <1>2, <1>3, <2>1
<1> HIDE DEF multis, h2hs
<1>6. name \in Word
  <2>1. ASSUME h2hs # <<>> PROVE h2hs[1].key[2] \in Word
    <3> DEFINE q == h2hs[1].key
    <3>1. q \in Seq(Word) /\ Len(q) >= 2
      BY <1>5, <2>1
    <3> HIDE DEF q
    <3>2. q[2] \in Word
      BY <3>1
    <3>3. QED
      BY <3>2 DEF q
  <2>2. 1 \in DOMAIN fixed
    OBVIOUS
  <2>3. QED
    BY <1>2, <1>3, <2>1, <2>2
<1> HIDE DEF name
<1>7. Multi(name) \in Seq(Word) /\ Multi(name)[1] = "multi"
  BY <1>6, KeysAreSequences DEF Multi
<1>8. MultiKey(fixed) \in Seq(Word) /\ MultiKey(fixed)[1] = "multi"
  BY <1>1, <1>4, <1>7
<1>9. Default[1] = "default"
  BY DEF Default
<1>10. QED
  BY <1>8, <1>9

NoDefault(rows) == \A i \in DOMAIN rows : rows[i].key # Default
WhoseOwn(rows) == \A i \in DOMAIN rows : rows[i].whose \in {rows[i].name, "nobody"}

\* What the explicit and the default rows are.
LEMMA ExplicitAndDefault ==
  ASSUME NEW T, NEW rows \in Seq(T)
  PROVE  /\ Explicit(rows) \in Seq(T) /\ Defaults(rows) \in Seq(T)
         /\ \A i \in DOMAIN Explicit(rows) : Explicit(rows)[i].key # Default
         /\ \A x : Holds(Explicit(rows), x) => Holds(rows, x)
         /\ Explicit(rows) = <<>> <=> \A i \in DOMAIN rows : rows[i].key = Default
         /\ Defaults(rows) = <<>> <=> NoDefault(rows)
<1> DEFINE I == {i \in DOMAIN rows : rows[i].key # Default}
           J == {i \in DOMAIN rows : rows[i].key = Default}
           e == Kept(rows, I)
           d == Kept(rows, J)
<1>1. e \in Seq(T) /\ (\A x : Holds(e, x) <=> \E i \in I \cap DOMAIN rows : rows[i] = x)
      /\ (e = <<>> <=> I \cap DOMAIN rows = {})
  BY KeptHolds
<1>2. d \in Seq(T) /\ (d = <<>> <=> J \cap DOMAIN rows = {})
  BY KeptHolds
<1> HIDE DEF e, d
<1>3. \A i \in DOMAIN e : e[i].key # Default
  <2> SUFFICES ASSUME NEW i \in DOMAIN e PROVE e[i].key # Default
    OBVIOUS
  <2>1. Holds(e, e[i])
    BY DEF Holds
  <2>2. PICK j \in I : rows[j] = e[i]
    BY <1>1, <2>1
  <2>3. QED
    BY <2>2
<1>4. \A x : Holds(e, x) => Holds(rows, x)
  BY <1>1 DEF Holds
<1>5. e = <<>> <=> \A i \in DOMAIN rows : rows[i].key = Default
  BY <1>1
<1>6. d = <<>> <=> NoDefault(rows)
  BY <1>2 DEF NoDefault
<1>7. Explicit(rows) = e /\ Defaults(rows) = d
  BY DEF Explicit, Defaults, e, d
<1>8. QED
  BY <1>1, <1>2, <1>3, <1>4, <1>5, <1>6, <1>7

\* What the listed names, and what the names of the default rows, make of the explicit rows.
ListPass(fixed, items, key, listed, c) ==
  /\ listed = MovedItems([rows |-> fixed, taken |-> {}], items, key)
  /\ c = Kept(listed.rows, {i \in DOMAIN listed.rows :
                              listed.rows[i].key = key => i \in listed.taken})

DefaultPass(fixed, defaults, key, added, c) ==
  /\ added = BestDefaults(defaults, {fixed[i].name : i \in {j \in DOMAIN fixed : fixed[j].key = key}})
  /\ c = fixed \o [k \in DOMAIN added |-> [added[k] EXCEPT !.key = key]]

\* The listed names are the multi-candidate scenario.
LEMMA ListedSplits ==
  ASSUME NEW fixed \in Seq(OwnRow), NoDefault(fixed), NEW key \in Seq(Word), key # Default,
         NEW items \in Seq(NamedValue),
         \A i, j \in DOMAIN items : i # j => items[i].name # items[j].name,
         NEW listed, NEW c, ListPass(fixed, items, key, listed, c)
  PROVE  /\ c \in Seq(OwnRow) /\ NoDefault(c)
         /\ ValuesOf(c, key) = {<<items[i].name, items[i].value>> : i \in DOMAIN items}
<1> DEFINE st == [rows |-> fixed, taken |-> {}]
           M == {<<items[i].name, items[i].value>> : i \in DOMAIN items}
           I == {i \in DOMAIN listed.rows : listed.rows[i].key = key => i \in listed.taken}
<1>1. st \in MoveState
  BY DEF MoveState
<1>2. /\ listed \in MoveState /\ RestOf(st.rows, listed.rows, listed.taken)
      /\ Took(listed.rows, listed.taken) = Took(st.rows, st.taken) \cup SaidItems(items, Len(items), key)
  <2> HIDE DEF st
  <2>1. listed = MovedItems(st, items, key)
    BY DEF st, ListPass
  <2>2. QED
    BY <1>1, <2>1, ItemsTake
<1>3. st.rows = fixed /\ Took(st.rows, st.taken) = {}
  BY DEF Took
<1>4. DOMAIN items = 1 .. Len(items)
  OBVIOUS
<1>5. /\ \A i \in listed.taken : \E k \in DOMAIN items :
           Says(listed.rows[i]) = <<items[k].name, items[k].value, key>>
      /\ \A k \in DOMAIN items : \E i \in listed.taken :
           Says(listed.rows[i]) = <<items[k].name, items[k].value, key>>
  BY <1>2, <1>3, <1>4 DEF Took, SaidItems
<1>6. /\ listed.rows \in Seq(OwnRow) /\ listed.taken \subseteq DOMAIN listed.rows
  BY <1>2 DEF MoveState
<1>7. c \in Seq(OwnRow) /\ \A x : Holds(c, x) <=> \E i \in I \cap DOMAIN listed.rows : listed.rows[i] = x
  <2>1. c = Kept(listed.rows, I)
    BY DEF ListPass
  <2> HIDE DEF I
  <2>2. QED
    BY <1>6, <2>1, KeptHolds
<1> HIDE DEF st
<1>8. NoDefault(c)
  <2> SUFFICES ASSUME NEW k \in DOMAIN c PROVE c[k].key # Default
    BY DEF NoDefault
  <2>1. Holds(c, c[k])
    BY DEF Holds
  <2>2. PICK i \in I : listed.rows[i] = c[k] /\ i \in DOMAIN listed.rows
    BY <1>7, <2>1
  <2>3. CASE i \in listed.taken
    BY <1>5, <2>2, <2>3 DEF Says
  <2>4. CASE i \notin listed.taken
    BY <1>2, <1>3, <2>2, <2>4 DEF RestOf, NoDefault
  <2>5. QED
    BY <2>3, <2>4
<1>9. ASSUME NEW k \in DOMAIN c, c[k].key = key PROVE <<c[k].name, c[k].value>> \in M
  <2>1. Holds(c, c[k])
    BY DEF Holds
  <2>2. PICK i \in I : listed.rows[i] = c[k]
    BY <1>7, <2>1
  <2>3. i \in listed.taken
    BY <1>9, <2>2
  <2>4. QED
    BY <1>5, <2>2, <2>3 DEF Says
<1>10. ASSUME NEW m \in M PROVE \E k \in DOMAIN c : c[k].key = key /\ m = <<c[k].name, c[k].value>>
  <2>1. PICK k \in DOMAIN items : m = <<items[k].name, items[k].value>>
    OBVIOUS
  <2>2. PICK i \in listed.taken : Says(listed.rows[i]) = <<items[k].name, items[k].value, key>>
    BY <1>5
  <2>3. i \in I \cap DOMAIN listed.rows
    BY <1>6, <2>2
  <2>4. Holds(c, listed.rows[i])
    BY <1>7, <2>3
  <2>5. PICK x \in DOMAIN c : c[x] = listed.rows[i]
    BY <2>4 DEF Holds
  <2>6. QED
    BY <2>1, <2>2, <2>5 DEF Says
<1>11. ASSUME NEW l \in M, NEW m \in M, l[1] = m[1] PROVE l = m
  BY <1>11
<1> HIDE DEF M
<1>12. SaysUnder(c, key, M)
  BY <1>9, <1>10, <1>11 DEF SaysUnder
<1>13. ValuesOf(c, key) = M
  BY <1>7, <1>12, ValuesStored
<1>14. QED
  BY <1>7, <1>8, <1>13 DEF M

\* Without a list, the default rows follow, the best of each name that has none there.
LEMMA AddedSplits ==
  ASSUME NEW fixed \in Seq(OwnRow), NoDefault(fixed), NEW key \in Seq(Word), key # Default,
         NEW defaults \in Seq(OwnRow), NEW added, NEW c, DefaultPass(fixed, defaults, key, added, c)
  PROVE  /\ c \in Seq(OwnRow) /\ NoDefault(c)
         /\ \A d \in DOMAIN defaults : \E i \in DOMAIN c :
              c[i].name = defaults[d].name /\ c[i].key = key
<1> DEFINE present == {fixed[i].name : i \in {j \in DOMAIN fixed : fixed[j].key = key}}
           I == {i \in DOMAIN defaults : /\ defaults[i].name \notin present
                                         /\ i = Highest(defaults, Named(defaults, defaults[i].name))}
           more == [k \in DOMAIN added |-> [added[k] EXCEPT !.key = key]]
<1>1. added \in Seq(OwnRow) /\ \A x : Holds(added, x) <=> \E i \in I \cap DOMAIN defaults : defaults[i] = x
  <2>1. added = Kept(defaults, I)
    BY Zenon DEF DefaultPass, BestDefaults
  <2> HIDE DEF I
  <2>2. QED
    BY <2>1, KeptHolds
<1>2. ASSUME NEW k \in DOMAIN added
      PROVE  /\ [added[k] EXCEPT !.key = key] \in OwnRow
             /\ [added[k] EXCEPT !.key = key].key = key
             /\ [added[k] EXCEPT !.key = key].name = added[k].name
  <2>1. added[k] \in OptionRow /\ added[k].whose \in {added[k].name, "nobody"}
    BY <1>1, OwnRows DEF OwnRow
  <2> DEFINE r == [added[k] EXCEPT !.key = key]
  <2>2. r \in OptionRow /\ r.whose = added[k].whose /\ r.name = added[k].name /\ r.key = key
    BY <2>1 DEF OptionRow
  <2> HIDE DEF r
  <2>3. r \in OwnRow
    BY <2>1, <2>2 DEF OwnRow
  <2>4. QED
    BY <2>2, <2>3 DEF r
<1>3. Len(added) \in Nat /\ DOMAIN added = 1 .. Len(added)
  BY <1>1
<1>4. /\ more \in Seq(OwnRow) /\ DOMAIN more = DOMAIN added
      /\ \A k \in DOMAIN added : more[k].key = key /\ more[k].name = added[k].name
  <2> DEFINE S == OwnRow
  <2>1. \A k \in DOMAIN added : more[k] \in S /\ more[k].key = key /\ more[k].name = added[k].name
    BY <1>2
  <2>2. DOMAIN more = 1 .. Len(added) /\ more = [k \in 1 .. Len(added) |-> more[k]]
    BY <1>3
  <2> HIDE DEF S, more
  <2>3. more \in [1 .. Len(added) -> S]
    BY <1>3, <2>1, <2>2
  <2>4. more \in Seq(S)
    BY <1>3, <2>3
  <2>5. QED
    BY <1>3, <2>1, <2>2, <2>4 DEF S
<1>5. c = fixed \o more
  BY DEF DefaultPass
<1> HIDE DEF more
<1>6. /\ c \in Seq(OwnRow) /\ DOMAIN c = 1 .. Len(fixed) + Len(more)
      /\ Len(fixed) \in Nat /\ Len(more) \in Nat
      /\ DOMAIN fixed = 1 .. Len(fixed) /\ DOMAIN more = 1 .. Len(more)
      /\ \A i \in 1 .. Len(fixed) : c[i] = fixed[i]
      /\ \A i \in 1 .. Len(more) : c[Len(fixed) + i] = more[i] /\ Len(fixed) + i \in DOMAIN c
  <2> DEFINE S == OwnRow
  <2>1. fixed \in Seq(S) /\ more \in Seq(S)
    BY <1>4
  <2> HIDE DEF S
  <2>2. QED
    BY <1>5, <2>1 DEF S
<1>7. NoDefault(c)
  <2> SUFFICES ASSUME NEW i \in DOMAIN c PROVE c[i].key # Default
    BY DEF NoDefault
  <2>1. CASE i \in 1 .. Len(fixed)
    BY <1>6, <2>1 DEF NoDefault
  <2>2. CASE i \notin 1 .. Len(fixed)
    <3>1. i - Len(fixed) \in 1 .. Len(more) /\ Len(fixed) + (i - Len(fixed)) = i
      BY <1>6, <2>2
    <3>2. c[i] = more[i - Len(fixed)]
      BY <1>6, <3>1
    <3>3. QED
      BY <1>4, <1>6, <3>1, <3>2
  <2>3. QED
    BY <2>1, <2>2
<1>8. ASSUME NEW d \in DOMAIN defaults
      PROVE  \E i \in DOMAIN c : c[i].name = defaults[d].name /\ c[i].key = key
  <2> DEFINE name == defaults[d].name
             best == Highest(defaults, Named(defaults, name))
  <2>1. CASE name \in present
    <3>1. PICK i \in DOMAIN fixed : fixed[i].name = name /\ fixed[i].key = key
      BY <2>1
    <3>2. i \in DOMAIN c /\ c[i] = fixed[i]
      BY <1>6, <3>1
    <3>3. QED
      BY <3>1, <3>2
  <2>2. CASE name \notin present
    <3>1. best \in Named(defaults, name)
      <4>1. Named(defaults, name) \subseteq DOMAIN defaults /\ d \in Named(defaults, name)
        BY DEF Named
      <4>2. QED
        BY <4>1, HighestIn
    <3>2. best \in DOMAIN defaults /\ defaults[best].name = name
      BY <3>1 DEF Named
    <3>3. best \in I
      BY <2>2, <3>2
    <3> HIDE DEF best, I
    <3>4. Holds(added, defaults[best])
      BY <1>1, <3>2, <3>3
    <3>5. PICK k \in DOMAIN added : added[k] = defaults[best]
      BY <3>4 DEF Holds
    <3>6. more[k].key = key /\ more[k].name = name /\ k \in 1 .. Len(more)
      BY <1>4, <1>6, <3>2, <3>5
    <3>7. QED
      BY <1>6, <3>6
  <2>3. QED
    BY <2>1, <2>2
<1>9. QED
  BY <1>6, <1>7, <1>8

\* What a text may say.
LEMMA TextParts ==
  ASSUME NEW text \in ScenarioText(STRING, Int)
  PROVE  /\ text.pairs \in Seq(Race) /\ text.items \in Seq(NamedValue) /\ text.anchor \in Seq(NamedValue)
         /\ text.multi \in BOOLEAN /\ text.twoway \in BOOLEAN
         /\ \A i \in DOMAIN text.pairs : text.pairs[i].left # text.pairs[i].right
         /\ \A i, j \in DOMAIN text.items : i # j => text.items[i].name # text.items[j].name
<1> DEFINE RaceRows == [left : STRING, leftValue : Int, right : STRING, rightValue : Int]
           pairs == text.pairs
           R == Race
<1>1. /\ pairs \in Seq(RaceRows) /\ text.items \in Seq(NamedValue) /\ text.anchor \in Seq(NamedValue)
      /\ text.multi \in BOOLEAN /\ text.twoway \in BOOLEAN
      /\ \A i \in DOMAIN pairs : pairs[i].left # pairs[i].right
      /\ \A i, j \in DOMAIN text.items : i # j => text.items[i].name # text.items[j].name
  BY DEF ScenarioText, NamedValue
<1>2. \A r \in RaceRows : r.left # r.right => r \in R
  BY DEF Race
<1> HIDE DEF pairs, RaceRows, R
<1>3. pairs \in [1 .. Len(pairs) -> R] /\ Len(pairs) \in Nat
  BY <1>1, <1>2
<1>4. pairs \in Seq(R)
  BY <1>3
<1>5. QED
  BY <1>1, <1>4 DEF pairs, R

Different(pairs) ==
  \A i, j \in DOMAIN pairs :
    i # j => {pairs[i].left, pairs[i].right} # {pairs[j].left, pairs[j].right}

KeyOfPair(p) == HeadToHead(p.left, p.right)

\* The rows under the key of the pair i are of pairs, and the two of this one are among them.
DuelSaid(rows, pairs, i) ==
  /\ \A k \in DOMAIN rows : rows[k].key = KeyOfPair(pairs[i]) =>
       \E j \in DOMAIN pairs : Says(rows[k]) \in Duel(pairs[j])
  /\ \A w \in Duel(pairs[i]) : \E k \in DOMAIN rows : Says(rows[k]) = w

\* Then the pair has its own two values and no others.
LEMMA DuelStored ==
  ASSUME NEW T, NEW rows \in Seq(T), NEW pairs \in Seq(Race), Different(pairs),
         NEW i \in DOMAIN pairs, pairs[i].left # pairs[i].right, DuelSaid(rows, pairs, i)
  PROVE  ValuesOf(rows, KeyOfPair(pairs[i])) = PairRows(pairs[i])
<1> DEFINE p == pairs[i]
           key == KeyOfPair(p)
           M == PairRows(p)
<1>1. ASSUME NEW k \in DOMAIN rows, rows[k].key = key PROVE <<rows[k].name, rows[k].value>> \in M
  <2>1. PICK j \in DOMAIN pairs : Says(rows[k]) \in Duel(pairs[j])
    BY <1>1 DEF DuelSaid
  <2>2. rows[k].key = HeadToHead(pairs[j].left, pairs[j].right)
    BY <2>1 DEF Duel, Says
  <2>3. pairs[j].left = p.left /\ pairs[j].right = p.right
    BY <1>1, <2>2 DEF HeadToHead, KeyOfPair
  <2>4. i = j
    BY <2>3 DEF Different
  <2>5. Says(rows[k]) \in Duel(p)
    BY <2>1, <2>4
  <2> HIDE DEF p
  <2>6. QED
    BY <2>5 DEF Duel, Says, PairRows
<1>2. ASSUME NEW m \in M PROVE \E k \in DOMAIN rows : rows[k].key = key /\ m = <<rows[k].name, rows[k].value>>
  <2>1. \A w \in Duel(p) : \E k \in DOMAIN rows : Says(rows[k]) = w
    BY DEF DuelSaid
  <2> HIDE DEF p
  <2>2. PICK w \in Duel(p) : w = <<m[1], m[2], key>> /\ m = <<m[1], m[2]>>
    BY DEF Duel, PairRows, KeyOfPair
  <2>3. PICK k \in DOMAIN rows : Says(rows[k]) = w
    BY <2>1, <2>2
  <2>4. rows[k].name = m[1] /\ rows[k].value = m[2] /\ rows[k].key = key
    BY <2>2, <2>3 DEF Says
  <2>5. QED
    BY <2>2, <2>4
<1>3. ASSUME NEW l \in M, NEW m \in M, l[1] = m[1] PROVE l = m
  BY <1>3 DEF PairRows
<1> HIDE DEF M
<1>4. SaysUnder(rows, key, M)
  BY <1>1, <1>2, <1>3 DEF SaysUnder
<1> HIDE DEF key
<1>5. ValuesOf(rows, key) = M
  BY <1>4, ValuesStored
<1>6. QED
  BY <1>5 DEF M, key, p

\* With two pairs or more and a list, the scenarios are what the text says and nothing else.
LEMMA PairsListed ==
  ASSUME NEW rows \in Seq(OwnRow), NEW text \in ScenarioText(STRING, Int),
         Len(text.pairs) >= 2, text.items # <<>>, NEW c, c = SplitByPairs(rows, text)
  PROVE  /\ c \in Seq(OwnRow)
         /\ \A k \in DOMAIN c : c[k].key \in {HeadToHead(p.left, p.right) : p \in Pairs(text)}
                                               \cup {Multi(text.pairs[1].left)}
         /\ ValuesOf(c, Multi(text.pairs[1].left))
              = {<<text.items[i].name, text.items[i].value>> : i \in DOMAIN text.items}
         /\ Different(text.pairs) => \A p \in Pairs(text) :
              ValuesOf(c, HeadToHead(p.left, p.right)) = PairRows(p)
<1> DEFINE pairs == text.pairs
           items == text.items
           n == Len(pairs)
           key == Multi(pairs[1].left)
           st == PairsMoved(rows, pairs)
           listed == MovedItems(st, items, key)
           M == {<<items[i].name, items[i].value>> : i \in DOMAIN items}
<1>1. /\ pairs \in Seq(Race) /\ items \in Seq(NamedValue)
      /\ \A i \in DOMAIN pairs : pairs[i].left # pairs[i].right
      /\ \A i, j \in DOMAIN items : i # j => items[i].name # items[j].name
  BY TextParts
<1>2. c = Kept(listed.rows, listed.taken)
  BY Zenon DEF SplitByPairs
<1>3. /\ n \in Nat /\ DOMAIN pairs = 1 .. n /\ DOMAIN items = 1 .. Len(items) /\ 1 \in DOMAIN pairs
      /\ Pairs(text) = {pairs[i] : i \in DOMAIN pairs}
  BY <1>1 DEF Pairs
<1> HIDE DEF pairs, items, n
<1>4. key \in Seq(Word)
  <2>1. \A p \in Race : p.left \in Word
    BY DEF Race, Word
  <2>2. pairs[1] \in Race
    BY <1>1, <1>3
  <2>3. pairs[1].left \in Word
    BY <2>1, <2>2
  <2>4. QED
    BY <2>3, KeysAreSequences
<1> HIDE DEF st, listed
<1>5. st \in MoveState /\ Took(st.rows, st.taken) = Duels(pairs, n)
  BY <1>1, PairsTake DEF st, n
<1>6. listed \in MoveState
      /\ Took(listed.rows, listed.taken) = Duels(pairs, n) \cup SaidItems(items, Len(items), key)
  <2> HIDE DEF key
  <2>1. QED
    BY <1>1, <1>4, <1>5, ItemsTake DEF listed
<1>7. listed.rows \in Seq(OwnRow) /\ listed.taken \subseteq DOMAIN listed.rows
  BY <1>6 DEF MoveState
<1>8. c \in Seq(OwnRow) /\ \A x : Holds(c, x) <=> \E i \in listed.taken : listed.rows[i] = x
  <2>1. c \in Seq(OwnRow)
        /\ \A x : Holds(c, x) <=> \E i \in listed.taken \cap DOMAIN listed.rows : listed.rows[i] = x
    BY <1>2, <1>7, KeptHolds
  <2>2. QED
    BY <1>7, <2>1
<1>9. ASSUME NEW k \in DOMAIN c
      PROVE  \/ \E i \in DOMAIN pairs : Says(c[k]) \in Duel(pairs[i])
             \/ \E i \in DOMAIN items : Says(c[k]) = <<items[i].name, items[i].value, key>>
  <2>1. Holds(c, c[k])
    BY DEF Holds
  <2>2. Says(c[k]) \in Took(listed.rows, listed.taken)
    BY <1>8, <2>1 DEF Took
  <2> HIDE DEF key
  <2>3. QED
    BY <1>3, <1>6, <2>2 DEF Duels, SaidItems
<1>10. ASSUME NEW w \in Duels(pairs, n) \cup SaidItems(items, Len(items), key)
       PROVE  \E k \in DOMAIN c : Says(c[k]) = w
  <2>1. PICK i \in listed.taken : Says(listed.rows[i]) = w
    BY <1>6 DEF Took
  <2>2. Holds(c, listed.rows[i])
    BY <1>8
  <2>3. QED
    BY <2>1, <2>2 DEF Holds
<1>11. \A l, r : HeadToHead(l, r) # key
  <2>1. \A l, r : HeadToHead(l, r)[1] = "h2h"
    BY DEF HeadToHead
  <2>2. key[1] = "multi"
    BY DEF Multi
  <2>3. QED
    BY <2>1, <2>2
<1> HIDE DEF key
<1>12. ASSUME NEW k \in DOMAIN c
       PROVE  c[k].key \in {HeadToHead(p.left, p.right) : p \in Pairs(text)} \cup {key}
  <2>1. CASE \E i \in DOMAIN pairs : Says(c[k]) \in Duel(pairs[i])
    <3>1. PICK i \in DOMAIN pairs : Says(c[k]) \in Duel(pairs[i])
      BY <2>1
    <3>2. c[k].key = HeadToHead(pairs[i].left, pairs[i].right)
      BY <3>1 DEF Duel, Says
    <3>3. QED
      BY <1>3, <3>2
  <2>2. CASE \E i \in DOMAIN items : Says(c[k]) = <<items[i].name, items[i].value, key>>
    BY <2>2 DEF Says
  <2>3. QED
    BY <1>9, <2>1, <2>2
<1>13. ValuesOf(c, key) = M
  <2>1. ASSUME NEW k \in DOMAIN c, c[k].key = key PROVE <<c[k].name, c[k].value>> \in M
    <3>1. ASSUME NEW i \in DOMAIN pairs, Says(c[k]) \in Duel(pairs[i]) PROVE FALSE
      <4>1. c[k].key = HeadToHead(pairs[i].left, pairs[i].right)
        BY <3>1 DEF Duel, Says
      <4>2. QED
        BY <1>11, <2>1, <4>1
    <3>2. PICK i \in DOMAIN items : Says(c[k]) = <<items[i].name, items[i].value, key>>
      BY <1>9, <3>1
    <3>3. QED
      BY <3>2 DEF Says
  <2>2. ASSUME NEW m \in M PROVE \E k \in DOMAIN c : c[k].key = key /\ m = <<c[k].name, c[k].value>>
    <3>1. PICK i \in DOMAIN items : m = <<items[i].name, items[i].value>>
      OBVIOUS
    <3>2. <<items[i].name, items[i].value, key>> \in SaidItems(items, Len(items), key)
      BY <1>3 DEF SaidItems
    <3>3. PICK k \in DOMAIN c : Says(c[k]) = <<items[i].name, items[i].value, key>>
      BY <1>10, <3>2
    <3>4. QED
      BY <3>1, <3>3 DEF Says
  <2>3. ASSUME NEW l \in M, NEW m \in M, l[1] = m[1] PROVE l = m
    BY <1>1, <2>3
  <2> HIDE DEF M
  <2>4. SaysUnder(c, key, M)
    BY <2>1, <2>2, <2>3 DEF SaysUnder
  <2>5. QED
    BY <1>8, <2>4, ValuesStored
<1>14. ASSUME Different(pairs), NEW p \in Pairs(text)
       PROVE  ValuesOf(c, HeadToHead(p.left, p.right)) = PairRows(p)
  <2>1. PICK i \in DOMAIN pairs : p = pairs[i]
    BY <1>3
  <2>2. ASSUME NEW k \in DOMAIN c, c[k].key = KeyOfPair(pairs[i])
        PROVE  \E j \in DOMAIN pairs : Says(c[k]) \in Duel(pairs[j])
    <3>1. ASSUME NEW j \in DOMAIN items, Says(c[k]) = <<items[j].name, items[j].value, key>> PROVE FALSE
      <4>1. c[k].key = key
        BY <3>1 DEF Says
      <4>2. QED
        BY <1>11, <2>2, <4>1 DEF KeyOfPair
    <3>2. QED
      BY <1>9, <3>1
  <2>3. ASSUME NEW w \in Duel(pairs[i]) PROVE \E k \in DOMAIN c : Says(c[k]) = w
    <3>1. w \in Duels(pairs, n)
      BY <1>3 DEF Duels
    <3>2. QED
      BY <1>10, <3>1
  <2>4. DuelSaid(c, pairs, i)
    BY <2>2, <2>3 DEF DuelSaid
  <2>5. ValuesOf(c, KeyOfPair(pairs[i])) = PairRows(pairs[i])
    BY <1>1, <1>8, <1>14, <2>4, DuelStored
  <2>6. QED
    BY <2>1, <2>5 DEF KeyOfPair
<1>15. QED
  BY <1>8, <1>12, <1>13, <1>14 DEF key, M, pairs, items

LEMMA OwnIsOwn == ASSUME NEW rows \in Seq(OwnRow) PROVE WhoseOwn(rows)
<1>1. \A i \in DOMAIN rows : rows[i] \in OwnRow
  BY OwnRows
<1>2. QED
  BY <1>1 DEF WhoseOwn, OwnRow

\* Another key leaves a row its owner.
LEMMA OtherKey ==
  ASSUME NEW r \in OwnRow, NEW key
  PROVE  [r EXCEPT !.key = key].whose \in {[r EXCEPT !.key = key].name, "nobody"}
BY DEF OwnRow, OptionRow

LEMMA DuplicateOwn ==
  ASSUME NEW rows \in Seq(OwnRow), NEW n PROVE WhoseOwn(SplitByDuplicate(rows, n))
<1> DEFINE own(name) == {i \in 1 .. n : rows[i].name = name}
           twice == {i \in 1 .. n : Cardinality(own(rows[i].name)) >= 2}
           top == rows[Highest(rows, twice)].value
           first == CHOOSE i \in twice :
                      LET best == {k \in twice : \E j \in own(rows[k].name) : rows[j].value = top}
                      IN i \in best /\ \A k \in best : i <= k
           anchor == rows[first].name
           others == {i \in 1 .. n : rows[i].name # anchor}
           left == Highest(rows, own(anchor))
           right == Highest(rows, others)
           KeyOf(i) == IF i \in {left, right} THEN HeadToHead(anchor, rows[right].name)
                       ELSE IF i \in 1 .. n THEN Multi(anchor) ELSE rows[i].key
           split == [i \in DOMAIN rows |-> [rows[i] EXCEPT !.key = KeyOf(i)]]
<1>1. SplitByDuplicate(rows, n) = IF twice = {} \/ others = {} THEN rows ELSE split
  BY Zenon DEF SplitByDuplicate
<1> HIDE DEF KeyOf, twice, others
<1>2. WhoseOwn(split)
  <2>1. ASSUME NEW i \in DOMAIN rows PROVE split[i].whose \in {split[i].name, "nobody"}
    <3> DEFINE key == KeyOf(i)
    <3>1. split[i] = [rows[i] EXCEPT !.key = key]
      OBVIOUS
    <3>2. rows[i] \in OwnRow
      BY OwnRows
    <3> HIDE DEF key, split
    <3>3. QED
      BY <3>1, <3>2, OtherKey
  <2>2. DOMAIN split = DOMAIN rows
    OBVIOUS
  <2> HIDE DEF split
  <2>3. QED
    BY <2>1, <2>2 DEF WhoseOwn
<1>3. WhoseOwn(rows)
  BY OwnIsOwn
<1> HIDE DEF split
<1>4. QED
  BY <1>1, <1>2, <1>3

\* Splitting by the pairs gives nobody another one's data.
LEMMA PairsOwn ==
  ASSUME NEW rows \in Seq(OwnRow), NEW text \in ScenarioText(STRING, Int), Len(text.pairs) >= 2
  PROVE  WhoseOwn(SplitByPairs(rows, text))
<1> DEFINE pairs == PairsMoved(rows, text.pairs)
           key == Multi(text.pairs[1].left)
           a == text.anchor[1]
           listed == MovedItems(pairs, text.items, key)
           anchored == IF \/ text.anchor = <<>>
                          \/ Matching(pairs.rows, a.name, a.value, pairs.taken) # {}
                       THEN pairs.rows ELSE Cloned(pairs.rows, a.name, a.value)
           over == DOMAIN anchored \ pairs.taken
           rest == [i \in DOMAIN anchored |->
                      IF i \in over THEN [anchored[i] EXCEPT !.key = key] ELSE anchored[i]]
<1>1. SplitByPairs(rows, text) =
        IF text.items # <<>> THEN Kept(listed.rows, listed.taken)
        ELSE IF over # {} THEN rest ELSE SplitByDuplicate(pairs.rows, Len(rows))
  BY Zenon DEF SplitByPairs
<1>2. CASE text.items # <<>>
  <2> DEFINE c == SplitByPairs(rows, text)
  <2> HIDE DEF c
  <2>1. c = SplitByPairs(rows, text)
    BY DEF c
  <2>2. c \in Seq(OwnRow)
    BY <1>2, <2>1, PairsListed
  <2>3. QED
    BY <2>1, <2>2, OwnIsOwn
<1>3. pairs.rows \in Seq(OwnRow)
  <2>1. text.pairs \in Seq(Race)
    BY TextParts
  <2>2. pairs \in MoveState
    BY <2>1, PairsTake
  <2> HIDE DEF pairs
  <2>3. QED
    BY <2>2 DEF MoveState
<1> HIDE DEF pairs
<1>4. anchored \in Seq(OwnRow)
  <2>1. CASE text.anchor = <<>> \/ Matching(pairs.rows, a.name, a.value, pairs.taken) # {}
    BY <1>3, <2>1
  <2>2. CASE ~ (text.anchor = <<>> \/ Matching(pairs.rows, a.name, a.value, pairs.taken) # {})
    <3>1. text.anchor \in Seq(NamedValue)
      BY TextParts
    <3>2. a \in NamedValue
      BY <2>2, <3>1
    <3>3. a.name \in Word /\ a.value \in Int
      BY <3>2 DEF NamedValue, Word
    <3> HIDE DEF a
    <3>4. Cloned(pairs.rows, a.name, a.value) \in Seq(OwnRow)
      BY <1>3, <3>3, OwnCloned
    <3>5. QED
      BY <2>2, <3>4
  <2>3. QED
    BY <2>1, <2>2
<1> HIDE DEF anchored, listed, key
<1>5. WhoseOwn(rest)
  <2>1. ASSUME NEW i \in DOMAIN anchored PROVE rest[i].whose \in {rest[i].name, "nobody"}
    <3>1. rest[i] = [anchored[i] EXCEPT !.key = key] \/ rest[i] = anchored[i]
      OBVIOUS
    <3>2. anchored[i] \in OwnRow /\ anchored[i].whose \in {anchored[i].name, "nobody"}
      BY <1>4, OwnRows DEF OwnRow
    <3> HIDE DEF rest
    <3>3. QED
      BY <3>1, <3>2, OtherKey
  <2>2. DOMAIN rest = DOMAIN anchored
    OBVIOUS
  <2> HIDE DEF rest
  <2>3. QED
    BY <2>1, <2>2 DEF WhoseOwn
<1>6. WhoseOwn(SplitByDuplicate(pairs.rows, Len(rows)))
  BY <1>3, DuplicateOwn
<1> HIDE DEF rest, over
<1>7. QED
  BY <1>1, <1>2, <1>5, <1>6

\* When explicit rows come with default ones, no default row is left, and the listed names,
\* or those of the default rows, are in the multi-candidate scenario.
LEMMA CanonicalisedSplits ==
  ASSUME NEW rows \in Seq(OwnRow), NEW text \in ScenarioText(STRING, Int), Explicit(rows) # <<>>,
         \A i \in DOMAIN rows : rows[i].key[1] = "h2h" => Len(rows[i].key) >= 2,
         NEW c, c = Canonicalised(rows, text)
  PROVE  /\ c \in Seq(OwnRow) /\ NoDefault(c)
         /\ MultiKey(Explicit(rows))[1] = "multi"
         /\ text.items # <<>> => ValuesOf(c, MultiKey(Explicit(rows)))
              = {<<text.items[i].name, text.items[i].value>> : i \in DOMAIN text.items}
         /\ text.items = <<>> => \A d \in DOMAIN Defaults(rows) : \E i \in DOMAIN c :
              c[i].name = Defaults(rows)[d].name /\ c[i].key = MultiKey(Explicit(rows))
<1> DEFINE fixed == Explicit(rows)
           key == MultiKey(fixed)
           items == text.items
           listed == MovedItems([rows |-> fixed, taken |-> {}], items, key)
           present == {fixed[i].name : i \in {j \in DOMAIN fixed : fixed[j].key = key}}
           defaults == Defaults(rows)
           added == BestDefaults(defaults, present)
           cut == Kept(listed.rows, {i \in DOMAIN listed.rows :
                                       listed.rows[i].key = key => i \in listed.taken})
           grown == fixed \o [k \in DOMAIN added |-> [added[k] EXCEPT !.key = key]]
<1>1. c = IF items # <<>> THEN cut ELSE grown
  BY Zenon DEF Canonicalised
<1>2. ListPass(fixed, items, key, listed, cut) /\ DefaultPass(fixed, defaults, key, added, grown)
  BY Zenon DEF ListPass, DefaultPass
<1>3. fixed \in Seq(OwnRow) /\ defaults \in Seq(OwnRow) /\ NoDefault(fixed)
  BY ExplicitAndDefault DEF NoDefault
<1>4. \A i \in DOMAIN fixed : fixed[i].key[1] = "h2h" => Len(fixed[i].key) >= 2
  <2> SUFFICES ASSUME NEW i \in DOMAIN fixed, fixed[i].key[1] = "h2h" PROVE Len(fixed[i].key) >= 2
    OBVIOUS
  <2>1. Holds(fixed, fixed[i])
    BY DEF Holds
  <2>2. Holds(rows, fixed[i])
    BY <2>1, ExplicitAndDefault
  <2>3. QED
    BY <2>2 DEF Holds
<1> HIDE DEF fixed, defaults
<1>5. key \in Seq(Word) /\ key[1] = "multi" /\ key # Default
  <2>1. fixed # <<>>
    BY DEF fixed
  <2>2. QED
    BY <1>3, <1>4, <2>1, MultiKeyIs
<1>6. items \in Seq(NamedValue) /\ \A i, j \in DOMAIN items : i # j => items[i].name # items[j].name
  BY TextParts
<1> HIDE DEF key, items, listed, added, cut, grown
<1>7. /\ cut \in Seq(OwnRow) /\ NoDefault(cut)
      /\ ValuesOf(cut, key) = {<<items[i].name, items[i].value>> : i \in DOMAIN items}
  BY <1>2, <1>3, <1>5, <1>6, ListedSplits
<1>8. /\ grown \in Seq(OwnRow) /\ NoDefault(grown)
      /\ \A d \in DOMAIN defaults : \E i \in DOMAIN grown :
           grown[i].name = defaults[d].name /\ grown[i].key = key
  BY <1>2, <1>3, <1>5, AddedSplits
<1>9. CASE items # <<>>
  BY <1>1, <1>5, <1>7, <1>9 DEF key, fixed, items
<1>10. CASE items = <<>>
  BY <1>1, <1>5, <1>8, <1>10 DEF key, fixed, items, defaults
<1>11. QED
  BY <1>9, <1>10

\* The states the collector goes through: the rows of the record keep their names, and a row
\* no pair has taken is still a default one.
CollectState(old) ==
  {st \in [rows : Seq(OwnRow), taken : SUBSET Nat, anchor : Seq(Word)] :
     /\ st.taken \subseteq DOMAIN st.rows
     /\ st.anchor = <<>> => st.taken = {}
     /\ \A i \in DOMAIN st.rows \ st.taken : st.rows[i].key = Default
     /\ \A i \in DOMAIN old : i \in DOMAIN st.rows /\ st.rows[i].name = old[i].name}

\* What Found finds, and that it finds something for a name that is there.
Finds(f, rows, taken, name) ==
  /\ f.rows \in Seq(OwnRow) /\ f.at \in Nat
  /\ \A i \in DOMAIN rows : i \in DOMAIN f.rows /\ f.rows[i] = rows[i]
  /\ \A i \in DOMAIN f.rows \ DOMAIN rows : f.rows[i].key = Default
  /\ f.at # 0 => f.at \in DOMAIN f.rows \ taken /\ f.rows[f.at].name = name
  /\ f.at = 0 => Named(rows, name) = {}

LEMMA FoundTakes ==
  ASSUME NEW rows \in Seq(OwnRow), NEW taken, taken \subseteq DOMAIN rows,
         NEW name \in Word, NEW value \in Int
  PROVE  Finds(Found(rows, taken, name, value), rows, taken, name)
<1> DEFINE fit == Matching(rows, name, value, taken)
           same == Named(rows, name)
           f == Found(rows, taken, name, value)
           near == Nearest(rows, fit, value)
           copied == Cloned(rows, name, value)
           n == Len(rows) + 1
<1>1. f = IF fit # {} THEN [rows |-> rows, at |-> near]
          ELSE IF same = {} THEN [rows |-> rows, at |-> 0]
          ELSE [rows |-> copied, at |-> n]
  BY Zenon DEF Found
<1>2. fit \subseteq DOMAIN rows /\ \A i \in fit : i \notin taken /\ rows[i].name = name
  BY DEF Matching, Named
<1>3. fit # {} => near \in fit
  BY <1>2, OwnRows, NearestIn
<1>4. /\ copied \in Seq(OwnRow) /\ Len(copied) = n /\ n \in DOMAIN copied
      /\ copied[n].name = name /\ copied[n].key = Default
      /\ \A i \in DOMAIN rows : i \in DOMAIN copied /\ copied[i] = rows[i]
  BY OwnCloned
<1>5. DOMAIN rows = 1 .. Len(rows) /\ Len(rows) \in Nat
  BY OwnRows
<1> HIDE DEF f, fit, same, near, copied
<1>6. CASE fit # {}
  <2>1. f.rows = rows /\ f.at = near
    BY <1>1, <1>6
  <2>2. near \in DOMAIN rows \ taken /\ rows[near].name = name /\ near \in Nat /\ near # 0
    BY <1>2, <1>3, <1>5, <1>6
  <2>3. Finds(f, rows, taken, name)
    BY <2>1, <2>2 DEF Finds
  <2>4. QED
    BY <2>3 DEF f
<1>7. CASE fit = {} /\ same = {}
  <2>1. f.rows = rows /\ f.at = 0
    BY <1>1, <1>7
  <2>2. Finds(f, rows, taken, name)
    BY <1>7, <2>1 DEF same, Finds
  <2>3. QED
    BY <2>2 DEF f
<1>8. CASE fit = {} /\ same # {}
  <2>1. f.rows = copied /\ f.at = n
    BY <1>1, <1>8
  <2>2. DOMAIN copied = 1 .. n /\ n \in Nat /\ n # 0 /\ n \notin taken
    BY <1>4, <1>5, OwnRows
  <2>3. \A i \in DOMAIN copied \ DOMAIN rows : i = n
    BY <1>5, <2>2
  <2>4. Finds(f, rows, taken, name)
    BY <1>4, <2>1, <2>2, <2>3 DEF Finds
  <2>5. QED
    BY <2>4 DEF f
<1>9. QED
  BY <1>6, <1>7, <1>8

\* What a pair of known names adds, and what any pair may add.
Adds(old, st, m, p) ==
  /\ Took(st.rows, st.taken) \subseteq Took(m.rows, m.taken)
  /\ Took(m.rows, m.taken) \subseteq Took(st.rows, st.taken) \cup Duel(p)
  /\ {p.left, p.right} \subseteq {old[i].name : i \in DOMAIN old} =>
       Duel(p) \subseteq Took(m.rows, m.taken)

LEMMA PairCollects ==
  ASSUME NEW old, NEW st \in CollectState(old), NEW p \in Race, p.left # p.right
  PROVE  Paired(st, p) \in CollectState(old) /\ Adds(old, st, Paired(st, p), p)
<1> DEFINE l == Found(st.rows, st.taken, p.left, p.leftValue)
           r == Found(l.rows, st.taken, p.right, p.rightValue)
           key == HeadToHead(p.left, p.right)
           anchor == IF st.anchor = <<>> THEN <<p.left>> ELSE st.anchor
           one == KeyedRow(r.rows, l.at, p.leftValue, key)
           both == KeyedRow(one, r.at, p.rightValue, key)
           m == Paired(st, p)
<1>1. p.left \in Word /\ p.right \in Word /\ p.leftValue \in Int /\ p.rightValue \in Int
  BY DEF Race, Word
<1>2. /\ st = [rows |-> st.rows, taken |-> st.taken, anchor |-> st.anchor]
      /\ st.rows \in Seq(OwnRow) /\ st.taken \in SUBSET Nat /\ st.anchor \in Seq(Word)
      /\ st.taken \subseteq DOMAIN st.rows
  BY DEF CollectState
<1>3. /\ st.anchor = <<>> => st.taken = {}
      /\ \A i \in DOMAIN st.rows \ st.taken : st.rows[i].key = Default
      /\ \A i \in DOMAIN old : i \in DOMAIN st.rows /\ st.rows[i].name = old[i].name
  BY DEF CollectState
<1>4. Finds(l, st.rows, st.taken, p.left)
  <2> DEFINE name == p.left
             value == p.leftValue
  <2>1. name \in Word /\ value \in Int
    BY <1>1
  <2> HIDE DEF name, value
  <2>2. Finds(Found(st.rows, st.taken, name, value), st.rows, st.taken, name)
    BY <1>2, <2>1, FoundTakes
  <2>3. QED
    BY <2>2 DEF name, value
<1> HIDE DEF l
<1>5. st.taken \subseteq DOMAIN l.rows /\ l.rows \in Seq(OwnRow)
  BY <1>2, <1>4 DEF Finds
<1>6. Finds(r, l.rows, st.taken, p.right)
  <2> DEFINE name == p.right
             value == p.rightValue
  <2>1. name \in Word /\ value \in Int
    BY <1>1
  <2> HIDE DEF name, value
  <2>2. Finds(Found(l.rows, st.taken, name, value), l.rows, st.taken, name)
    BY <1>5, <2>1, FoundTakes
  <2>3. QED
    BY <2>2 DEF name, value
<1> HIDE DEF r
<1>7. /\ \A i \in DOMAIN st.rows : i \in DOMAIN r.rows /\ r.rows[i] = st.rows[i]
      /\ \A i \in DOMAIN r.rows \ st.taken : r.rows[i].key = Default
      /\ \A i \in DOMAIN old : i \in DOMAIN r.rows /\ r.rows[i].name = old[i].name
      /\ st.taken \subseteq DOMAIN r.rows
  BY <1>2, <1>3, <1>4, <1>6 DEF Finds
<1>8. Took(r.rows, st.taken) = Took(st.rows, st.taken)
  BY <1>2, <1>7 DEF Took
<1>9. key \in Seq(Word) /\ anchor \in Seq(Word) /\ anchor # <<>>
  <2>1. <<p.left>> \in Seq(Word) /\ <<p.left>> # <<>>
    BY <1>1
  <2>2. QED
    BY <1>1, <1>2, <2>1, KeysAreSequences
<1>10. m = IF 0 \in {l.at, r.at} THEN [st EXCEPT !.rows = r.rows]
           ELSE [rows |-> both, taken |-> st.taken \cup {l.at, r.at}, anchor |-> anchor]
  BY Zenon DEF Paired, l, r, KeyedRow
<1>11. Duel(p) = {<<p.left, p.leftValue, key>>, <<p.right, p.rightValue, key>>}
  BY DEF Duel
<1> HIDE DEF m, key, anchor
<1>12. CASE 0 \in {l.at, r.at}
  <2>1. m = [rows |-> r.rows, taken |-> st.taken, anchor |-> st.anchor]
    BY <1>2, <1>10, <1>12
  <2>2. m \in CollectState(old)
    BY <1>2, <1>3, <1>6, <1>7, <2>1 DEF CollectState, Finds
  <2>3. ~ ({p.left, p.right} \subseteq {old[i].name : i \in DOMAIN old})
    <3>1. ASSUME NEW i \in DOMAIN old PROVE old[i].name # p.left \/ l.at # 0
      BY <1>3, <1>4 DEF Named, Finds
    <3>2. ASSUME NEW i \in DOMAIN old PROVE old[i].name # p.right \/ r.at # 0
      BY <1>3, <1>4, <1>6 DEF Named, Finds
    <3>3. QED
      BY <1>12, <3>1, <3>2
  <2>4. m.rows = r.rows /\ m.taken = st.taken
    BY <2>1
  <2>5. Adds(old, st, m, p)
    BY <1>8, <2>3, <2>4 DEF Adds
  <2>6. QED
    BY <2>2, <2>5 DEF m
<1>13. CASE 0 \notin {l.at, r.at}
  <2> DEFINE more == st.taken \cup {l.at, r.at}
  <2>1. m = [rows |-> both, taken |-> more, anchor |-> anchor]
    BY <1>10, <1>13
  <2>2. /\ l.at \in DOMAIN r.rows \ st.taken /\ r.rows[l.at].name = p.left
        /\ r.at \in DOMAIN r.rows \ st.taken /\ r.rows[r.at].name = p.right
        /\ l.at # r.at
    BY <1>4, <1>6, <1>13 DEF Finds
  <2>3. /\ one \in Seq(OwnRow) /\ DOMAIN one = DOMAIN r.rows
        /\ Says(one[l.at]) = <<p.left, p.leftValue, key>>
        /\ \A i \in DOMAIN r.rows \ {l.at} : one[i] = r.rows[i]
    <3> DEFINE rows == r.rows
               at == l.at
               value == p.leftValue
    <3>1. rows \in Seq(OwnRow) /\ at \in DOMAIN rows /\ value \in Int /\ rows[at].name = p.left
      BY <1>1, <1>6, <2>2 DEF Finds
    <3>2. one = KeyedRow(rows, at, value, key)
      OBVIOUS
    <3> HIDE DEF rows, at, value, one
    <3>3. /\ one \in Seq(OwnRow) /\ DOMAIN one = DOMAIN rows
          /\ Says(one[at]) = <<rows[at].name, value, key>>
          /\ \A i \in DOMAIN rows \ {at} : one[i] = rows[i]
      BY <1>9, <3>1, <3>2, RowKeyed
    <3>4. QED
      BY <3>1, <3>3 DEF rows, at, value
  <2> HIDE DEF one
  <2>4. /\ both \in Seq(OwnRow) /\ DOMAIN both = DOMAIN one
        /\ Says(both[r.at]) = <<p.right, p.rightValue, key>>
        /\ \A i \in DOMAIN one \ {r.at} : both[i] = one[i]
    <3> DEFINE at == r.at
               value == p.rightValue
    <3>1. at \in DOMAIN one /\ value \in Int /\ one[at].name = p.right
      BY <1>1, <2>2, <2>3
    <3>2. both = KeyedRow(one, at, value, key)
      OBVIOUS
    <3> HIDE DEF at, value, both
    <3>3. /\ both \in Seq(OwnRow) /\ DOMAIN both = DOMAIN one
          /\ Says(both[at]) = <<one[at].name, value, key>>
          /\ \A i \in DOMAIN one \ {at} : both[i] = one[i]
      BY <1>9, <2>3, <3>1, <3>2, RowKeyed
    <3>4. QED
      BY <3>1, <3>3 DEF at, value
  <2> HIDE DEF both
  <2>5. /\ DOMAIN both = DOMAIN r.rows
        /\ both[l.at] = one[l.at]
        /\ \A i \in DOMAIN r.rows \ {l.at, r.at} : both[i] = r.rows[i]
    BY <2>2, <2>3, <2>4
  <2>6. both[l.at].name = p.left /\ both[r.at].name = p.right
    BY <2>3, <2>4, <2>5 DEF Says
  <2>7. /\ \A i \in DOMAIN both \ more : both[i].key = Default
        /\ \A i \in DOMAIN old : i \in DOMAIN both /\ both[i].name = old[i].name
    BY <1>7, <2>2, <2>5, <2>6
  <2>8. more \subseteq DOMAIN both /\ more \in SUBSET Nat
    BY <1>2, <1>4, <1>6, <1>7, <2>2, <2>5 DEF Finds
  <2>9. m \in CollectState(old)
    <3> HIDE DEF more
    <3>1. QED
      BY <1>9, <2>1, <2>4, <2>7, <2>8 DEF CollectState
  <2>10. Took(both, more) = Took(st.rows, st.taken) \cup Duel(p)
    <3>1. \A i \in st.taken : both[i] = r.rows[i]
      BY <1>7, <2>2, <2>5
    <3>2. Says(both[l.at]) = <<p.left, p.leftValue, key>>
      BY <2>3, <2>5
    <3>3. Took(both, more) = Took(r.rows, st.taken) \cup {Says(both[l.at]), Says(both[r.at])}
      BY <3>1 DEF Took
    <3>4. QED
      BY <1>8, <1>11, <2>4, <3>2, <3>3
  <2>11. m.rows = both /\ m.taken = more
    BY <2>1
  <2> HIDE DEF more
  <2>12. Adds(old, st, m, p)
    BY <2>10, <2>11 DEF Adds
  <2>13. QED
    BY <2>9, <2>12 DEF m
<1>14. QED
  BY <1>12, <1>13

\* Where the pairs of a text lead: nothing but pairs has been taken, and every pair of known
\* names has.
LEMMA PairsCollect ==
  ASSUME NEW old \in Seq(OwnRow), \A i \in DOMAIN old : old[i].key = Default,
         NEW pairs \in Seq(Race), \A i \in DOMAIN pairs : pairs[i].left # pairs[i].right,
         NEW st, st = PairsFolded([rows |-> old, taken |-> {}, anchor |-> <<>>], pairs)
  PROVE  /\ st \in CollectState(old)
         /\ Took(st.rows, st.taken) \subseteq Duels(pairs, Len(pairs))
         /\ \A i \in DOMAIN pairs :
              {pairs[i].left, pairs[i].right} \subseteq {old[k].name : k \in DOMAIN old} =>
                Duel(pairs[i]) \subseteq Took(st.rows, st.taken)
<1> DEFINE n == Len(pairs)
           base == [rows |-> old, taken |-> {}, anchor |-> <<>>]
           S == CollectState(old)
           T == {p \in Race : p.left # p.right}
           Known(p) == {p.left, p.right} \subseteq {old[k].name : k \in DOMAIN old}
<1>1. n \in Nat /\ DOMAIN pairs = 1 .. n /\ \A k \in 1 .. n : pairs[k] \in T
  OBVIOUS
<1>2. base \in S
  <2>1. <<>> \in Seq(Word)
    OBVIOUS
  <2>2. QED
    BY <2>1 DEF CollectState
<1>3. \A s \in S, p \in T : Paired(s, p) \in S /\ Adds(old, s, Paired(s, p), p)
  BY PairCollects
<1>4. PairsStay(S, T)
  BY <1>3 DEF PairsStay
<1>5. pairs \in Seq(T)
  <2> HIDE DEF T
  <2>1. pairs \in [1 .. n -> T]
    BY <1>1
  <2>2. QED
    BY <1>1, <2>1
<1> HIDE DEF S, T
<1>6. st = PairsFolded(base, pairs)
  OBVIOUS
<1>7. base.rows = old /\ base.taken = {}
  OBVIOUS
<1> HIDE DEF n, base
<1>8. PICK run \in [0 .. n -> S] :
        /\ run[0] = base
        /\ \A k \in 0 .. n - 1 : run[k + 1] = Paired(run[k], pairs[k + 1])
        /\ st = run[n]
  BY <1>2, <1>4, <1>5, <1>6, PairsRun DEF n
<1> DEFINE A == {k \in 0 .. n : /\ Took(run[k].rows, run[k].taken) \subseteq Duels(pairs, k)
                                /\ \A i \in 1 .. k : Known(pairs[i]) =>
                                     Duel(pairs[i]) \subseteq Took(run[k].rows, run[k].taken)}
<1> HIDE DEF Known
<1>9. 0 \in A
  <2>1. run[0].taken = {} /\ 0 \in 0 .. n
    BY <1>1, <1>7, <1>8
  <2>2. QED
    BY <2>1 DEF Took
<1>10. ASSUME NEW k \in 0 .. n - 1, k \in A PROVE k + 1 \in A
  <2> DEFINE s == run[k]
             m == run[k + 1]
             p == pairs[k + 1]
  <2>1. k + 1 \in 1 .. n /\ k \in 0 .. n /\ k + 1 \in 0 .. n /\ 1 .. k + 1 = (1 .. k) \cup {k + 1}
    BY <1>1
  <2>2. s \in S /\ p \in T /\ m = Paired(s, p)
    BY <1>1, <1>8, <2>1
  <2>3. /\ Took(s.rows, s.taken) \subseteq Duels(pairs, k)
        /\ \A i \in 1 .. k : Known(pairs[i]) => Duel(pairs[i]) \subseteq Took(s.rows, s.taken)
    BY <1>10
  <2> HIDE DEF s, m
  <2>4. Adds(old, s, m, p)
    BY <1>3, <2>2
  <2>5. Duels(pairs, k + 1) = Duels(pairs, k) \cup Duel(p)
    BY <2>1 DEF Duels
  <2>6. Took(m.rows, m.taken) \subseteq Duels(pairs, k + 1)
    BY <2>3, <2>4, <2>5 DEF Adds
  <2>7. ASSUME NEW i \in 1 .. k + 1, Known(pairs[i]) PROVE Duel(pairs[i]) \subseteq Took(m.rows, m.taken)
    <3>1. CASE i \in 1 .. k
      BY <2>3, <2>4, <2>7, <3>1 DEF Adds
    <3>2. CASE i = k + 1
      <4>1. Known(p)
        BY <2>7, <3>2
      <4>2. Duel(p) \subseteq Took(m.rows, m.taken)
        BY <2>4, <4>1 DEF Adds, Known
      <4>3. QED
        BY <3>2, <4>2
    <3>3. QED
      BY <2>1, <3>1, <3>2
  <2>8. QED
    BY <2>1, <2>6, <2>7 DEF m
<1>11. n \in A
  <2> HIDE DEF A
  <2>1. \A k \in 0 .. n : k \in A
    BY <1>1, <1>9, <1>10, UpTo
  <2>2. QED
    BY <1>1, <2>1
<1>12. run[n] \in S
  BY <1>1, <1>8
<1>13. QED
  BY <1>1, <1>8, <1>11, <1>12 DEF n, S, Known

\* Where the collector has split default rows, none is left, and each pair of known names has
\* its own two values.
LEMMA CollectedSplits ==
  ASSUME NEW old \in Seq(OwnRow), \A i \in DOMAIN old : old[i].key = Default,
         NEW text \in ScenarioText(STRING, Int), NEW c, c = SplitCandidates(old, text), c # old
  PROVE  /\ c \in Seq({c[i] : i \in DOMAIN c})
         /\ (\E i \in DOMAIN c : c[i].key # Default) =>
              /\ NoDefault(c)
              /\ Different(text.pairs) => \A i \in DOMAIN text.pairs :
                   {text.pairs[i].left, text.pairs[i].right} \subseteq {old[k].name : k \in DOMAIN old} =>
                     ValuesOf(c, KeyOfPair(text.pairs[i])) = PairRows(text.pairs[i])
<1> DEFINE pairs == text.pairs
           n == Len(pairs)
           st == PairsFolded([rows |-> old, taken |-> {}, anchor |-> <<>>], pairs)
           a == text.anchor[1]
           f == Found(st.rows, st.taken, a.name, a.value)
           valued == IF f.at = 0 THEN f.rows ELSE [f.rows EXCEPT ![f.at].value = a.value]
           anchored == IF text.anchor = <<>> THEN st.rows ELSE valued
           key == Multi(st.anchor[1])
           split == IF st.anchor = <<>> THEN anchored
                    ELSE [i \in DOMAIN anchored |-> IF i \in st.taken THEN anchored[i]
                                                   ELSE [anchored[i] EXCEPT !.key = key]]
           T == {c[i] : i \in DOMAIN c}
<1>1. /\ pairs \in Seq(Race) /\ \A i \in DOMAIN pairs : pairs[i].left # pairs[i].right
      /\ text.anchor \in Seq(NamedValue) /\ n \in Nat /\ DOMAIN pairs = 1 .. n
  BY TextParts
<1>2. c = old \/ c = split
  BY Zenon DEF SplitCandidates, PairsFolded
<1>3. c = split
  BY <1>2
<1> HIDE DEF pairs
<1>4. /\ st \in CollectState(old)
      /\ Took(st.rows, st.taken) \subseteq Duels(pairs, n)
      /\ \A i \in DOMAIN pairs :
           {pairs[i].left, pairs[i].right} \subseteq {old[k].name : k \in DOMAIN old} =>
             Duel(pairs[i]) \subseteq Took(st.rows, st.taken)
  BY <1>1, PairsCollect
<1> HIDE DEF st, n
<1>5. /\ st.rows \in Seq(OwnRow) /\ st.taken \subseteq DOMAIN st.rows
      /\ st.anchor = <<>> => st.taken = {}
      /\ \A i \in DOMAIN st.rows \ st.taken : st.rows[i].key = Default
  BY <1>4 DEF CollectState
<1>6. /\ DOMAIN anchored \in {1 .. k : k \in Nat} /\ st.taken \subseteq DOMAIN anchored
      /\ \A i \in st.taken : anchored[i] = st.rows[i]
      /\ \A i \in DOMAIN anchored \ st.taken : anchored[i].key = Default /\ "key" \in DOMAIN anchored[i]
      /\ anchored = [i \in DOMAIN anchored |-> anchored[i]]
  <2>1. ASSUME NEW rows \in Seq(OwnRow)
        PROVE  /\ DOMAIN rows \in {1 .. k : k \in Nat}
               /\ rows = [i \in DOMAIN rows |-> rows[i]]
               /\ \A i \in DOMAIN rows : "key" \in DOMAIN rows[i]
    <3>1. \A r \in OwnRow : "key" \in DOMAIN r
      BY DEF OwnRow, OptionRow
    <3>2. DOMAIN rows = 1 .. Len(rows) /\ Len(rows) \in Nat /\ \A i \in DOMAIN rows : rows[i] \in OwnRow
      BY OwnRows
    <3>3. rows = [i \in DOMAIN rows |-> rows[i]]
      OBVIOUS
    <3>4. QED
      BY <3>1, <3>2, <3>3
  <2>2. CASE text.anchor = <<>>
    BY <1>5, <2>1, <2>2
  <2>3. CASE text.anchor # <<>>
    <3>1. a \in NamedValue
      BY <1>1, <2>3
    <3>2. a.name \in Word /\ a.value \in Int
      BY <3>1 DEF NamedValue, Word
    <3> HIDE DEF a
    <3>3. Finds(f, st.rows, st.taken, a.name)
      BY <1>5, <3>2, FoundTakes
    <3> HIDE DEF f
    <3>4. /\ f.rows \in Seq(OwnRow) /\ st.taken \subseteq DOMAIN f.rows
          /\ \A i \in st.taken : f.rows[i] = st.rows[i]
          /\ \A i \in DOMAIN f.rows \ st.taken : f.rows[i].key = Default
          /\ f.at # 0 => f.at \notin st.taken
      BY <1>5, <3>3 DEF Finds
    <3>5. DOMAIN f.rows \in {1 .. k : k \in Nat} /\ f.rows = [i \in DOMAIN f.rows |-> f.rows[i]]
          /\ \A i \in DOMAIN f.rows : "key" \in DOMAIN f.rows[i]
      BY <2>1, <3>4
    <3>6. CASE f.at = 0
      BY <2>3, <3>4, <3>5, <3>6
    <3>7. CASE f.at # 0
      <4> DEFINE rows == [f.rows EXCEPT ![f.at].value = a.value]
      <4>1. /\ DOMAIN rows = DOMAIN f.rows /\ rows = [i \in DOMAIN rows |-> rows[i]]
            /\ \A i \in DOMAIN f.rows : i # f.at => rows[i] = f.rows[i]
            /\ f.at \in DOMAIN f.rows => rows[f.at] = [f.rows[f.at] EXCEPT !.value = a.value]
        OBVIOUS
      <4>2. ASSUME NEW i \in DOMAIN f.rows
            PROVE  /\ [f.rows[i] EXCEPT !.value = a.value].key = f.rows[i].key
                   /\ "key" \in DOMAIN [f.rows[i] EXCEPT !.value = a.value]
        BY <3>5
      <4>3. anchored = rows
        BY <2>3, <3>7
      <4> HIDE DEF rows, anchored
      <4>4. \A i \in DOMAIN rows : rows[i].key = f.rows[i].key /\ "key" \in DOMAIN rows[i]
        BY <3>5, <4>1, <4>2
      <4>5. \A i \in st.taken : rows[i] = st.rows[i]
        BY <3>4, <3>7, <4>1
      <4>6. QED
        BY <3>4, <3>5, <4>1, <4>3, <4>4, <4>5
    <3>8. QED
      BY <3>6, <3>7
  <2>4. QED
    BY <2>2, <2>3
<1> HIDE DEF anchored
<1>7. c \in Seq(T)
  <2>1. DOMAIN c = DOMAIN anchored /\ c = [i \in DOMAIN c |-> c[i]]
    BY <1>3, <1>6
  <2> HIDE DEF split
  <2>2. PICK k \in Nat : DOMAIN c = 1 .. k
    BY <1>6, <2>1
  <2>3. c \in [1 .. k -> T]
    BY <2>1, <2>2
  <2> HIDE DEF T
  <2>4. QED
    BY <2>3
<1> HIDE DEF T
<1>8. SUFFICES ASSUME \E some \in DOMAIN c : c[some].key # Default
      PROVE  /\ NoDefault(c)
             /\ Different(pairs) => \A i \in DOMAIN pairs :
                  {pairs[i].left, pairs[i].right} \subseteq {old[k].name : k \in DOMAIN old} =>
                    ValuesOf(c, KeyOfPair(pairs[i])) = PairRows(pairs[i])
  BY <1>7 DEF pairs, T
<1>9. st.anchor # <<>>
  <2>1. ASSUME st.anchor = <<>> PROVE FALSE
    <3>1. c = anchored /\ st.taken = {}
      BY <1>3, <1>5, <2>1
    <3>2. QED
      BY <1>6, <1>8, <3>1
  <2>2. QED
    BY <2>1
<1>10. /\ DOMAIN c = DOMAIN anchored
       /\ \A i \in st.taken : c[i] = st.rows[i] /\ i \in DOMAIN c
       /\ \A i \in DOMAIN c \ st.taken : c[i] = [anchored[i] EXCEPT !.key = key]
  BY <1>3, <1>6, <1>9
<1>11. key # Default /\ \A l, r : HeadToHead(l, r) # key /\ HeadToHead(l, r) # Default
  <2>1. \A l, r : HeadToHead(l, r)[1] = "h2h"
    BY DEF HeadToHead
  <2>2. key[1] = "multi" /\ Default[1] = "default"
    BY DEF Multi, Default
  <2>3. QED
    BY <2>1, <2>2
<1> HIDE DEF split, key
<1>12. ASSUME NEW i \in DOMAIN c \ st.taken PROVE c[i].key = key
  <2> DEFINE r == anchored[i]
  <2>1. "key" \in DOMAIN r /\ c[i] = [r EXCEPT !.key = key]
    BY <1>6, <1>10
  <2> HIDE DEF r
  <2>2. QED
    BY <2>1
<1>13. ASSUME NEW i \in st.taken PROVE \E j \in DOMAIN pairs : Says(c[i]) \in Duel(pairs[j])
  <2>1. Says(c[i]) \in Took(st.rows, st.taken)
    BY <1>10 DEF Took
  <2>2. QED
    BY <1>1, <1>4, <2>1 DEF Duels
<1>14. \A i \in st.taken : \E l, r : c[i].key = HeadToHead(l, r)
  BY <1>13 DEF Duel, Says
<1>15. NoDefault(c)
  BY <1>11, <1>12, <1>14 DEF NoDefault
<1>16. ASSUME Different(pairs), NEW i \in DOMAIN pairs,
              {pairs[i].left, pairs[i].right} \subseteq {old[k].name : k \in DOMAIN old}
       PROVE  ValuesOf(c, KeyOfPair(pairs[i])) = PairRows(pairs[i])
  <2>1. ASSUME NEW k \in DOMAIN c, c[k].key = KeyOfPair(pairs[i])
        PROVE  \E j \in DOMAIN pairs : Says(c[k]) \in Duel(pairs[j])
    <3>1. k \in st.taken
      BY <1>11, <1>12, <2>1 DEF KeyOfPair
    <3>2. QED
      BY <1>13, <3>1
  <2>2. ASSUME NEW w \in Duel(pairs[i]) PROVE \E k \in DOMAIN c : Says(c[k]) = w
    <3>1. w \in Took(st.rows, st.taken)
      BY <1>4, <1>16
    <3>2. PICK k \in st.taken : Says(st.rows[k]) = w
      BY <3>1 DEF Took
    <3>3. QED
      BY <1>10, <3>2
  <2>3. DuelSaid(c, pairs, i)
    BY <2>1, <2>2 DEF DuelSaid
  <2>4. QED
    BY <1>1, <1>7, <1>16, <2>3, DuelStored
<1>17. QED
  BY <1>15, <1>16

\* The rows of a record, and what its text may say.
LEMMA CaseParts ==
  ASSUME NEW case \in ScenarioCases
  PROVE  /\ case.rows \in Seq(OwnRow) /\ case.text \in ScenarioText(STRING, Int)
         /\ \A i \in DOMAIN case.rows : case.rows[i].key[1] = "h2h" => Len(case.rows[i].key) >= 2
<1> DEFINE T == CandidateRow(STRING, Int)
           rows == case.rows
<1>1. rows \in Seq(T) /\ case.text \in ScenarioText(STRING, Int)
  BY RecordAssumption
<1>2. \A s : s \in Seq(STRING) => s \in Seq(Word)
  <2> DEFINE A == STRING
             B == Word
  <2>1. A \subseteq B
    BY DEF Word
  <2> HIDE DEF A, B
  <2>2. ASSUME NEW s \in Seq(A) PROVE s \in Seq(B)
    <3>1. s \in [1 .. Len(s) -> A] /\ Len(s) \in Nat
      OBVIOUS
    <3>2. s \in [1 .. Len(s) -> B]
      BY <2>1, <3>1
    <3>3. QED
      BY <3>1, <3>2
  <2>3. QED
    BY <2>2 DEF A, B
<1>3. ASSUME NEW r \in T
      PROVE  r \in OwnRow /\ (r.key[1] = "h2h" => Len(r.key) >= 2)
  <2>1. /\ r \in [name : STRING, value : Int, key : Seq(STRING) \ {<<>>}, whose : STRING]
        /\ r.whose = r.name /\ (r.key[1] = "h2h" => Len(r.key) >= 2)
    BY DEF CandidateRow
  <2>2. r.key \in Seq(STRING)
    BY <2>1
  <2>3. r.key \in Seq(Word)
    BY <1>2, <2>2
  <2>4. r \in OptionRow
    BY <2>1, <2>3 DEF OptionRow, Word
  <2>5. QED
    BY <2>1, <2>4 DEF OwnRow
<1> HIDE DEF T
<1>4. \A i \in DOMAIN rows : rows[i] \in T
  BY <1>1
<1>5. rows \in [1 .. Len(rows) -> OwnRow] /\ Len(rows) \in Nat
  BY <1>1, <1>3, <1>4
<1>6. rows \in Seq(OwnRow)
  <2> DEFINE S == OwnRow
  <2>1. rows \in [1 .. Len(rows) -> S]
    BY <1>5
  <2> HIDE DEF S, rows
  <2>2. rows \in Seq(S)
    BY <1>5, <2>1
  <2>3. QED
    BY <2>2 DEF S
<1>7. QED
  BY <1>1, <1>3, <1>4, <1>6

\* What ScenariosSplit says of a record the collector has split, and of one ingest repairs.
CollectedWell(case, rows) ==
  LET different == Different(case.text.pairs)
      known == {case.rows[i].name : i \in DOMAIN case.rows}
  IN Explicit(rows) # <<>> =>
     /\ Defaults(rows) = <<>> /\ Repaired(rows, case.text) = rows
     /\ different => \A p \in Pairs(case.text) : {p.left, p.right} \subseteq known =>
          ValuesOf(rows, HeadToHead(p.left, p.right)) = PairRows(p)

Listed(text) == {<<text.items[i].name, text.items[i].value>> : i \in DOMAIN text.items}
InMulti(rows) ==
  UNION {{r.name : r \in RowsOf(rows, key)} :
           key \in {rows[i].key : i \in {j \in DOMAIN rows : IsMulti(rows[j])}}}

\* Which scenarios there are when the text says all of them.
SaidScenarios(case, rows) ==
  Materialises(case) /\ Listed(case.text) # {} =>
    /\ \A p \in Pairs(case.text) :
         ValuesOf(rows, HeadToHead(p.left, p.right)) = PairRows(p)
    /\ ValuesOf(rows, Multi(case.text.pairs[1].left)) = Listed(case.text)
    /\ \A i \in DOMAIN rows :
         rows[i].key \in {HeadToHead(p.left, p.right) : p \in Pairs(case.text)}
                           \cup {Multi(case.text.pairs[1].left)}

\* Where the default rows of a record with explicit ones go.
MixedScenarios(case, rows) ==
  LET named == {Defaults(case.rows)[i].name : i \in DOMAIN Defaults(case.rows)}
  IN (case.text.multi \/ case.text.twoway) /\ Len(case.rows) >= 3 /\ Explicit(case.rows) # <<>> =>
     /\ Defaults(rows) = <<>>
     /\ IF Listed(case.text) = {} THEN named \subseteq InMulti(rows)
        ELSE named # {} => Listed(case.text) = ValuesOf(rows, MultiKey(Explicit(case.rows)))

\* What the collector has split is settled: ingest changes nothing of it.
LEMMA CollectedIsWell ==
  ASSUME NEW case \in ScenarioCases, Explicit(case.rows) = <<>>
  PROVE  CollectedWell(case, SplitCandidates(case.rows, case.text))
<1> DEFINE old == case.rows
           text == case.text
           pairs == text.pairs
           c == SplitCandidates(old, text)
           known == {old[i].name : i \in DOMAIN old}
<1>1. old \in Seq(OwnRow) /\ text \in ScenarioText(STRING, Int)
  BY CaseParts
<1>2. \A i \in DOMAIN old : old[i].key = Default
  BY <1>1, ExplicitAndDefault
<1> HIDE DEF old, text, pairs, c
<1>3. SUFFICES ASSUME Explicit(c) # <<>>
      PROVE  /\ Defaults(c) = <<>> /\ Repaired(c, text) = c
             /\ Different(pairs) => \A p \in Pairs(text) : {p.left, p.right} \subseteq known =>
                  ValuesOf(c, HeadToHead(p.left, p.right)) = PairRows(p)
  BY DEF CollectedWell, old, text, c, pairs
<1>4. c # old
  BY <1>2, <1>3, <1>1, ExplicitAndDefault
<1>5. c = SplitCandidates(old, text)
  BY DEF c, old, text
<1> DEFINE T == {c[i] : i \in DOMAIN c}
<1>6. /\ c \in Seq(T)
      /\ (\E i \in DOMAIN c : c[i].key # Default) =>
           /\ NoDefault(c)
           /\ Different(pairs) => \A i \in DOMAIN pairs :
                {pairs[i].left, pairs[i].right} \subseteq known =>
                  ValuesOf(c, KeyOfPair(pairs[i])) = PairRows(pairs[i])
  <2>1. /\ c \in Seq({c[i] : i \in DOMAIN c})
        /\ (\E i \in DOMAIN c : c[i].key # Default) =>
             /\ NoDefault(c)
             /\ Different(text.pairs) => \A i \in DOMAIN text.pairs :
                  {text.pairs[i].left, text.pairs[i].right} \subseteq {old[k].name : k \in DOMAIN old} =>
                    ValuesOf(c, KeyOfPair(text.pairs[i])) = PairRows(text.pairs[i])
    BY <1>1, <1>2, <1>4, <1>5, CollectedSplits
  <2>2. QED
    BY <2>1 DEF pairs
<1> HIDE DEF T, known
<1>7. \E i \in DOMAIN c : c[i].key # Default
  BY <1>3, <1>6, ExplicitAndDefault
<1>8. Defaults(c) = <<>>
  BY <1>6, <1>7, ExplicitAndDefault
<1>9. Repaired(c, text) = c
  BY <1>3, <1>8 DEF Repaired
<1>10. ASSUME Different(pairs), NEW p \in Pairs(text), {p.left, p.right} \subseteq known
       PROVE  ValuesOf(c, HeadToHead(p.left, p.right)) = PairRows(p)
  <2>1. PICK i \in DOMAIN pairs : p = pairs[i]
    BY DEF Pairs, pairs
  <2>2. ValuesOf(c, KeyOfPair(pairs[i])) = PairRows(pairs[i])
    BY <1>6, <1>7, <1>10, <2>1
  <2>3. QED
    BY <2>1, <2>2 DEF KeyOfPair
<1>11. QED
  BY <1>8, <1>9, <1>10

\* Nobody carries the data of another one's candidate, whatever the record and its text.
LEMMA RepairedOwn ==
  ASSUME NEW case \in ScenarioCases PROVE WhoseOwn(Repaired(case.rows, case.text))
<1> DEFINE rows == case.rows
           text == case.text
<1>1. /\ rows \in Seq(OwnRow) /\ text \in ScenarioText(STRING, Int)
      /\ \A i \in DOMAIN rows : rows[i].key[1] = "h2h" => Len(rows[i].key) >= 2
  BY CaseParts
<1> HIDE DEF rows, text
<1>2. \/ Repaired(rows, text) = rows
      \/ Explicit(rows) # <<>> /\ Repaired(rows, text) = Canonicalised(rows, text)
      \/ Len(text.pairs) >= 2 /\ Repaired(rows, text) = SplitByPairs(rows, text)
      \/ Repaired(rows, text) = SplitByDuplicate(rows, Len(rows))
  BY Zenon DEF Repaired
<1>3. WhoseOwn(rows)
  BY <1>1, OwnIsOwn
<1>4. ASSUME Explicit(rows) # <<>> PROVE WhoseOwn(Canonicalised(rows, text))
  <2> DEFINE c == Canonicalised(rows, text)
  <2> HIDE DEF c
  <2>1. c = Canonicalised(rows, text)
    BY DEF c
  <2>2. c \in Seq(OwnRow)
    BY <1>1, <1>4, <2>1, CanonicalisedSplits
  <2>3. QED
    BY <2>1, <2>2, OwnIsOwn
<1>5. Len(text.pairs) >= 2 => WhoseOwn(SplitByPairs(rows, text))
  BY <1>1, PairsOwn
<1>6. WhoseOwn(SplitByDuplicate(rows, Len(rows)))
  BY <1>1, DuplicateOwn
<1>7. QED
  BY <1>2, <1>3, <1>4, <1>5, <1>6 DEF rows, text

LEMMA SaidAreStored ==
  ASSUME NEW case \in ScenarioCases PROVE SaidScenarios(case, Repaired(case.rows, case.text))
<1> DEFINE rows == case.rows
           text == case.text
           c == Repaired(rows, text)
<1>1. rows \in Seq(OwnRow) /\ text \in ScenarioText(STRING, Int)
  BY CaseParts
<1>2. SUFFICES ASSUME Materialises(case), Listed(text) # {}
      PROVE  /\ \A p \in Pairs(text) : ValuesOf(c, HeadToHead(p.left, p.right)) = PairRows(p)
             /\ ValuesOf(c, Multi(text.pairs[1].left)) = Listed(text)
             /\ \A i \in DOMAIN c : c[i].key \in {HeadToHead(p.left, p.right) : p \in Pairs(text)}
                                                   \cup {Multi(text.pairs[1].left)}
  BY DEF SaidScenarios
<1>3. /\ text.multi /\ Len(text.pairs) >= 2 /\ Len(rows) >= 3 /\ Explicit(rows) = <<>>
      /\ Different(text.pairs)
  BY <1>2 DEF Materialises, Different
<1>4. text.items # <<>>
  BY <1>2 DEF Listed
<1>5. Len(rows) \in Nat
  BY <1>1
<1> HIDE DEF rows, text
<1>6. c = SplitByPairs(rows, text)
  <2>1. ~ (Len(rows) < 3)
    BY <1>3, <1>5
  <2>2. QED
    BY <1>3, <2>1 DEF Repaired
<1> HIDE DEF c
<1>7. QED
  BY <1>1, <1>3, <1>4, <1>6, PairsListed DEF Listed

LEMMA MixedAreSplit ==
  ASSUME NEW case \in ScenarioCases PROVE MixedScenarios(case, Repaired(case.rows, case.text))
<1> DEFINE rows == case.rows
           text == case.text
           c == Repaired(rows, text)
           key == MultiKey(Explicit(rows))
           named == {Defaults(rows)[i].name : i \in DOMAIN Defaults(rows)}
<1>1. /\ rows \in Seq(OwnRow) /\ text \in ScenarioText(STRING, Int)
      /\ \A i \in DOMAIN rows : rows[i].key[1] = "h2h" => Len(rows[i].key) >= 2
  BY CaseParts
<1>2. SUFFICES ASSUME text.multi \/ text.twoway, Len(rows) >= 3, Explicit(rows) # <<>>
      PROVE  /\ Defaults(c) = <<>>
             /\ Listed(text) = {} => named \subseteq InMulti(c)
             /\ Listed(text) # {} /\ named # {} => Listed(text) = ValuesOf(c, key)
  BY DEF MixedScenarios
<1>3. Len(rows) \in Nat
  BY <1>1
<1> HIDE DEF rows, text
<1>4. c = IF Defaults(rows) = <<>> THEN rows ELSE Canonicalised(rows, text)
  <2>1. ~ (Len(rows) < 3)
    BY <1>2, <1>3
  <2>2. QED
    BY <1>2, <2>1 DEF Repaired
<1> HIDE DEF c
<1>5. CASE Defaults(rows) = <<>>
  <2>1. named = {} /\ c = rows
    BY <1>4, <1>5
  <2>2. QED
    BY <1>5, <2>1
<1>6. CASE Defaults(rows) # <<>>
  <2>1. c = Canonicalised(rows, text)
    BY <1>4, <1>6
  <2>2. /\ c \in Seq(OwnRow) /\ NoDefault(c) /\ key[1] = "multi"
        /\ text.items # <<>> => ValuesOf(c, key) = Listed(text)
        /\ text.items = <<>> => \A d \in DOMAIN Defaults(rows) : \E i \in DOMAIN c :
             c[i].name = Defaults(rows)[d].name /\ c[i].key = key
    BY <1>1, <1>2, <2>1, CanonicalisedSplits DEF Listed
  <2>3. Defaults(c) = <<>>
    BY <2>2, ExplicitAndDefault
  <2>4. Listed(text) = {} <=> text.items = <<>>
    <3>1. text.items \in Seq(NamedValue)
      BY <1>1, TextParts
    <3>2. text.items # <<>> => 1 \in DOMAIN text.items
      BY <3>1
    <3>3. text.items # <<>> => <<text.items[1].name, text.items[1].value>> \in Listed(text)
      BY <3>2 DEF Listed
    <3>4. text.items = <<>> => Listed(text) = {}
      BY DEF Listed
    <3>5. QED
      BY <3>3, <3>4
  <2> HIDE DEF key
  <2>5. ASSUME text.items = <<>>, NEW d \in DOMAIN Defaults(rows)
        PROVE  Defaults(rows)[d].name \in InMulti(c)
    <3>1. PICK i \in DOMAIN c : c[i].name = Defaults(rows)[d].name /\ c[i].key = key
      BY <2>2, <2>5
    <3>2. PICK r \in StoredRows(c) : r.name = c[i].name /\ r.key = c[i].key
      BY <2>2, LastStored
    <3>3. r \in RowsOf(c, key) /\ IsMulti(c[i])
      BY <2>2, <3>1, <3>2 DEF RowsOf, IsMulti
    <3>4. QED
      BY <3>1, <3>2, <3>3 DEF InMulti
  <2>6. QED
    BY <2>2, <2>3, <2>4, <2>5
<1>7. QED
  BY <1>5, <1>6

\* Whatever the record's rows and its survey's name, the rows that are stored are in the
\* scenarios the text gives them, with its values, and no default row is left beside explicit
\* ones (_repair_candidate_matchup_scenarios); nobody gets the party of another candidate
\* (_clone_candidate_option); and what the collector has split already
\* (_split_candidate_matchup_scenarios) stays as it is.
THEOREM ScenariosTheorem == RecordSpec => []ScenariosSplit
<1>1. RecordInv => ScenariosSplit
  <2> SUFFICES ASSUME RecordInv PROVE ScenariosSplit
    OBVIOUS
  <2> DEFINE case == part.case
             rows == outcome[1]
  <2>1. ASSUME Ruled("collected")
        PROVE  case \in ScenarioCases /\ CollectedWell(case, rows)
    <3>1. /\ part \in Parts /\ part.rule = "collected" /\ rows = RulesOf(part)
      BY <2>1 DEF RecordInv, Ruled
    <3>2. case \in ScenarioCases /\ Explicit(case.rows) = <<>>
      BY <3>1 DEF Parts
    <3>3. rows = SplitCandidates(case.rows, case.text)
      BY <3>1 DEF RulesOf
    <3> HIDE DEF case, rows
    <3>4. QED
      BY <3>2, <3>3, CollectedIsWell
  <2>2. ASSUME Ruled("scenario")
        PROVE  /\ case \in ScenarioCases /\ WhoseOwn(rows)
               /\ SaidScenarios(case, rows) /\ MixedScenarios(case, rows)
    <3>1. /\ part \in Parts /\ part.rule = "scenario" /\ rows = RulesOf(part)
      BY <2>2 DEF RecordInv, Ruled
    <3>2. case \in ScenarioCases
      BY <3>1 DEF Parts
    <3>3. rows = Repaired(case.rows, case.text)
      BY <3>1 DEF RulesOf
    <3> HIDE DEF case, rows
    <3>4. QED
      BY <3>2, <3>3, RepairedOwn, SaidAreStored, MixedAreSplit
  <2>3. Ruled("collected") /\ Explicit(rows) # <<>> =>
          /\ Defaults(rows) = <<>> /\ Repaired(rows, case.text) = rows
          /\ (\A i, j \in DOMAIN case.text.pairs : i # j =>
                {case.text.pairs[i].left, case.text.pairs[i].right}
                  # {case.text.pairs[j].left, case.text.pairs[j].right}) =>
               \A p \in Pairs(case.text) :
                 {p.left, p.right} \subseteq {case.rows[i].name : i \in DOMAIN case.rows} =>
                   ValuesOf(rows, HeadToHead(p.left, p.right)) = PairRows(p)
    <3> HIDE DEF case, rows
    <3>1. QED
      BY <2>1 DEF CollectedWell, Different
  <2>4. QED
    BY <2>2, <2>3, Zenon DEF ScenariosSplit, WhoseOwn, SaidScenarios, MixedScenarios, Listed, InMulti
<1>2. QED
  BY <1>1, RecordInvariant, PTL
=============================================================================
