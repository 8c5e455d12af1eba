-------------------------- MODULE CollectorProofs ---------------------------
(***************************************************************************)
(* The collector, for any pages, any register and either driver: how an    *)
(* article is split into blocks, what is read out of a block, and that the *)
(* ledger accounts for every article and every survey the articles report. *)
(***************************************************************************)
EXTENDS Collector, RuleProofs

-----------------------------------------------------------------------------
(* The blocks of an article.                                               *)

\* The steps of the two folds of SplitSurveyBlocks.
PollsterOf(page, block) == First(PollsterTokens(At(page, block)), "none")
Numbers(page, block) == CandidatePairs(At(page, block), <<>>) # <<>>

GroupStep(page, blocks, i) ==
  IF blocks # <<>> /\ PollsterOf(page, Last(blocks)) \in {"none", page.segs[i].pollster}
  THEN AddTo(blocks, <<i>>) ELSE Append(blocks, <<i>>)

MergeStep(page, st, b) ==
  LET block == st.pending \o b
  IN IF Numbers(page, block) THEN [merged |-> Append(st.merged, block), pending |-> <<>>]
     ELSE IF st.merged # <<>> THEN [st EXCEPT !.merged = AddTo(@, block)]
     ELSE [st EXCEPT !.pending = block]

Whole(page) == [i \in DOMAIN page.segs |-> i]
Groups(page) == FoldLeft(LAMBDA blocks, i : GroupStep(page, blocks, i), <<>>, Whole(page))
Merges(page) ==
  FoldLeft(LAMBDA st, b : MergeStep(page, st, b), [merged |-> <<>>, pending |-> <<>>], Groups(page))

LEMMA SplitInSteps ==
  ASSUME NEW page
  PROVE  SplitSurveyBlocks(page) =
           IF Len(Merges(page).merged) >= 2 THEN Merges(page).merged ELSE <<Whole(page)>>
BY Zenon DEF SplitSurveyBlocks, Merges, Groups, Whole, MergeStep, GroupStep, PollsterOf, Numbers

\* Grouping goes from one segment to the next.
LEMMA GroupRuns ==
  ASSUME NEW page, NEW n \in Nat, Whole(page) \in Seq(1 .. n),
         \A a \in Seq(Seq(1 .. n)), b \in 1 .. n : GroupStep(page, a, b) \in Seq(Seq(1 .. n))
  PROVE  \E run \in [0 .. Len(Whole(page)) -> Seq(Seq(1 .. n))] :
           /\ run[0] = <<>>
           /\ \A k \in 0 .. Len(Whole(page)) - 1 : run[k + 1] = GroupStep(page, run[k], Whole(page)[k + 1])
           /\ Groups(page) = run[Len(Whole(page))]
<1> DEFINE S == Seq(Seq(1 .. n))
           T == 1 .. n
           seq == Whole(page)
           step == [p \in S \X T |-> GroupStep(page, p[1], p[2])]
           Rec(f) == [s \in SUBSET DOMAIN seq |->
                        IF s = {} THEN <<>> ELSE GroupStep(page, f[s \ {Max(s)}], seq[Max(s)])]
           iter == CHOOSE f : f = Rec(f)
<1>1. Groups(page) = iter[DOMAIN seq]
  BY Zenon DEF FoldLeft, MapThenFoldSet, Groups
<1>2. Foldable(S, T, <<>>, step, seq)
  <2>1. \A a \in S, b \in T : GroupStep(page, a, b) \in S
    OBVIOUS
  <2>2. <<>> \in S /\ seq \in Seq(T)
    OBVIOUS
  <2> HIDE DEF S, T, seq
  <2>3. step \in [S \X T -> S]
    BY <2>1
  <2> HIDE DEF step
  <2>4. QED
    BY <2>2, <2>3 DEF Foldable
<1>3. \A a \in S, b \in T : step[<<a, b>>] = GroupStep(page, a, b)
  <2> HIDE DEF S, T
  <2>1. QED
    OBVIOUS
<1>4. \A s \in SUBSET DOMAIN seq :
        s # {} => s \ {Max(s)} \in SUBSET DOMAIN seq /\ seq[Max(s)] \in T
  <2>1. seq \in Seq(T)
    OBVIOUS
  <2> HIDE DEF seq, T
  <2>2. QED
    BY <2>1, LastIndex
<1> HIDE DEF S, T, seq, step
<1>5. PICK h : h \in [SUBSET DOMAIN seq -> S] /\ FoldsSets(h, <<>>, step, seq)
  BY <1>2, FoldExists
<1>6. h = Rec(h)
  <2>1. \A s \in SUBSET DOMAIN seq :
          h[s] = IF s = {} THEN <<>> ELSE GroupStep(page, h[s \ {Max(s)}], seq[Max(s)])
    BY <1>3, <1>4, <1>5 DEF FoldsSets
  <2>2. h = [s \in SUBSET DOMAIN seq |-> h[s]]
    BY <1>5
  <2>3. QED
    BY <2>1, <2>2
<1>7. iter = Rec(iter)
  <2> HIDE DEF Rec
  <2>1. QED
    BY <1>6
<1> HIDE DEF iter
<1>8. FoldsWithin(iter, S, <<>>, step, seq)
  <2>1. Rec(iter)[{}] = <<>>
    OBVIOUS
  <2>2. ASSUME NEW s \in SUBSET DOMAIN seq, s # {}, iter[s \ {Max(s)}] \in S
        PROVE  Rec(iter)[s] = step[<<iter[s \ {Max(s)}], seq[Max(s)]>>]
    <3>1. Rec(iter)[s] = GroupStep(page, iter[s \ {Max(s)}], seq[Max(s)])
      BY <2>2
    <3> HIDE DEF Rec
    <3>2. QED
      BY <1>3, <1>4, <2>2, <3>1
  <2> HIDE DEF Rec
  <2>3. QED
    BY <1>7, <2>1, <2>2 DEF FoldsWithin
<1> HIDE DEF Rec
<1>9. PICK run : RunsThrough(run, S, <<>>, step, seq) /\ run[Len(seq)] = iter[DOMAIN seq]
  BY <1>2, <1>8, FoldRuns
<1>10. run \in [0 .. Len(seq) -> S] /\ run[0] = <<>>
       /\ \A k \in 0 .. Len(seq) - 1 : run[k + 1] = GroupStep(page, run[k], seq[k + 1])
  <2>1. ASSUME NEW k \in 0 .. Len(seq) - 1 PROVE run[k] \in S /\ seq[k + 1] \in T
    <3>1. seq \in Seq(T) /\ run \in [0 .. Len(seq) -> S]
      BY <1>2, <1>9 DEF Foldable, RunsThrough
    <3>2. Len(seq) \in Nat /\ DOMAIN seq = 1 .. Len(seq) /\ \A i \in DOMAIN seq : seq[i] \in T
      BY <3>1
    <3>3. k \in 0 .. Len(seq) /\ k + 1 \in DOMAIN seq
      BY <3>2
    <3>4. QED
      BY <3>1, <3>2, <3>3
  <2>2. QED
    BY <1>3, <1>9, <2>1 DEF RunsThrough
<1>11. QED
  BY <1>1, <1>9, <1>10 DEF S, T, seq

\* Merging goes from one group to the next.
LEMMA MergeRuns ==
  ASSUME NEW page, NEW n \in Nat, Groups(page) \in Seq(Seq(1 .. n)),
         \A a \in [merged : Seq(Seq(1 .. n)), pending : Seq(1 .. n)], b \in Seq(1 .. n) :
           MergeStep(page, a, b) \in [merged : Seq(Seq(1 .. n)), pending : Seq(1 .. n)]
  PROVE  \E run \in [0 .. Len(Groups(page)) -> [merged : Seq(Seq(1 .. n)), pending : Seq(1 .. n)]] :
           /\ run[0] = [merged |-> <<>>, pending |-> <<>>]
           /\ \A k \in 0 .. Len(Groups(page)) - 1 : run[k + 1] = MergeStep(page, run[k], Groups(page)[k + 1])
           /\ Merges(page) = run[Len(Groups(page))]
<1> DEFINE S == [merged : Seq(Seq(1 .. n)), pending : Seq(1 .. n)]
           T == Seq(1 .. n)
           seq == Groups(page)
           step == [p \in S \X T |-> MergeStep(page, p[1], p[2])]
           Rec(f) == [s \in SUBSET DOMAIN seq |->
                        IF s = {} THEN [merged |-> <<>>, pending |-> <<>>] ELSE MergeStep(page, f[s \ {Max(s)}], seq[Max(s)])]
           iter == CHOOSE f : f = Rec(f)
<1>1. Merges(page) = iter[DOMAIN seq]
  BY Zenon DEF FoldLeft, MapThenFoldSet, Merges
<1>2. Foldable(S, T, [merged |-> <<>>, pending |-> <<>>], step, seq)
  <2>1. \A a \in S, b \in T : MergeStep(page, a, b) \in S
    OBVIOUS
  <2>2. [merged |-> <<>>, pending |-> <<>>] \in S /\ seq \in Seq(T)
    OBVIOUS
  <2> HIDE DEF S, T, seq
  <2>3. step \in [S \X T -> S]
    BY <2>1
  <2> HIDE DEF step
  <2>4. QED
    BY <2>2, <2>3 DEF Foldable
<1>3. \A a \in S, b \in T : step[<<a, b>>] = MergeStep(page, a, b)
  <2> HIDE DEF S, T
  <2>1. QED
    OBVIOUS
<1>4. \A s \in SUBSET DOMAIN seq :
        s # {} => s \ {Max(s)} \in SUBSET DOMAIN seq /\ seq[Max(s)] \in T
  <2>1. seq \in Seq(T)
    OBVIOUS
  <2> HIDE DEF seq, T
  <2>2. QED
    BY <2>1, LastIndex
<1> HIDE DEF S, T, seq, step
<1>5. PICK h : h \in [SUBSET DOMAIN seq -> S] /\ FoldsSets(h, [merged |-> <<>>, pending |-> <<>>], step, seq)
  BY <1>2, FoldExists
<1>6. h = Rec(h)
  <2>1. \A s \in SUBSET DOMAIN seq :
          h[s] = IF s = {} THEN [merged |-> <<>>, pending |-> <<>>] ELSE MergeStep(page, h[s \ {Max(s)}], seq[Max(s)])
    BY <1>3, <1>4, <1>5 DEF FoldsSets
  <2>2. h = [s \in SUBSET DOMAIN seq |-> h[s]]
    BY <1>5
  <2>3. QED
    BY <2>1, <2>2
<1>7. iter = Rec(iter)
  <2> HIDE DEF Rec
  <2>1. QED
    BY <1>6
<1> HIDE DEF iter
<1>8. FoldsWithin(iter, S, [merged |-> <<>>, pending |-> <<>>], step, seq)
  <2>1. Rec(iter)[{}] = [merged |-> <<>>, pending |-> <<>>]
    OBVIOUS
  <2>2. ASSUME NEW s \in SUBSET DOMAIN seq, s # {}, iter[s \ {Max(s)}] \in S
        PROVE  Rec(iter)[s] = step[<<iter[s \ {Max(s)}], seq[Max(s)]>>]
    <3>1. Rec(iter)[s] = MergeStep(page, iter[s \ {Max(s)}], seq[Max(s)])
      BY <2>2
    <3> HIDE DEF Rec
    <3>2. QED
      BY <1>3, <1>4, <2>2, <3>1
  <2> HIDE DEF Rec
  <2>3. QED
    BY <1>7, <2>1, <2>2 DEF FoldsWithin
<1> HIDE DEF Rec
<1>9. PICK run : RunsThrough(run, S, [merged |-> <<>>, pending |-> <<>>], step, seq) /\ run[Len(seq)] = iter[DOMAIN seq]
  BY <1>2, <1>8, FoldRuns
<1>10. run \in [0 .. Len(seq) -> S] /\ run[0] = [merged |-> <<>>, pending |-> <<>>]
       /\ \A k \in 0 .. Len(seq) - 1 : run[k + 1] = MergeStep(page, run[k], seq[k + 1])
  <2>1. ASSUME NEW k \in 0 .. Len(seq) - 1 PROVE run[k] \in S /\ seq[k + 1] \in T
    <3>1. seq \in Seq(T) /\ run \in [0 .. Len(seq) -> S]
      BY <1>2, <1>9 DEF Foldable, RunsThrough
    <3>2. Len(seq) \in Nat /\ DOMAIN seq = 1 .. Len(seq) /\ \A i \in DOMAIN seq : seq[i] \in T
      BY <3>1
    <3>3. k \in 0 .. Len(seq) /\ k + 1 \in DOMAIN seq
      BY <3>2
    <3>4. QED
      BY <3>1, <3>2, <3>3
  <2>2. QED
    BY <1>3, <1>9, <2>1 DEF RunsThrough
<1>11. QED
  BY <1>1, <1>9, <1>10 DEF S, T, seq

\* A sequence after another holds what both hold.
LEMMA JoinHolds ==
  ASSUME NEW T, NEW s \in Seq(T), NEW t \in Seq(T)
  PROVE  /\ s \o t \in Seq(T)
         /\ \A x : Holds(s \o t, x) <=> Holds(s, x) \/ Holds(t, x)
         /\ s \o t = <<>> <=> s = <<>> /\ t = <<>>
         /\ \A i \in DOMAIN s : i \in DOMAIN (s \o t) /\ (s \o t)[i] = s[i]
<1> DEFINE c == s \o t
<1>1. /\ c \in Seq(T) /\ Len(c) = Len(s) + Len(t) /\ Len(s) \in Nat /\ Len(t) \in Nat
      /\ DOMAIN s = 1 .. Len(s) /\ DOMAIN t = 1 .. Len(t) /\ DOMAIN c = 1 .. Len(c)
      /\ \A i \in 1 .. Len(s) : c[i] = s[i]
      /\ \A i \in 1 .. Len(t) : c[Len(s) + i] = t[i]
      /\ (s = <<>> <=> Len(s) = 0) /\ (t = <<>> <=> Len(t) = 0) /\ (c = <<>> <=> Len(c) = 0)
  OBVIOUS
<1> HIDE DEF c
<1>2. ASSUME NEW x PROVE Holds(c, x) <=> Holds(s, x) \/ Holds(t, x)
  <2>1. ASSUME Holds(s, x) PROVE Holds(c, x)
    <3>1. PICK i \in 1 .. Len(s) : s[i] = x
      BY <1>1, <2>1 DEF Holds
    <3>2. i \in DOMAIN c /\ c[i] = x
      BY <1>1, <3>1
    <3>3. QED
      BY <3>2 DEF Holds
  <2>2. ASSUME Holds(t, x) PROVE Holds(c, x)
    <3>1. PICK i \in 1 .. Len(t) : t[i] = x
      BY <1>1, <2>2 DEF Holds
    <3>2. Len(s) + i \in DOMAIN c /\ c[Len(s) + i] = x
      BY <1>1, <3>1
    <3>3. QED
      BY <3>2 DEF Holds
  <2>3. ASSUME Holds(c, x) PROVE Holds(s, x) \/ Holds(t, x)
    <3>1. PICK i \in DOMAIN c : c[i] = x
      BY <2>3 DEF Holds
    <3>2. CASE i \in 1 .. Len(s)
      BY <1>1, <3>1, <3>2 DEF Holds
    <3>3. CASE i \notin 1 .. Len(s)
      <4>1. i - Len(s) \in 1 .. Len(t) /\ Len(s) + (i - Len(s)) = i
        BY <1>1, <3>3
      <4>2. t[i - Len(s)] = x
        BY <1>1, <3>1, <4>1
      <4>3. QED
        BY <1>1, <4>1, <4>2 DEF Holds
    <3>4. QED
      BY <3>2, <3>3
  <2>4. QED
    BY <2>1, <2>2, <2>3
<1>3. c = <<>> <=> s = <<>> /\ t = <<>>
  BY <1>1
<1>4. \A i \in DOMAIN s : i \in DOMAIN c /\ c[i] = s[i]
  BY <1>1
<1>5. QED
  BY <1>1, <1>2, <1>3, <1>4 DEF c

\* Blocks that are not empty and share nothing, and what is in one of them.
Apart(B) ==
  /\ \A b \in DOMAIN B : B[b] # <<>>
  /\ \A b, c \in DOMAIN B : b # c => \A x : ~ (Holds(B[b], x) /\ Holds(B[c], x))

Within(B, x) == \E b \in DOMAIN B : Holds(B[b], x)

LEMMA AppendApart ==
  ASSUME NEW T, NEW B \in Seq(Seq(T)), NEW c \in Seq(T), c # <<>>, Apart(B),
         \A x : Holds(c, x) => ~ Within(B, x)
  PROVE  /\ Append(B, c) \in Seq(Seq(T)) /\ Append(B, c) # <<>> /\ Apart(Append(B, c))
         /\ \A x : Within(Append(B, c), x) <=> Within(B, x) \/ Holds(c, x)
<1> DEFINE D == Append(B, c)
           S == Seq(T)
<1>1. B \in Seq(S) /\ c \in S
  OBVIOUS
<1> HIDE DEF S
<1>2. /\ D \in Seq(S) /\ D # <<>> /\ Len(B) \in Nat /\ DOMAIN B = 1 .. Len(B)
      /\ DOMAIN D = 1 .. Len(B) + 1
      /\ D[Len(B) + 1] = c /\ \A b \in 1 .. Len(B) : D[b] = B[b]
  <2>1. D \in Seq(S) /\ Len(D) = Len(B) + 1 /\ Len(B) \in Nat /\ DOMAIN B = 1 .. Len(B)
    BY <1>1
  <2>2. DOMAIN D = 1 .. Len(B) + 1 /\ D # <<>>
    <3> HIDE DEF D
    <3>1. QED
      BY <2>1
  <2>3. D[Len(B) + 1] = c /\ \A b \in 1 .. Len(B) : D[b] = B[b]
    BY <1>1
  <2> HIDE DEF D
  <2>4. QED
    BY <2>1, <2>2, <2>3
<1> HIDE DEF D
<1>3. ASSUME NEW b \in DOMAIN D PROVE D[b] # <<>>
  <2>1. b = Len(B) + 1 \/ b \in 1 .. Len(B)
    BY <1>2
  <2>2. QED
    BY <1>2, <2>1 DEF Apart
<1>4. ASSUME NEW b \in DOMAIN D, NEW d \in DOMAIN D, b # d, NEW x PROVE ~ (Holds(D[b], x) /\ Holds(D[d], x))
  <2>1. /\ b = Len(B) + 1 \/ b \in 1 .. Len(B)
        /\ d = Len(B) + 1 \/ d \in 1 .. Len(B)
    BY <1>2
  <2>2. CASE b \in 1 .. Len(B) /\ d \in 1 .. Len(B)
    BY <1>2, <1>4, <2>2 DEF Apart
  <2>3. CASE b = Len(B) + 1 /\ d \in 1 .. Len(B)
    BY <1>2, <2>3 DEF Within
  <2>4. CASE d = Len(B) + 1 /\ b \in 1 .. Len(B)
    BY <1>2, <2>4 DEF Within
  <2>5. QED
    BY <1>4, <2>1, <2>2, <2>3, <2>4
<1>5. ASSUME NEW x PROVE Within(D, x) <=> Within(B, x) \/ Holds(c, x)
  <2>1. ASSUME Within(D, x) PROVE Within(B, x) \/ Holds(c, x)
    <3>1. PICK b \in DOMAIN D : Holds(D[b], x)
      BY <2>1 DEF Within
    <3>2. b = Len(B) + 1 \/ b \in 1 .. Len(B)
      BY <1>2
    <3>3. QED
      BY <1>2, <3>1, <3>2 DEF Within
  <2>2. ASSUME Holds(c, x) PROVE Within(D, x)
    <3>1. Len(B) + 1 \in DOMAIN D
      BY <1>2
    <3>2. QED
      BY <1>2, <2>2, <3>1 DEF Within
  <2>3. ASSUME Within(B, x) PROVE Within(D, x)
    <3>1. PICK b \in DOMAIN B : Holds(B[b], x)
      BY <2>3 DEF Within
    <3>2. b \in DOMAIN D /\ D[b] = B[b]
      BY <1>2
    <3>3. QED
      BY <3>1, <3>2 DEF Within
  <2>4. QED
    BY <2>1, <2>2, <2>3
<1>6. Apart(D)
  BY <1>3, <1>4 DEF Apart
<1>7. QED
  BY <1>2, <1>5, <1>6 DEF D, S

LEMMA AddToApart ==
  ASSUME NEW T, NEW B \in Seq(Seq(T)), NEW c \in Seq(T), B # <<>>, Apart(B),
         \A x : Holds(c, x) => ~ Within(B, x)
  PROVE  /\ AddTo(B, c) \in Seq(Seq(T)) /\ AddTo(B, c) # <<>> /\ Apart(AddTo(B, c))
         /\ \A x : Within(AddTo(B, c), x) <=> Within(B, x) \/ Holds(c, x)
<1> DEFINE n == Len(B)
           D == AddTo(B, c)
           S == Seq(T)
           more == B[n] \o c
<1>1. n \in Nat \ {0} /\ DOMAIN B = 1 .. n /\ n \in DOMAIN B /\ \A b \in 1 .. n : B[b] \in S
  OBVIOUS
<1>2. /\ more \in S /\ \A x : Holds(more, x) <=> Holds(B[n], x) \/ Holds(c, x)
      /\ more = <<>> <=> B[n] = <<>> /\ c = <<>>
  BY <1>1, JoinHolds
<1>3. B \in Seq(S)
  OBVIOUS
<1> HIDE DEF n, S, more
<1>4. D = [B EXCEPT ![n] = more]
  BY Zenon DEF AddTo, n, more
<1>5. D \in Seq(S) /\ D # <<>> /\ DOMAIN D = DOMAIN B /\ D[n] = more
      /\ \A b \in DOMAIN B : b # n => D[b] = B[b]
  BY <1>1, <1>2, <1>3, <1>4
<1> HIDE DEF D
<1>6. ASSUME NEW b \in DOMAIN D PROVE D[b] # <<>>
  BY <1>1, <1>2, <1>5 DEF Apart
<1>7. ASSUME NEW b \in DOMAIN D, NEW x, Holds(D[b], x)
      PROVE  Holds(B[b], x) \/ (b = n /\ Holds(c, x))
  BY <1>2, <1>5, <1>7
<1>8. ASSUME NEW b \in DOMAIN D, NEW d \in DOMAIN D, b # d, NEW x, Holds(D[b], x), Holds(D[d], x)
      PROVE  FALSE
  <2>1. CASE Holds(B[b], x) /\ Holds(B[d], x)
    BY <1>5, <1>8, <2>1 DEF Apart
  <2>2. CASE Holds(c, x)
    <3>1. (b # n => Within(B, x)) /\ (d # n => Within(B, x))
      BY <1>5, <1>7, <1>8 DEF Within
    <3>2. QED
      BY <1>8, <2>2, <3>1
  <2>3. QED
    BY <1>7, <1>8, <2>1, <2>2
<1>9. ASSUME NEW x PROVE Within(D, x) <=> Within(B, x) \/ Holds(c, x)
  <2>1. ASSUME Within(D, x) PROVE Within(B, x) \/ Holds(c, x)
    <3>1. PICK b \in DOMAIN D : Holds(D[b], x)
      BY <2>1 DEF Within
    <3>2. QED
      BY <1>5, <1>7, <3>1 DEF Within
  <2>2. ASSUME Holds(c, x) PROVE Within(D, x)
    BY <1>1, <1>2, <1>5, <2>2 DEF Within
  <2>3. ASSUME Within(B, x) PROVE Within(D, x)
    <3>1. PICK b \in DOMAIN B : Holds(B[b], x)
      BY <2>3 DEF Within
    <3>2. Holds(D[b], x)
      BY <1>2, <1>5, <3>1
    <3>3. QED
      BY <1>5, <3>2 DEF Within
  <2>4. QED
    BY <2>1, <2>2, <2>3
<1>10. Apart(D)
  BY <1>6, <1>8 DEF Apart
<1>11. QED
  BY <1>5, <1>9, <1>10 DEF D, S

LEMMA AddToType ==
  ASSUME NEW T, NEW B \in Seq(Seq(T)), NEW c \in Seq(T), B # <<>>
  PROVE  AddTo(B, c) \in Seq(Seq(T))
<1> DEFINE n == Len(B)
           S == Seq(T)
           more == B[n] \o c
<1>1. n \in Nat \ {0} /\ DOMAIN B = 1 .. n /\ n \in DOMAIN B /\ B[n] \in S /\ B \in Seq(S)
  OBVIOUS
<1>2. more \in S
  BY <1>1
<1> HIDE DEF n, S, more
<1>3. AddTo(B, c) = [B EXCEPT ![n] = more]
  BY Zenon DEF AddTo, n, more
<1>4. AddTo(B, c) \in Seq(S)
  BY <1>1, <1>2, <1>3
<1>5. QED
  BY <1>4 DEF S

\* The groups of neighbours share no segment and leave none out.
LEMMA GroupsApart ==
  ASSUME NEW page, NEW n \in Nat, DOMAIN page.segs = 1 .. n
  PROVE  /\ Groups(page) \in Seq(Seq(1 .. n)) /\ Apart(Groups(page))
         /\ \A x : Within(Groups(page), x) <=> x \in 1 .. n
<1>1. Whole(page) \in Seq(1 .. n) /\ Len(Whole(page)) = n /\ \A k \in 1 .. n : Whole(page)[k] = k
  BY DEF Whole
<1>2. ASSUME NEW a \in Seq(Seq(1 .. n)), NEW b \in 1 .. n
      PROVE  /\ GroupStep(page, a, b) \in Seq(Seq(1 .. n))
             /\ \/ a # <<>> /\ GroupStep(page, a, b) = AddTo(a, <<b>>)
                \/ GroupStep(page, a, b) = Append(a, <<b>>)
  <2>1. <<b>> \in Seq(1 .. n)
    OBVIOUS
  <2>2. \/ a # <<>> /\ GroupStep(page, a, b) = AddTo(a, <<b>>)
        \/ GroupStep(page, a, b) = Append(a, <<b>>)
    BY DEF GroupStep
  <2>3. a # <<>> => AddTo(a, <<b>>) \in Seq(Seq(1 .. n))
    BY <2>1, AddToType
  <2>4. Append(a, <<b>>) \in Seq(Seq(1 .. n))
    <3> DEFINE S == Seq(1 .. n)
    <3>1. a \in Seq(S) /\ <<b>> \in S
      BY <2>1
    <3> HIDE DEF S
    <3>2. Append(a, <<b>>) \in Seq(S)
      BY <3>1
    <3>3. QED
      BY <3>2 DEF S
  <2>5. QED
    BY <2>2, <2>3, <2>4
<1>3. PICK run \in [0 .. n -> Seq(Seq(1 .. n))] :
        /\ run[0] = <<>>
        /\ \A k \in 0 .. n - 1 : run[k + 1] = GroupStep(page, run[k], k + 1)
        /\ Groups(page) = run[n]
  <2>1. \A a \in Seq(Seq(1 .. n)), b \in 1 .. n : GroupStep(page, a, b) \in Seq(Seq(1 .. n))
    BY <1>2
  <2>2. PICK run \in [0 .. Len(Whole(page)) -> Seq(Seq(1 .. n))] :
          /\ run[0] = <<>>
          /\ \A k \in 0 .. Len(Whole(page)) - 1 :
               run[k + 1] = GroupStep(page, run[k], Whole(page)[k + 1])
          /\ Groups(page) = run[Len(Whole(page))]
    BY <1>1, <2>1, GroupRuns
  <2>3. \A k \in 0 .. n - 1 : k + 1 \in 1 .. n
    OBVIOUS
  <2>4. QED
    BY <1>1, <2>2, <2>3
<1> DEFINE Good(k, B) == Apart(B) /\ \A x : Within(B, x) <=> x \in 1 .. k
           A == {k \in 0 .. n : Good(k, run[k])}
<1>4. 0 \in A
  <2>1. Good(0, <<>>)
    BY DEF Apart, Within
  <2> HIDE DEF Good
  <2>2. QED
    BY <1>3, <2>1
<1>5. ASSUME NEW k \in 0 .. n - 1, k \in A PROVE k + 1 \in A
  <2> DEFINE B == run[k]
             c == <<k + 1>>
  <2>1. k + 1 \in 1 .. n /\ k + 1 \in 0 .. n /\ k \in 0 .. n /\ B \in Seq(Seq(1 .. n)) /\ Good(k, B)
    BY <1>3, <1>5
  <2>2. c \in Seq(1 .. n) /\ c # <<>> /\ \A x : Holds(c, x) <=> x = k + 1
    BY <2>1 DEF Holds
  <2> HIDE DEF B, c
  <2>3. \A x : Holds(c, x) => ~ Within(B, x)
    BY <2>1, <2>2
  <2>4. Good(k + 1, AddTo(B, c)) \/ B = <<>>
    <3>1. B # <<>> => /\ Apart(AddTo(B, c))
                      /\ \A x : Within(AddTo(B, c), x) <=> Within(B, x) \/ Holds(c, x)
      BY <2>1, <2>2, <2>3, AddToApart
    <3>2. \A x : x \in 1 .. k + 1 <=> x \in 1 .. k \/ x = k + 1
      BY <2>1
    <3>3. QED
      BY <2>1, <2>2, <3>1, <3>2
  <2>5. Good(k + 1, Append(B, c))
    <3>1. /\ Apart(Append(B, c))
          /\ \A x : Within(Append(B, c), x) <=> Within(B, x) \/ Holds(c, x)
      BY <2>1, <2>2, <2>3, AppendApart
    <3>2. \A x : x \in 1 .. k + 1 <=> x \in 1 .. k \/ x = k + 1
      BY <2>1
    <3>3. QED
      BY <2>1, <2>2, <3>1, <3>2
  <2>6. (B # <<>> /\ run[k + 1] = AddTo(B, c)) \/ run[k + 1] = Append(B, c)
    BY <1>2, <1>3, <2>1 DEF B, c
  <2> HIDE DEF Good
  <2>7. QED
    BY <2>1, <2>4, <2>5, <2>6
<1>6. Good(n, run[n])
  <2>1. n \in 0 .. n
    OBVIOUS
  <2> HIDE DEF Good, A
  <2>2. \A k \in 0 .. n : k \in A
    BY <1>4, <1>5, UpTo
  <2>3. n \in A
    BY <2>1, <2>2
  <2>4. QED
    BY <2>3 DEF A
<1>7. QED
  <2>1. n \in 0 .. n
    OBVIOUS
  <2>2. QED
    BY <1>3, <1>6, <2>1

\* So do the blocks that merging makes of them, as long as nothing is pending.
LEMMA MergesApart ==
  ASSUME NEW page, NEW n \in Nat, DOMAIN page.segs = 1 .. n
  PROVE  LET st == Merges(page)
         IN /\ st \in [merged : Seq(Seq(1 .. n)), pending : Seq(1 .. n)] /\ Apart(st.merged)
            /\ st.merged # <<>> => \A x : Within(st.merged, x) <=> x \in 1 .. n
<1> DEFINE g == Groups(page)
           m == Len(g)
           Block == Seq(1 .. n)
           State == [merged : Seq(Block), pending : Block]
           none == [merged |-> <<>>, pending |-> <<>>]
<1>1. g \in Seq(Block) /\ Apart(g) /\ \A x : Within(g, x) <=> x \in 1 .. n
  BY GroupsApart
<1> HIDE DEF g, Block
<1>2. m \in Nat /\ DOMAIN g = 1 .. m /\ \A k \in 1 .. m : g[k] \in Block /\ g[k] # <<>>
  BY <1>1 DEF Apart
<1> HIDE DEF m
<1>3. ASSUME NEW st \in State, NEW b \in Block
      PROVE  LET block == st.pending \o b
             IN /\ block \in Block
                /\ block = <<>> <=> st.pending = <<>> /\ b = <<>>
                /\ \A x : Holds(block, x) <=> Holds(st.pending, x) \/ Holds(b, x)
                /\ MergeStep(page, st, b) \in State
                /\ \/ MergeStep(page, st, b) = [merged |-> Append(st.merged, block), pending |-> <<>>]
                   \/ /\ st.merged # <<>>
                      /\ MergeStep(page, st, b) = [merged |-> AddTo(st.merged, block), pending |-> st.pending]
                   \/ /\ st.merged = <<>>
                      /\ MergeStep(page, st, b) = [merged |-> <<>>, pending |-> block]
  <2> DEFINE block == st.pending \o b
  <2>1. st = [merged |-> st.merged, pending |-> st.pending] /\ st.merged \in Seq(Block) /\ st.pending \in Block
    OBVIOUS
  <2>2. /\ block \in Block
        /\ block = <<>> <=> st.pending = <<>> /\ b = <<>>
        /\ \A x : Holds(block, x) <=> Holds(st.pending, x) \/ Holds(b, x)
    BY <2>1, JoinHolds DEF Block
  <2> HIDE DEF block
  <2>3. \/ MergeStep(page, st, b) = [merged |-> Append(st.merged, block), pending |-> <<>>]
        \/ /\ st.merged # <<>>
           /\ MergeStep(page, st, b) = [merged |-> AddTo(st.merged, block), pending |-> st.pending]
        \/ /\ st.merged = <<>>
           /\ MergeStep(page, st, b) = [merged |-> <<>>, pending |-> block]
    <3>1. MergeStep(page, st, b) =
            IF Numbers(page, block) THEN [merged |-> Append(st.merged, block), pending |-> <<>>]
            ELSE IF st.merged # <<>> THEN [st EXCEPT !.merged = AddTo(@, block)]
            ELSE [st EXCEPT !.pending = block]
      BY Zenon DEF MergeStep, block
    <3>2. /\ [st EXCEPT !.merged = AddTo(@, block)] = [merged |-> AddTo(st.merged, block), pending |-> st.pending]
          /\ [st EXCEPT !.pending = block] = [merged |-> st.merged, pending |-> block]
      BY <2>1
    <3>3. QED
      BY <3>1, <3>2
  <2>4. Append(st.merged, block) \in Seq(Block) /\ <<>> \in Block /\ <<>> \in Seq(Block)
    BY <2>1, <2>2 DEF Block
  <2>5. st.merged # <<>> => AddTo(st.merged, block) \in Seq(Block)
    BY <2>1, <2>2, AddToType DEF Block
  <2>6. MergeStep(page, st, b) \in State
    <3>1. ASSUME NEW s \in Seq(Block), NEW p \in Block PROVE [merged |-> s, pending |-> p] \in State
      OBVIOUS
    <3> HIDE DEF State
    <3>2. /\ [merged |-> Append(st.merged, block), pending |-> <<>>] \in State
          /\ st.merged # <<>> => [merged |-> AddTo(st.merged, block), pending |-> st.pending] \in State
          /\ [merged |-> <<>>, pending |-> block] \in State
      BY <2>1, <2>2, <2>4, <2>5, <3>1
    <3>3. QED
      BY <2>3, <3>2
  <2>7. QED
    BY <2>2, <2>3, <2>6 DEF block
<1>4. PICK run \in [0 .. m -> State] :
        /\ run[0] = none
        /\ \A k \in 0 .. m - 1 : run[k + 1] = MergeStep(page, run[k], g[k + 1])
        /\ Merges(page) = run[m]
  <2>1. \A a \in State, b \in Block : MergeStep(page, a, b) \in State
    BY <1>3
  <2>2. QED
    BY <1>1, <2>1, MergeRuns DEF g, m, Block
<1> DEFINE Good(k, st) ==
             /\ Apart(st.merged) /\ (st.pending # <<>> => st.merged = <<>>)
             /\ \A x : Within(st.merged, x) \/ Holds(st.pending, x) <=> \E b \in 1 .. k : Holds(g[b], x)
           A == {k \in 0 .. m : Good(k, run[k])}
<1>5. 0 \in A
  <2>1. Apart(<<>>) /\ \A x : ~ Within(<<>>, x) /\ ~ Holds(<<>>, x)
    BY DEF Apart, Within, Holds
  <2>2. none.merged = <<>> /\ none.pending = <<>> /\ 1 .. 0 = {}
    OBVIOUS
  <2>3. Good(0, none)
    BY <2>1, <2>2
  <2> HIDE DEF Good
  <2>4. QED
    BY <1>2, <1>4, <2>3
<1>6. ASSUME NEW k \in 0 .. m - 1, k \in A PROVE k + 1 \in A
  <2> DEFINE st == run[k]
             b == g[k + 1]
             block == st.pending \o b
             new == MergeStep(page, st, b)
  <2>1. k + 1 \in 1 .. m /\ k + 1 \in 0 .. m /\ k \in 0 .. m /\ k \in Nat /\ m \in Nat
    BY <1>2
  <2>2. st \in State /\ b \in Block /\ b # <<>> /\ Good(k, st) /\ run[k + 1] = new
    BY <1>2, <1>4, <1>6, <2>1
  <2>3. st.merged \in Seq(Block) /\ st.pending \in Block
    BY <2>2
  <2> HIDE DEF st, b
  <2>4. /\ block \in Block /\ block # <<>>
        /\ \A x : Holds(block, x) <=> Holds(st.pending, x) \/ Holds(b, x)
        /\ \/ new = [merged |-> Append(st.merged, block), pending |-> <<>>]
           \/ st.merged # <<>> /\ new = [merged |-> AddTo(st.merged, block), pending |-> st.pending]
           \/ st.merged = <<>> /\ new = [merged |-> <<>>, pending |-> block]
    BY <1>3, <2>2
  <2> HIDE DEF block, new
  <2>5. \A x : ~ Within(<<>>, x) /\ ~ Holds(<<>>, x)
    BY DEF Within, Holds
  <2>6. ASSUME NEW x, Holds(block, x) PROVE ~ Within(st.merged, x)
    <3>1. CASE Holds(st.pending, x)
      BY <2>2, <2>5, <3>1
    <3>2. CASE Holds(b, x)
      <4>1. Within(st.merged, x) => \E c \in 1 .. k : Holds(g[c], x)
        BY <2>2
      <4>2. \A c \in 1 .. k : ~ Holds(g[c], x)
        <5>1. ASSUME NEW c \in 1 .. k PROVE c \in DOMAIN g /\ k + 1 \in DOMAIN g /\ c # k + 1
          BY <1>2, <2>1
        <5>2. QED
          BY <1>1, <3>2, <5>1 DEF Apart, b
      <4>3. QED
        BY <4>1, <4>2
    <3>3. QED
      BY <2>4, <2>6, <3>1, <3>2
  <2>7. ASSUME NEW x PROVE (\E c \in 1 .. k + 1 : Holds(g[c], x)) <=>
                             (\E c \in 1 .. k : Holds(g[c], x)) \/ Holds(b, x)
    <3>1. \A c : c \in 1 .. k + 1 <=> c \in 1 .. k \/ c = k + 1
      BY <2>1
    <3>2. QED
      BY <3>1 DEF b
  <2>8. CASE new = [merged |-> Append(st.merged, block), pending |-> <<>>]
    <3>1. /\ Apart(Append(st.merged, block))
          /\ \A x : Within(Append(st.merged, block), x) <=> Within(st.merged, x) \/ Holds(block, x)
      BY <2>3, <2>4, <2>2, <2>6, AppendApart DEF Block
    <3>2. new.merged = Append(st.merged, block) /\ new.pending = <<>>
      BY <2>8
    <3>3. Good(k + 1, new)
      BY <2>2, <2>4, <2>5, <2>7, <3>1, <3>2
    <3> HIDE DEF Good
    <3>4. QED
      BY <2>1, <2>2, <3>3
  <2>9. CASE st.merged # <<>> /\ new = [merged |-> AddTo(st.merged, block), pending |-> st.pending]
    <3>1. /\ Apart(AddTo(st.merged, block))
          /\ \A x : Within(AddTo(st.merged, block), x) <=> Within(st.merged, x) \/ Holds(block, x)
      BY <2>3, <2>4, <2>2, <2>6, <2>9, AddToApart DEF Block
    <3>2. new.merged = AddTo(st.merged, block) /\ new.pending = st.pending /\ st.pending = <<>>
      BY <2>2, <2>9
    <3>3. Good(k + 1, new)
      BY <2>2, <2>4, <2>5, <2>7, <3>1, <3>2
    <3> HIDE DEF Good
    <3>4. QED
      BY <2>1, <2>2, <3>3
  <2>10. CASE st.merged = <<>> /\ new = [merged |-> <<>>, pending |-> block]
    <3>1. new.merged = <<>> /\ new.pending = block
      BY <2>10
    <3>2. Good(k + 1, new)
      BY <2>2, <2>4, <2>5, <2>7, <2>10, <3>1
    <3> HIDE DEF Good
    <3>3. QED
      BY <2>1, <2>2, <3>2
  <2>11. QED
    BY <2>4, <2>8, <2>9, <2>10
<1>7. Good(m, run[m]) /\ run[m] \in State
  <2>1. m \in 0 .. m
    BY <1>2
  <2> HIDE DEF Good, A
  <2>2. \A k \in 0 .. m : k \in A
    BY <1>2, <1>5, <1>6, UpTo
  <2>3. m \in A
    BY <2>1, <2>2
  <2>4. QED
    BY <1>4, <2>1, <2>3 DEF A
<1>8. ASSUME NEW x, run[m].merged # <<>> PROVE Within(run[m].merged, x) <=> x \in 1 .. n
  <2>1. run[m].pending = <<>> /\ ~ Holds(<<>>, x)
    BY <1>7, <1>8 DEF Holds
  <2>2. Within(run[m].merged, x) <=> \E b \in 1 .. m : Holds(g[b], x)
    BY <1>7, <2>1
  <2>3. QED
    BY <1>1, <1>2, <2>2 DEF Within
<1>9. QED
  BY <1>4, <1>7, <1>8 DEF Block

\* Every segment is in one block, whatever the text says.
IsSplit(B, n) ==
  /\ B \in Seq(Seq(1 .. n)) /\ B # <<>>
  /\ \A x : Within(B, x) <=> x \in 1 .. n
  /\ \A b, c \in DOMAIN B : b # c => B[b] # B[c] /\ \A x : ~ (Holds(B[b], x) /\ Holds(B[c], x))

LEMMA BlocksSplit ==
  ASSUME NEW page, NEW n \in Nat, DOMAIN page.segs = 1 .. n
  PROVE  IsSplit(SplitSurveyBlocks(page), n)
<1> DEFINE B == Merges(page).merged
           W == Whole(page)
<1>1. /\ B \in Seq(Seq(1 .. n)) /\ Apart(B)
      /\ B # <<>> => \A x : Within(B, x) <=> x \in 1 .. n
  BY MergesApart
<1>2. W \in Seq(1 .. n) /\ DOMAIN W = 1 .. n /\ \A i \in 1 .. n : W[i] = i
  BY DEF Whole
<1>3. SplitSurveyBlocks(page) = IF Len(B) >= 2 THEN B ELSE <<W>>
  BY SplitInSteps
<1> HIDE DEF B, W
<1>4. CASE Len(B) >= 2
  <2>1. B # <<>>
    BY <1>4
  <2>2. ASSUME NEW b \in DOMAIN B, NEW c \in DOMAIN B, b # c
        PROVE  B[b] # B[c] /\ \A x : ~ (Holds(B[b], x) /\ Holds(B[c], x))
    <3>1. B[b] # <<>> /\ \A x : ~ (Holds(B[b], x) /\ Holds(B[c], x))
      BY <1>1, <2>2 DEF Apart
    <3>2. B[b] \in Seq(1 .. n)
      BY <1>1
    <3>3. 1 \in DOMAIN B[b]
      BY <3>1, <3>2
    <3>4. Holds(B[b], B[b][1])
      BY <3>3 DEF Holds
    <3>5. QED
      BY <3>1, <3>4
  <2>3. QED
    BY <1>1, <1>3, <1>4, <2>1, <2>2 DEF IsSplit
<1>5. CASE ~ (Len(B) >= 2)
  <2> DEFINE C == <<W>>
  <2>1. C \in Seq(Seq(1 .. n)) /\ C # <<>> /\ DOMAIN C = {1} /\ C[1] = W
    BY <1>2
  <2> HIDE DEF C
  <2>2. ASSUME NEW x PROVE Within(C, x) <=> x \in 1 .. n
    BY <1>2, <2>1 DEF Within, Holds
  <2>3. IsSplit(C, n)
    BY <2>1, <2>2 DEF IsSplit
  <2>4. QED
    BY <1>3, <1>5, <2>3 DEF C
<1>6. QED
  BY <1>4, <1>5

-----------------------------------------------------------------------------
(* What the segments of a block say.                                       *)

\* The elements of a segment's or a title's lists that a block says.
LEMMA SaidHolds ==
  ASSUME NEW T, NEW R, NEW segs \in Seq(R), NEW field, \A r \in R : r[field] \in Seq(T)
  PROVE  /\ Said(segs, field) \in Seq(T)
         /\ \A x : Holds(Said(segs, field), x) <=> \E i \in DOMAIN segs : Holds(segs[i][field], x)
<1> DEFINE lists == [i \in DOMAIN segs |-> segs[i][field]]
           S == Seq(T)
<1>0. DOMAIN segs = 1 .. Len(segs) /\ Len(segs) \in Nat /\ \A i \in DOMAIN segs : segs[i] \in R
  OBVIOUS
<1>1. \A i \in DOMAIN segs : lists[i] \in S
  BY <1>0
<1>2. DOMAIN lists = DOMAIN segs /\ lists \in Seq(S)
  <2> HIDE DEF S
  <2>1. lists \in [1 .. Len(segs) -> S]
    BY <1>0, <1>1
  <2>2. QED
    BY <1>0, <2>1
<1>3. \A i \in DOMAIN segs : lists[i] = segs[i][field]
  OBVIOUS
<1>4. Said(segs, field) = FlattenSeq(lists)
  BY DEF Said
<1> HIDE DEF lists
<1>5. QED
  BY <1>2, <1>3, <1>4, Flattened

LEMMA FirstHolds ==
  ASSUME NEW T, NEW s \in Seq(T), NEW none
  PROVE  /\ s = <<>> => First(s, none) = none
         /\ s # <<>> => First(s, none) = s[1] /\ First(s, none) \in T /\ Holds(s, First(s, none))
<1>1. s # <<>> => 1 \in DOMAIN s /\ s[1] \in T
  OBVIOUS
<1>2. QED
  BY <1>1 DEF First, Holds

\* Once keeps one of each.
LEMMA OnceHolds ==
  ASSUME NEW T, NEW s \in Seq(T)
  PROVE  /\ Once(s) \in Seq(T)
         /\ \A x : Holds(Once(s), x) <=> Holds(s, x)
         /\ Once(s) = <<>> <=> s = <<>>
<1> DEFINE I == {i \in DOMAIN s : \A j \in 1 .. i - 1 : s[j] # s[i]}
<1>0. DOMAIN s = 1 .. Len(s) /\ Len(s) \in Nat
  OBVIOUS
<1>1. /\ Once(s) \in Seq(T)
      /\ \A x : Holds(Once(s), x) <=> \E i \in I \cap DOMAIN s : s[i] = x
      /\ Once(s) = <<>> <=> I \cap DOMAIN s = {}
  BY KeptHolds DEF Once
<1>2. ASSUME NEW i \in DOMAIN s PROVE \E j \in I : s[j] = s[i]
  <2> DEFINE same == {j \in DOMAIN s : s[j] = s[i]}
  <2>1. same \subseteq Nat /\ same # {}
    BY <1>0
  <2>2. PICK m \in same : \A k \in same : m <= k
    BY <2>1, LeastNumber
  <2>3. m \in I
    BY <1>0, <2>2
  <2>4. QED
    BY <2>3
<1>3. \A x : Holds(Once(s), x) <=> Holds(s, x)
  BY <1>1, <1>2 DEF Holds
<1>4. Once(s) = <<>> <=> s = <<>>
  <2>1. s # <<>> => 1 \in DOMAIN s
    BY <1>0
  <2>2. s = <<>> => DOMAIN s = {}
    OBVIOUS
  <2>3. QED
    BY <1>1, <1>2, <2>1, <2>2
<1>5. QED
  BY <1>1, <1>3, <1>4

\* The part of the text a block stands for.
LEMMA AtSegments ==
  ASSUME NEW page \in ArticlePage, NEW n \in Nat, DOMAIN page.segs = 1 .. n, NEW block \in Seq(1 .. n)
  PROVE  /\ At(page, block) \in Seq(SurveySegment)
         /\ DOMAIN At(page, block) = DOMAIN block
         /\ \A k \in DOMAIN block : At(page, block)[k] = page.segs[block[k]]
<1>1. page.segs \in Seq(SurveySegment)
  BY DEF ArticlePage
<1>2. DOMAIN block = 1 .. Len(block) /\ Len(block) \in Nat /\ \A k \in DOMAIN block : block[k] \in 1 .. n
  OBVIOUS
<1>3. \A i \in 1 .. n : page.segs[i] \in SurveySegment
  BY <1>1
<1> DEFINE S == SurveySegment
<1>4. At(page, block) \in [1 .. Len(block) -> S]
  <2> HIDE DEF S
  <2>1. \A k \in DOMAIN block : page.segs[block[k]] \in S
    BY <1>2, <1>3 DEF S
  <2>2. QED
    BY <1>2, <2>1 DEF At
<1> HIDE DEF S
<1>5. At(page, block) \in Seq(S)
  BY <1>2, <1>4
<1>6. QED
  BY <1>2, <1>4, <1>5 DEF At, S

\* Sample sizes and pollsters of a text.
LEMMA SamplesHold ==
  ASSUME NEW segs \in Seq(SurveySegment)
  PROVE  /\ Samples(segs) \in Seq(Nat)
         /\ \A x : Holds(Samples(segs), x) <=> x # 0 /\ \E i \in DOMAIN segs : segs[i].sample = x
<1> DEFINE all == [i \in DOMAIN segs |-> segs[i].sample]
           I == {i \in DOMAIN segs : segs[i].sample # 0}
           S == SurveySegment
<1>0. \A s \in S : s.sample \in Nat
  BY DEF SurveySegment
<1>1. DOMAIN segs = 1 .. Len(segs) /\ Len(segs) \in Nat /\ \A i \in DOMAIN segs : segs[i] \in S
  OBVIOUS
<1> HIDE DEF S
<1>2. all \in Seq(Nat) /\ DOMAIN all = DOMAIN segs /\ \A i \in DOMAIN segs : all[i] = segs[i].sample
  <2>1. all \in [1 .. Len(segs) -> Nat]
    BY <1>0, <1>1
  <2>2. QED
    BY <1>1, <2>1
<1>3. Samples(segs) = Kept(all, I)
  BY DEF Samples
<1> HIDE DEF all
<1>4. /\ Kept(all, I) \in Seq(Nat)
      /\ \A x : Holds(Kept(all, I), x) <=> \E i \in I \cap DOMAIN all : all[i] = x
  BY <1>2, KeptHolds
<1> DEFINE kept == Kept(all, I)
<1>5. Samples(segs) = kept
  BY <1>3
<1>6. kept \in Seq(Nat) /\ \A x : Holds(kept, x) <=> x # 0 /\ \E i \in DOMAIN segs : segs[i].sample = x
  BY <1>2, <1>4
<1> HIDE DEF kept
<1>7. QED
  BY <1>5, <1>6

LEMMA TokensHold ==
  ASSUME NEW segs \in Seq(SurveySegment)
  PROVE  /\ PollsterTokens(segs) \in Seq(DOMAIN Register)
         /\ \A x : Holds(PollsterTokens(segs), x) <=>
                     x # "none" /\ \E i \in DOMAIN segs : segs[i].pollster = x
<1> DEFINE all == [i \in DOMAIN segs |-> segs[i].pollster]
           I == {i \in DOMAIN segs : segs[i].pollster # "none"}
           S == SurveySegment
           P == DOMAIN Register
<1>0. \A s \in S : s.pollster \in P
  BY DEF SurveySegment
<1>1. DOMAIN segs = 1 .. Len(segs) /\ Len(segs) \in Nat /\ \A i \in DOMAIN segs : segs[i] \in S
  OBVIOUS
<1> HIDE DEF S, P
<1>2. all \in Seq(P) /\ DOMAIN all = DOMAIN segs /\ \A i \in DOMAIN segs : all[i] = segs[i].pollster
  <2>1. all \in [1 .. Len(segs) -> P]
    BY <1>0, <1>1
  <2>2. QED
    BY <1>1, <2>1
<1>3. PollsterTokens(segs) = Once(Kept(all, I))
  BY DEF PollsterTokens
<1> HIDE DEF all
<1>4. /\ Kept(all, I) \in Seq(P)
      /\ \A x : Holds(Kept(all, I), x) <=> \E i \in I \cap DOMAIN all : all[i] = x
  BY <1>2, KeptHolds
<1> DEFINE kept == Kept(all, I)
<1>5. PollsterTokens(segs) = Once(kept)
  BY <1>3
<1>6. kept \in Seq(P)
      /\ \A x : Holds(kept, x) <=> x # "none" /\ \E i \in DOMAIN segs : segs[i].pollster = x
  BY <1>2, <1>4
<1> HIDE DEF kept
<1>7. QED
  BY <1>5, <1>6, OnceHolds DEF P

\* What a text says of one kind, by segment.
LEMMA SegmentLists ==
  ASSUME NEW segs \in Seq(SurveySegment)
  PROVE  /\ Said(segs, "duels") \in Seq(NamedValue) /\ Said(segs, "values") \in Seq(NamedValue)
         /\ Said(segs, "loose") \in Seq(NamedValue) /\ Said(segs, "anchor") \in Seq(NamedValue)
         /\ Said(segs, "period") \in Seq(SaidPeriod) /\ Said(segs, "races") \in Seq(Race)
         /\ \A x : Holds(Said(segs, "duels"), x) <=> \E i \in DOMAIN segs : Holds(segs[i].duels, x)
         /\ \A x : Holds(Said(segs, "races"), x) <=> \E i \in DOMAIN segs : Holds(segs[i].races, x)
         /\ \A x : Holds(Said(segs, "anchor"), x) <=> \E i \in DOMAIN segs : Holds(segs[i].anchor, x)
<1> DEFINE S == SurveySegment
<1>1. \A s \in S : /\ s.duels \in Seq(NamedValue) /\ s.values \in Seq(NamedValue)
                   /\ s.loose \in Seq(NamedValue) /\ s.anchor \in Seq(NamedValue)
                   /\ s.period \in Seq(SaidPeriod) /\ s.races \in Seq(Race)
  BY DEF SurveySegment
<1> HIDE DEF S
<1>2. QED
  BY <1>1, SaidHolds DEF S

\* The candidates' numbers of a text and perhaps its title; every head-to-head is among them.
LEMMA PairsHold ==
  ASSUME NEW segs \in Seq(SurveySegment),
         NEW title \in Seq(Headline)
  PROVE  /\ CandidatePairs(segs, title) \in Seq(NamedValue)
         /\ \A x : Holds(Said(segs, "duels"), x) => Holds(CandidatePairs(segs, title), x)
<1> DEFINE R == Headline
           N == NamedValue
<1>1. \A r \in R : r.duels \in Seq(N) /\ r.values \in Seq(N)
  BY DEF Headline
<1>2. title \in Seq(R)
  OBVIOUS
<1> HIDE DEF R
<1>3. Said(title, "duels") \in Seq(N) /\ Said(title, "values") \in Seq(N)
  BY <1>1, <1>2, SaidHolds
<1>4. Said(segs, "duels") \in Seq(N) /\ Said(segs, "values") \in Seq(N) /\ Said(segs, "loose") \in Seq(N)
  BY SegmentLists
<1> HIDE DEF N
<1> DEFINE duels == Said(segs, "duels") \o Said(title, "duels")
           values == Said(segs, "values") \o Said(title, "values")
           all == IF duels # <<>> THEN duels
                  ELSE IF title # <<>> \/ (\E i \in DOMAIN segs : segs[i].focus) THEN values
                  ELSE Said(segs, "loose")
<1>5. duels \in Seq(N) /\ \A x : Holds(Said(segs, "duels"), x) => Holds(duels, x)
  BY <1>3, <1>4, JoinHolds
<1>6. values \in Seq(N)
  BY <1>3, <1>4
<1>7. CandidatePairs(segs, title) = Once(all)
  BY DEF CandidatePairs
<1> HIDE DEF duels, values
<1>8. all \in Seq(N) /\ \A x : Holds(duels, x) => Holds(all, x)
  <2>1. \A x : ~ Holds(<<>>, x)
    BY DEF Holds
  <2>2. QED
    BY <1>4, <1>5, <1>6, <2>1
<1> HIDE DEF all
<1>9. QED
  BY <1>5, <1>7, <1>8, OnceHolds DEF N

\* What the split of a block looks at: a value it gives to a name, the title or a segment of
\* the block gives to it.
LEMMA WordsGive ==
  ASSUME NEW page \in ArticlePage, NEW segs \in Seq(SurveySegment)
  PROVE  /\ ScenarioWords(page, segs).pairs \in Seq(Race)
         /\ ScenarioWords(page, segs).anchor \in Seq(NamedValue)
         /\ \A name, value : Gives(ScenarioWords(page, segs), name, value) =>
              \/ value \in GivenBy(page.title, name)
              \/ \E l \in DOMAIN segs : value \in GivenBy(segs[l], name)
<1> DEFINE title == page.title
           head == <<title>>
           spoken == head \o segs
           R == Headline \cup SurveySegment
           T == Race
           N == NamedValue
           words == ScenarioWords(page, segs)
<1>1. title \in R /\ segs \in Seq(R)
  <2>1. title \in Headline
    BY DEF ArticlePage
  <2>2. QED
    BY <2>1
<1>2. \A r \in R : r.races \in Seq(T) /\ r.anchor \in Seq(N)
  BY DEF Headline, SurveySegment
<1>3. words.pairs = Once(Said(spoken, "races")) /\ words.anchor = Said(spoken, "anchor")
  BY DEF ScenarioWords
<1> HIDE DEF R, title, words, T, N
<1>4. head \in Seq(R) /\ \A x : Holds(head, x) => x = title
  BY <1>1 DEF Holds
<1> HIDE DEF head
<1>5. spoken \in Seq(R) /\ \A x : Holds(spoken, x) <=> Holds(head, x) \/ Holds(segs, x)
  BY <1>1, <1>4, JoinHolds
<1> HIDE DEF spoken
<1>6. /\ Said(spoken, "races") \in Seq(T) /\ Said(spoken, "anchor") \in Seq(N)
      /\ \A x : Holds(Said(spoken, "races"), x) <=> \E i \in DOMAIN spoken : Holds(spoken[i].races, x)
      /\ \A x : Holds(Said(spoken, "anchor"), x) <=> \E i \in DOMAIN spoken : Holds(spoken[i].anchor, x)
  BY <1>2, <1>5, SaidHolds
<1>7. words.pairs \in Seq(T) /\ \A x : Holds(words.pairs, x) <=> Holds(Said(spoken, "races"), x)
  BY <1>3, <1>6, OnceHolds
<1>8. \A i \in DOMAIN spoken : spoken[i] = title \/ \E l \in DOMAIN segs : spoken[i] = segs[l]
  BY <1>4, <1>5 DEF Holds
<1>9. ASSUME NEW name, NEW value, Gives(words, name, value)
      PROVE  \/ value \in GivenBy(title, name)
             \/ \E l \in DOMAIN segs : value \in GivenBy(segs[l], name)
  <2>1. CASE \E r : /\ Holds(words.pairs, r)
                    /\ \/ r.left = name /\ r.leftValue = value
                       \/ r.right = name /\ r.rightValue = value
    <3>1. PICK r : /\ Holds(words.pairs, r)
                   /\ \/ r.left = name /\ r.leftValue = value
                      \/ r.right = name /\ r.rightValue = value
      BY <2>1
    <3>2. PICK i \in DOMAIN spoken : Holds(spoken[i].races, r)
      BY <1>6, <1>7, <3>1
    <3>3. value \in GivenBy(spoken[i], name)
      BY <3>1, <3>2 DEF Holds, GivenBy
    <3>4. QED
      BY <1>8, <3>3
  <2>2. CASE \E a : Holds(words.anchor, a) /\ a.name = name /\ a.value = value
    <3>1. PICK a : Holds(words.anchor, a) /\ a.name = name /\ a.value = value
      BY <2>2
    <3>2. PICK i \in DOMAIN spoken : Holds(spoken[i].anchor, a)
      BY <1>3, <1>6, <3>1
    <3>3. value \in GivenBy(spoken[i], name)
      BY <3>1, <3>2 DEF Holds, GivenBy
    <3>4. QED
      BY <1>8, <3>3
  <2>3. QED
    BY <1>9, <2>1, <2>2 DEF Gives, Holds
<1>10. QED
  BY <1>3, <1>6, <1>7, <1>9 DEF title, words, T, N

-----------------------------------------------------------------------------
(* What is read out of one block.                                          *)

\* The entry that is picked is one of the register's.
LEMMA PickedEntry ==
  ASSUME NEW entries \in Seq([sample : Nat, start : Nat, day : Nat]), entries # <<>>, NEW day \in Int
  PROVE  \E i \in DOMAIN entries : PickEntry(entries, day) = entries[i]
<1> DEFINE rank(e) == (IF e.day = day THEN 0 ELSE 2) + (IF e.sample = 0 THEN 1 ELSE 0)
           R == {rank(entries[i]) : i \in DOMAIN entries}
           D == DOMAIN entries
<1>1. D = 1 .. Len(entries) /\ Len(entries) \in Nat /\ D # {} /\ D \subseteq Nat
  <2>1. D = 1 .. Len(entries) /\ Len(entries) \in Nat /\ Len(entries) # 0
    OBVIOUS
  <2>2. 1 \in D
    BY <2>1
  <2>3. QED
    BY <2>1, <2>2
<1>2. \A e : rank(e) \in Nat
  OBVIOUS
<1> HIDE DEF rank
<1>3. R \subseteq Nat /\ R # {}
  BY <1>1, <1>2
<1>4. PICK least \in R : \A r \in R : least <= r
  <2> HIDE DEF R
  <2>1. QED
    BY <1>3, LeastNumber
<1> DEFINE J == {i \in D : rank(entries[i]) = least}
<1>5. J \subseteq Nat /\ J # {}
  BY <1>1, <1>4
<1>6. PICK first \in J : \A j \in J : first <= j
  <2> HIDE DEF J
  <2>1. QED
    BY <1>5, LeastNumber
<1>7. PICK one \in D : \A j \in D : one <= j
  <2> HIDE DEF D
  <2>1. QED
    BY <1>1, LeastNumber
<1>8. ASSUME NEW j \in D \ {first}
      PROVE  rank(entries[first]) < rank(entries[j]) \/ (rank(entries[first]) = rank(entries[j]) /\ first < j)
  <2>1. /\ rank(entries[first]) = least /\ least <= rank(entries[j])
        /\ rank(entries[j]) \in Nat /\ least \in Nat /\ first \in Nat /\ j \in Nat
    BY <1>1, <1>2, <1>3, <1>4, <1>6
  <2>2. CASE rank(entries[j]) = least
    <3>1. j \in J
      BY <2>2
    <3>2. first <= j
      BY <1>6, <3>1
    <3>3. QED
      BY <2>1, <2>2, <3>2
  <2>3. CASE rank(entries[j]) # least
    BY <2>1, <2>3
  <2>4. QED
    BY <2>2, <2>3
<1>9. \E i \in D : \A j \in D \ {i} :
        IF day = 0 THEN i < j
        ELSE rank(entries[i]) < rank(entries[j]) \/ (rank(entries[i]) = rank(entries[j]) /\ i < j)
  <2>1. CASE day = 0
    <3>1. \A j \in D \ {one} : one < j
      BY <1>1, <1>7
    <3>2. QED
      BY <2>1, <3>1
  <2>2. CASE day # 0
    BY <1>6, <1>8, <2>2
  <2>3. QED
    BY <2>1, <2>2
<1> DEFINE chosenEntry == CHOOSE i \in DOMAIN entries : \A j \in DOMAIN entries \ {i} :
             IF day = 0 THEN i < j
             ELSE rank(entries[i]) < rank(entries[j]) \/ (rank(entries[i]) = rank(entries[j]) /\ i < j)
<1>10. PickEntry(entries, day) = entries[chosenEntry]
  BY Zenon DEF PickEntry, rank
<1>11. chosenEntry \in DOMAIN entries
  BY <1>9, Zenon
<1>12. QED
  BY <1>10, <1>11

\* What the pack completes: the place and the options of an observation stay, and so do the
\* numbers and days it has.
LEMMA EnrichedFields ==
  ASSUME NEW page \in ArticlePage, NEW block, NEW pollster \in DOMAIN Register, NEW sample \in Nat,
         NEW start \in Int, NEW end \in Int, NEW mode, NEW confidence, NEW options
  PROVE  LET o == [block |-> block, pollster |-> pollster, sample |-> sample, start |-> start, end |-> end,
                   mode |-> mode, confidence |-> confidence, options |-> options]
             e == Enriched(o, page)
             said == IF sample # 0 THEN sample ELSE First(Samples(page.segs), 0)
             entries == Register[pollster]
         IN /\ e.block = block /\ e.pollster = pollster /\ e.options = options
            /\ e.mode = mode /\ e.confidence = confidence
            /\ \/ e.sample = said /\ e.start = start /\ e.end = end
               \/ \E i \in DOMAIN entries :
                    /\ e.sample = (IF said # 0 THEN said ELSE entries[i].sample)
                    /\ e.start = (IF start = 0 THEN entries[i].start ELSE start)
                    /\ e.end = (IF end = 0 THEN entries[i].day ELSE end)
<1> DEFINE o == [block |-> block, pollster |-> pollster, sample |-> sample, start |-> start, end |-> end,
                 mode |-> mode, confidence |-> confidence, options |-> options]
           said == IF sample # 0 THEN sample ELSE First(Samples(page.segs), 0)
           entries == Register[pollster]
           day == IF end # 0 THEN end ELSE start
           best == PickEntry(entries, day)
           With(s, a, b) == [block |-> block, pollster |-> pollster, sample |-> s, start |-> a, end |-> b,
                             mode |-> mode, confidence |-> confidence, options |-> options]
<1>1. entries \in Seq([sample : Nat, start : Nat, day : Nat])
  BY ExtractionAssumption
<1>2. day \in Int
  OBVIOUS
<1>3. entries # <<>> => \E i \in DOMAIN entries : best = entries[i]
  <2> HIDE DEF entries, day
  <2>1. QED
    BY <1>1, <1>2, PickedEntry
<1>4. Enriched(o, page) =
        IF entries = <<>> THEN With(said, start, end)
        ELSE With(IF said # 0 THEN said ELSE best.sample, IF start = 0 THEN best.start ELSE start,
                  IF end = 0 THEN best.day ELSE end)
  <2>1. /\ o.sample = sample /\ o.pollster = pollster /\ o.end = end /\ o.start = start
    OBVIOUS
  <2>2. \A s, a, b : /\ [o EXCEPT !.sample = s, !.start = a, !.end = b] = With(s, a, b)
                     /\ [o EXCEPT !.sample = s] = With(s, start, end)
    <3> SUFFICES ASSUME NEW s, NEW a, NEW b
        PROVE  /\ [o EXCEPT !.sample = s, !.start = a, !.end = b] = With(s, a, b)
               /\ [o EXCEPT !.sample = s] = With(s, start, end)
      BY Zenon
    <3>1. [o EXCEPT !.sample = s] = With(s, start, end)
      OBVIOUS
    <3>2. [With(s, start, end) EXCEPT !.start = a] = With(s, a, end)
      OBVIOUS
    <3>3. [With(s, a, end) EXCEPT !.end = b] = With(s, a, b)
      OBVIOUS
    <3> HIDE DEF o, With
    <3>4. [o EXCEPT !.sample = s, !.start = a, !.end = b]
            = [[[o EXCEPT !.sample = s] EXCEPT !.start = a] EXCEPT !.end = b]
      BY Zenon
    <3>5. QED
      BY <3>1, <3>2, <3>3, <3>4
  <2>3. Enriched(o, page) =
          IF Register[o.pollster] = <<>>
          THEN [o EXCEPT !.sample = IF o.sample # 0 THEN o.sample ELSE First(Samples(page.segs), 0)]
          ELSE [o EXCEPT !.sample = IF (IF o.sample # 0 THEN o.sample ELSE First(Samples(page.segs), 0)) # 0
                                    THEN (IF o.sample # 0 THEN o.sample ELSE First(Samples(page.segs), 0))
                                    ELSE PickEntry(Register[o.pollster], IF o.end # 0 THEN o.end ELSE o.start).sample,
                         !.start = IF o.start = 0 THEN PickEntry(Register[o.pollster], IF o.end # 0 THEN o.end ELSE o.start).start
                                   ELSE o.start,
                         !.end = IF o.end = 0 THEN PickEntry(Register[o.pollster], IF o.end # 0 THEN o.end ELSE o.start).day
                                 ELSE o.end]
    BY DEF Enriched
  <2> HIDE DEF o, With
  <2>4. QED
    BY <2>1, <2>2, <2>3
<1>5. \A s, a, b : /\ With(s, a, b).block = block /\ With(s, a, b).pollster = pollster
                   /\ With(s, a, b).options = options /\ With(s, a, b).mode = mode
                   /\ With(s, a, b).confidence = confidence /\ With(s, a, b).sample = s
                   /\ With(s, a, b).start = a /\ With(s, a, b).end = b
  <2> SUFFICES ASSUME NEW s, NEW a, NEW b
      PROVE  /\ With(s, a, b).block = block /\ With(s, a, b).pollster = pollster
             /\ With(s, a, b).options = options /\ With(s, a, b).mode = mode
             /\ With(s, a, b).confidence = confidence /\ With(s, a, b).sample = s
             /\ With(s, a, b).start = a /\ With(s, a, b).end = b
    BY Zenon
  <2>1. With(s, a, b).block = block /\ With(s, a, b).pollster = pollster /\ With(s, a, b).options = options
    OBVIOUS
  <2>2. With(s, a, b).mode = mode /\ With(s, a, b).confidence = confidence /\ With(s, a, b).sample = s
    OBVIOUS
  <2>3. With(s, a, b).start = a /\ With(s, a, b).end = b
    OBVIOUS
  <2>4. QED
    BY <2>1, <2>2, <2>3
<1> HIDE DEF o, With, said, entries, best
<1>6. QED
  BY <1>3, <1>4, <1>5 DEF o, said, entries

\* What is known of the constants the dates are counted with.
LEMMA Bounds ==
  /\ YearLength \in Nat /\ YearLength > 0 /\ ThisYear \in Nat
  /\ CertainFrom \in Int /\ CertainFrom <= 100
<1>1. YearLength \in Nat /\ YearLength > 0 /\ ThisYear \in Nat
  BY ExtractionAssumption
<1>2. CertainFrom \in 0 .. 100
  BY ExtractionAssumption
<1>3. QED
  BY <1>1, <1>2

\* Whole years are whole years.
LEMMA Divided ==
  /\ \A day \in Nat \ {0} : YearOf(day) \in Nat
  /\ \A k \in Nat : (YearLength * k) % YearLength = 0
<1>1. YearLength \in Nat /\ YearLength > 0
  BY ExtractionAssumption
<1>2. ASSUME NEW day \in Nat \ {0} PROVE YearOf(day) \in Nat
  BY <1>1, <1>2 DEF YearOf
<1>3. ASSUME NEW k \in Nat PROVE (YearLength * k) % YearLength = 0
  BY <1>1, <1>3
<1>4. QED
  BY <1>2, <1>3

\* The period of a text, if there is one, is one of those it says, and begins after its end
\* only if the text says so.
LEMMA PeriodSaid ==
  ASSUME NEW page \in ArticlePage, NEW segs \in Seq(SurveySegment)
  PROVE  LET own == SurveyPeriod(page, segs)
         IN /\ own[1] \in Int /\ own[2] \in Int
            /\ own[2] # 0 =>
                 /\ own[1] # 0
                 /\ \E p \in SaidPeriod :
                      /\ Holds(Said(segs, "period"), p) /\ p.exists
                      /\ (own[2] - p.end) % YearLength = 0
                      /\ own[1] <= own[2] \/ (p.end < p.start /\ (p.year \/ ~ p.turns))
<1> DEFINE periods == Said(segs, "period")
           I == {i \in DOMAIN periods : periods[i].year}
           dated == Kept(periods, I)
           p == IF dated # <<>> THEN dated[1] ELSE periods[1]
           years == IF FirstDate(page) = 0 THEN ThisYear ELSE YearOf(FirstDate(page))
           base == YearLength * years
           wrap == IF p.turns THEN YearLength ELSE 0
           own == SurveyPeriod(page, segs)
<1>1. periods \in Seq(SaidPeriod)
  BY SegmentLists
<1>2. FirstDate(page) \in Nat
  BY DEF FirstDate, ArticlePage
<1>3. YearLength \in Nat /\ YearLength > 0 /\ years \in Nat
  <2> DEFINE date == FirstDate(page)
  <2>1. date # 0 => date \in Nat \ {0}
    BY <1>2
  <2> HIDE DEF date
  <2>2. date # 0 => YearOf(date) \in Nat
    BY <2>1, Divided
  <2>3. QED
    BY <2>2, Bounds DEF date
<1>4. own = IF periods = <<>> THEN <<0, 0>>
            ELSE IF ~ p.exists THEN <<0, 0>>
            ELSE IF p.year THEN <<p.start, p.end>>
            ELSE <<base + p.start, base + wrap + p.end>>
  BY Zenon DEF SurveyPeriod
<1>5. periods # <<>> => p \in SaidPeriod /\ Holds(periods, p)
  <2> HIDE DEF periods
  <2>1. /\ dated # <<>> => \E i \in I \cap DOMAIN periods : dated[1] = periods[i]
    BY <1>1, KeptHolds
  <2> HIDE DEF dated, I
  <2>2. periods # <<>> => 1 \in DOMAIN periods
    BY <1>1
  <2>3. \A i \in DOMAIN periods : periods[i] \in SaidPeriod
    BY <1>1
  <2>4. QED
    BY <2>1, <2>2, <2>3 DEF Holds
<1> HIDE DEF periods, p, years
<1>6. CASE periods = <<>> \/ ~ p.exists
  <2>1. own = <<0, 0>>
    BY <1>4, <1>6
  <2> HIDE DEF own
  <2>2. own[1] = 0 /\ own[2] = 0
    BY <2>1
  <2>3. QED
    BY <2>2 DEF own
<1>7. CASE periods # <<>> /\ p.exists
  <2>1. /\ p.start \in Nat \ {0} /\ p.end \in Nat \ {0} /\ p.year \in BOOLEAN /\ p.turns \in BOOLEAN
        /\ p.year \/ (p.start <= YearLength /\ p.end <= YearLength)
    BY <1>5, <1>7 DEF SaidPeriod
  <2>2. CASE p.year
    <3>1. own = <<p.start, p.end>>
      BY <1>4, <1>7, <2>2
    <3> HIDE DEF own
    <3>2. own[1] = p.start /\ own[2] = p.end
      BY <3>1
    <3>3. (own[2] - p.end) % YearLength = 0
      <4>1. own[2] - p.end = YearLength * 0
        BY <1>3, <2>1, <3>2
      <4>2. QED
        BY <4>1, Divided
    <3>4. own[1] <= own[2] \/ p.end < p.start
      BY <2>1, <3>2
    <3>5. QED
      BY <1>5, <1>7, <2>1, <2>2, <3>2, <3>3, <3>4 DEF own, periods
  <2>3. CASE ~ p.year
    <3>1. own = <<base + p.start, base + wrap + p.end>>
      BY <1>4, <1>7, <2>3
    <3> HIDE DEF own
    <3>2. own[1] = base + p.start /\ own[2] = base + wrap + p.end
      BY <3>1
    <3>3. base \in Nat
      BY <1>3
    <3>4. (own[2] - p.end) % YearLength = 0
      <4>1. CASE p.turns
        <5>1. own[2] - p.end = YearLength * (years + 1)
          BY <1>3, <2>1, <3>2, <4>1
        <5>2. years + 1 \in Nat
          BY <1>3
        <5>3. QED
          BY <5>1, <5>2, Divided
      <4>2. CASE ~ p.turns
        <5> HIDE DEF base
        <5>1. own[2] - p.end = base
          BY <1>3, <2>1, <3>2, <3>3, <4>2
        <5>2. QED
          BY <1>3, <5>1, Divided DEF base
      <4>3. QED
        BY <4>1, <4>2
    <3> HIDE DEF base
    <3>5. own[1] <= own[2] \/ (p.end < p.start /\ ~ p.turns)
      BY <1>3, <2>1, <2>3, <3>2, <3>3
    <3>6. own[1] \in Int /\ own[2] \in Int /\ own[1] # 0
      BY <1>3, <2>1, <3>2, <3>3
    <3>7. QED
      BY <1>5, <1>7, <3>4, <3>5, <3>6 DEF own, periods
  <2>4. QED
    BY <2>2, <2>3
<1>8. QED
  BY <1>6, <1>7

\* What the day of an article says of a survey: it does not lie after that day; it comes from
\* a relative date or is the day of publication; and what is uncertain is for review.
LEMMA DayInferred ==
  ASSUME NEW page \in ArticlePage, NEW policy
  PROVE  LET s == InferSurveyDate(page, policy)
             relative == \E i \in DOMAIN Signals : Signals[i].word \in page.words
         IN /\ s.end \in Int
            /\ s.end # 0 =>
                 /\ s.end <= FirstDate(page)
                 /\ relative \/ s.end = page.published
                 /\ page.published = 0 => policy = "allow_estimated_timestamp"
                 /\ s.confidence < CertainFrom => s.review # {}
            /\ page.published = 0 /\ page.collected # 0 /\ relative =>
                 s.review \cap {"RELATIVE_DATE_ESTIMATED", "RELATIVE_DATE_STRICT_FAIL"} # {}
<1> DEFINE I == {i \in DOMAIN Signals : Signals[i].word \in page.words}
           kept == Kept(Signals, I)
           found == IF FirstDate(page) = 0 THEN <<>> ELSE kept
           g == found[1]
           less == g.confidence - Penalty
           Inference(end, mode, confidence, review) ==
             [end |-> end, mode |-> mode, confidence |-> confidence, review |-> review]
           s == InferSurveyDate(page, policy)
           relative == \E i \in DOMAIN Signals : Signals[i].word \in page.words
<1>1. s = IF found = <<>>
          THEN IF page.published = 0 THEN Inference(0, "published_at_missing", 0, {})
               ELSE Inference(page.published, "published_at_exact", 100, {})
          ELSE IF page.published # 0
          THEN Inference(page.published + g.offset, "relative_published_at", g.confidence,
                 IF g.confidence < CertainFrom THEN {"RELATIVE_DATE_UNCERTAIN"} ELSE {})
          ELSE IF policy = "allow_estimated_timestamp"
          THEN Inference(page.collected + g.offset, "estimated_timestamp",
                 IF less < LeastSure THEN LeastSure ELSE less, {"RELATIVE_DATE_ESTIMATED"})
          ELSE Inference(0, "strict_fail_blocked", 0, {"RELATIVE_DATE_STRICT_FAIL"})
  BY Zenon DEF InferSurveyDate
<1>2. \A a, b, c, r : /\ Inference(a, b, c, r).end = a /\ Inference(a, b, c, r).confidence = c
                      /\ Inference(a, b, c, r).review = r
  OBVIOUS
<1>3. page.published \in Nat /\ page.collected \in Nat
      /\ FirstDate(page) = IF page.published # 0 THEN page.published ELSE page.collected
  BY DEF ArticlePage, FirstDate
<1>4. /\ kept = <<>> <=> ~ relative
      /\ kept # <<>> => kept[1].offset \in Int /\ kept[1].offset <= 0
  <2> DEFINE Signal == [word : STRING, offset : Int, confidence : 0 .. 100]
  <2>1. Signals \in Seq(Signal) /\ \A i \in DOMAIN Signals : Signals[i].offset <= 0
    BY ExtractionAssumption
  <2>2. \A i \in DOMAIN Signals : Signals[i].offset \in Int
    <3>1. \A x \in Signal : x.offset \in Int
      OBVIOUS
    <3> HIDE DEF Signal
    <3>2. \A i \in DOMAIN Signals : Signals[i] \in Signal
      BY <2>1
    <3>3. QED
      BY <3>1, <3>2
  <2> HIDE DEF Signal
  <2>3. /\ kept = <<>> <=> I \cap DOMAIN Signals = {}
        /\ kept # <<>> => \E i \in I \cap DOMAIN Signals : kept[1] = Signals[i]
    BY <2>1, KeptHolds
  <2> HIDE DEF kept
  <2>4. QED
    BY <2>1, <2>2, <2>3
<1> HIDE DEF kept, s, Inference, relative
<1>5. CertainFrom <= 100 /\ CertainFrom \in Int
  BY Bounds
<1>6. CASE found = <<>> /\ page.published = 0
  <2>1. s.end = 0
    BY <1>1, <1>2, <1>6
  <2>2. page.collected = 0 \/ ~ relative
    BY <1>3, <1>4, <1>6
  <2>3. QED
    BY <1>6, <2>1, <2>2 DEF s, relative
<1>7. CASE found = <<>> /\ page.published # 0
  <2>1. s.end = page.published /\ s.confidence = 100
    BY <1>1, <1>2, <1>7
  <2>2. ~ (s.confidence < CertainFrom)
    BY <1>5, <2>1
  <2>3. s.end \in Int /\ s.end <= FirstDate(page)
    BY <1>3, <1>7, <2>1
  <2>4. QED
    BY <1>7, <2>1, <2>2, <2>3 DEF s, relative
<1>8. CASE found # <<>> /\ page.published # 0
  <2>1. /\ s.end = page.published + g.offset /\ s.confidence = g.confidence
        /\ s.review = IF g.confidence < CertainFrom THEN {"RELATIVE_DATE_UNCERTAIN"} ELSE {}
    BY <1>1, <1>2, <1>8
  <2>2. relative /\ g.offset \in Int /\ g.offset <= 0
    BY <1>4, <1>8
  <2>3. s.confidence < CertainFrom => s.review # {}
    BY <2>1
  <2> HIDE DEF g
  <2>4. s.end \in Int /\ s.end <= FirstDate(page)
    BY <1>3, <1>8, <2>1, <2>2
  <2>5. QED
    BY <1>8, <2>2, <2>3, <2>4 DEF s, relative
<1>9. CASE found # <<>> /\ page.published = 0 /\ policy = "allow_estimated_timestamp"
  <2>1. s.end = page.collected + g.offset /\ s.review = {"RELATIVE_DATE_ESTIMATED"}
    BY <1>1, <1>2, <1>9
  <2>2. relative /\ g.offset \in Int /\ g.offset <= 0
    BY <1>4, <1>9
  <2>3. s.review # {} /\ s.review \cap {"RELATIVE_DATE_ESTIMATED", "RELATIVE_DATE_STRICT_FAIL"} # {}
    BY <2>1
  <2> HIDE DEF g
  <2>4. s.end \in Int /\ s.end <= FirstDate(page)
    BY <1>3, <1>9, <2>1, <2>2
  <2>5. QED
    BY <1>9, <2>2, <2>3, <2>4 DEF s, relative
<1>10. CASE found # <<>> /\ page.published = 0 /\ policy # "allow_estimated_timestamp"
  <2>1. s.end = 0 /\ s.review = {"RELATIVE_DATE_STRICT_FAIL"}
    BY <1>1, <1>2, <1>10
  <2>2. s.review \cap {"RELATIVE_DATE_ESTIMATED", "RELATIVE_DATE_STRICT_FAIL"} # {}
    BY <2>1
  <2>3. QED
    BY <2>1, <2>2 DEF s, relative
<1>11. QED
  BY <1>6, <1>7, <1>8, <1>9, <1>10

-----------------------------------------------------------------------------
(* The rows of an article.                                                 *)

Blocks(page) == SplitSurveyBlocks(page)

\* What a driver d reads out of the k-th block of a page, and the row it hands on.
ReadOf(d, page, k) ==
  Observation(page, InferSurveyDate(page, d.policy), Blocks(page)[k], Len(Blocks(page)) = 1)

RowOf(d, page, k) ==
  IF d.kind = "pack" THEN Enriched(ReadOf(d, page, k), page) ELSE ReadOf(d, page, k)

\* The segments of the k-th block.
Text(page, k) == At(page, Blocks(page)[k])

PairsIn(page, k) ==
  CandidatePairs(Text(page, k), IF Len(Blocks(page)) = 1 THEN <<page.title>> ELSE <<>>)

ReadOptions(page, k) == OptionsOf(page, Text(page, k), Len(Blocks(page)) = 1)

LEMMA BlocksOf ==
  ASSUME NEW page \in ArticlePage
  PROVE  /\ \E n \in Nat : DOMAIN page.segs = 1 .. n /\ IsSplit(Blocks(page), n)
         /\ Blocks(page) # <<>> /\ Len(Blocks(page)) \in Nat \ {0}
         /\ DOMAIN Blocks(page) = 1 .. Len(Blocks(page))
         /\ \A k \in DOMAIN Blocks(page) :
              /\ Text(page, k) \in Seq(SurveySegment)
              /\ DOMAIN Text(page, k) = DOMAIN Blocks(page)[k]
              /\ \A j \in DOMAIN Blocks(page)[k] :
                   /\ Blocks(page)[k][j] \in DOMAIN page.segs
                   /\ Text(page, k)[j] = page.segs[Blocks(page)[k][j]]
<1>1. page.segs \in Seq(SurveySegment)
  BY DEF ArticlePage
<1> DEFINE n == Len(page.segs)
           B == Blocks(page)
<1>2. n \in Nat /\ DOMAIN page.segs = 1 .. n
  BY <1>1
<1> HIDE DEF n
<1>3. IsSplit(B, n)
  BY <1>2, BlocksSplit DEF Blocks
<1>4. B \in Seq(Seq(1 .. n)) /\ B # <<>>
  BY <1>3 DEF IsSplit
<1> HIDE DEF B
<1>5. Len(B) \in Nat \ {0} /\ DOMAIN B = 1 .. Len(B) /\ \A k \in DOMAIN B : B[k] \in Seq(1 .. n)
  <2> DEFINE S == Seq(1 .. n)
  <2>1. B \in Seq(S)
    BY <1>4
  <2> HIDE DEF S
  <2>2. Len(B) \in Nat \ {0} /\ DOMAIN B = 1 .. Len(B) /\ \A k \in DOMAIN B : B[k] \in S
    BY <1>4, <2>1
  <2>3. QED
    BY <2>2 DEF S
<1>6. ASSUME NEW k \in DOMAIN B
      PROVE  /\ At(page, B[k]) \in Seq(SurveySegment)
             /\ DOMAIN At(page, B[k]) = DOMAIN B[k]
             /\ \A j \in DOMAIN B[k] : B[k][j] \in 1 .. n /\ At(page, B[k])[j] = page.segs[B[k][j]]
  <2>1. B[k] \in Seq(1 .. n)
    BY <1>5
  <2>2. \A j \in DOMAIN B[k] : B[k][j] \in 1 .. n
    <3> DEFINE b == B[k]
               N == 1 .. n
    <3>1. b \in Seq(N)
      BY <2>1
    <3> HIDE DEF b, N
    <3>2. \A j \in DOMAIN b : b[j] \in N
      BY <3>1
    <3>3. QED
      BY <3>2 DEF b, N
  <2>3. QED
    BY <1>2, <2>1, <2>2, AtSegments
<1>7. QED
  BY <1>2, <1>3, <1>4, <1>5, <1>6 DEF B, Text

\* The candidates' numbers of a block, as rows of one scenario.
LEMMA OptionsBuilt ==
  ASSUME NEW pairs \in Seq(NamedValue)
  PROVE  /\ BuildOptions(pairs) \in Seq(OptionRow)
         /\ DOMAIN BuildOptions(pairs) = DOMAIN pairs
         /\ \A i \in DOMAIN pairs : /\ BuildOptions(pairs)[i].name = pairs[i].name
                                    /\ BuildOptions(pairs)[i].value = pairs[i].value
<1> DEFINE rows == BuildOptions(pairs)
           S == OptionRow
           row(p) == [name |-> p.name, value |-> p.value, key |-> Default, whose |-> p.name]
<1>1. Default \in Seq(Word)
  BY KeysAreSequences
<1>2. ASSUME NEW p \in NamedValue
      PROVE  row(p) \in S /\ row(p).name = p.name /\ row(p).value = p.value
  <2>1. p.name \in Word /\ p.value \in Int
    BY DEF NamedValue, Word
  <2>2. QED
    BY <1>1, <2>1 DEF OptionRow
<1>3. DOMAIN pairs = 1 .. Len(pairs) /\ Len(pairs) \in Nat /\ \A i \in DOMAIN pairs : pairs[i] \in NamedValue
  OBVIOUS
<1>4. rows = [i \in DOMAIN pairs |-> row(pairs[i])]
  BY DEF BuildOptions
<1> HIDE DEF rows, row, S
<1>5. rows \in [1 .. Len(pairs) -> S] /\ DOMAIN rows = DOMAIN pairs
  BY <1>2, <1>3, <1>4
<1>6. rows \in Seq(S)
  BY <1>3, <1>5
<1>7. \A i \in DOMAIN pairs : rows[i].name = pairs[i].name /\ rows[i].value = pairs[i].value
  BY <1>2, <1>3, <1>4
<1>8. QED
  BY <1>5, <1>6, <1>7 DEF rows, S

\* What is read out of a block: the numbers, the sample and the days its own text says.
LEMMA ReadFields ==
  ASSUME NEW page \in ArticlePage, NEW d, NEW k \in DOMAIN Blocks(page)
  PROVE  LET segs == Text(page, k)
             own == SurveyPeriod(page, segs)
             day == InferSurveyDate(page, d.policy)
         IN ReadOf(d, page, k) =
              [block |-> Blocks(page)[k],
               pollster |-> First(PollsterTokens(segs), First(PollsterTokens(page.segs), "none")),
               sample |-> First(Samples(segs), 0),
               start |-> own[1], end |-> IF own[2] # 0 THEN own[2] ELSE day.end,
               mode |-> day.mode, confidence |-> day.confidence, options |-> ReadOptions(page, k)]
<1>1. QED
  BY Zenon DEF ReadOf, Observation, Text, ReadOptions

\* The types of what is read.
LEMMA ReadTypes ==
  ASSUME NEW page \in ArticlePage, NEW k \in DOMAIN Blocks(page)
  PROVE  LET segs == Text(page, k)
         IN /\ PollsterTokens(segs) \in Seq(DOMAIN Register)
            /\ First(PollsterTokens(segs), First(PollsterTokens(page.segs), "none")) \in DOMAIN Register
            /\ Samples(segs) \in Seq(Nat) /\ First(Samples(segs), 0) \in Nat
            /\ Samples(page.segs) \in Seq(Nat) /\ First(Samples(page.segs), 0) \in Nat
<1>1. page.segs \in Seq(SurveySegment) /\ Text(page, k) \in Seq(SurveySegment)
  BY BlocksOf DEF ArticlePage
<1>2. ASSUME NEW segs \in Seq(SurveySegment)
      PROVE  /\ PollsterTokens(segs) \in Seq(DOMAIN Register)
             /\ Samples(segs) \in Seq(Nat) /\ First(Samples(segs), 0) \in Nat
             /\ \A none \in DOMAIN Register : First(PollsterTokens(segs), none) \in DOMAIN Register
  <2>1. PollsterTokens(segs) \in Seq(DOMAIN Register) /\ Samples(segs) \in Seq(Nat)
    BY TokensHold, SamplesHold
  <2>2. First(Samples(segs), 0) \in Nat
    BY <2>1, FirstHolds
  <2>3. \A none \in DOMAIN Register : First(PollsterTokens(segs), none) \in DOMAIN Register
    BY <2>1, FirstHolds
  <2>4. QED
    BY <2>1, <2>2, <2>3
<1>3. "none" \in DOMAIN Register
  BY ExtractionAssumption
<1>4. QED
  BY <1>1, <1>2, <1>3

\* A row's sample and days: those read, and, in the pack, where one is missing, what the
\* article or an entry of the register says.
Completed(d, r, sample, said, start, end) ==
  \/ r.sample = sample /\ r.start = start /\ r.end = end
  \/ d.kind = "pack" /\ r.sample = said /\ r.start = start /\ r.end = end
  \/ d.kind = "pack" /\ \E i \in DOMAIN Register[r.pollster] :
       /\ r.sample = (IF said # 0 THEN said ELSE Register[r.pollster][i].sample)
       /\ r.start = (IF start = 0 THEN Register[r.pollster][i].start ELSE start)
       /\ r.end = (IF end = 0 THEN Register[r.pollster][i].day ELSE end)

\* The rows' fields, those of the pack being completed where something is missing.
LEMMA RowFields ==
  ASSUME NEW page \in ArticlePage, NEW d, NEW k \in DOMAIN Blocks(page)
  PROVE  LET segs == Text(page, k)
             own == SurveyPeriod(page, segs)
             day == InferSurveyDate(page, d.policy)
             end == IF own[2] # 0 THEN own[2] ELSE day.end
             sample == First(Samples(segs), 0)
             said == IF sample # 0 THEN sample ELSE First(Samples(page.segs), 0)
             r == RowOf(d, page, k)
         IN /\ r.block = Blocks(page)[k] /\ ReadOf(d, page, k).block = Blocks(page)[k]
            /\ r.options = ReadOf(d, page, k).options
            /\ r.options = ReadOptions(page, k)
            /\ r.pollster = First(PollsterTokens(segs), First(PollsterTokens(page.segs), "none"))
            /\ r.confidence = day.confidence
            /\ Completed(d, r, sample, said, own[1], end)
<1> DEFINE segs == Text(page, k)
           own == SurveyPeriod(page, segs)
           day == InferSurveyDate(page, d.policy)
           end == IF own[2] # 0 THEN own[2] ELSE day.end
           sample == First(Samples(segs), 0)
           said == IF sample # 0 THEN sample ELSE First(Samples(page.segs), 0)
           r == RowOf(d, page, k)
           read == ReadOf(d, page, k)
           options == ReadOptions(page, k)
           pollster == First(PollsterTokens(segs), First(PollsterTokens(page.segs), "none"))
           block == Blocks(page)[k]
           start == own[1]
           mode == day.mode
           confidence == day.confidence
           entries == Register[pollster]
<1>1. segs \in Seq(SurveySegment)
  BY BlocksOf
<1>2. own[1] \in Int /\ own[2] \in Int /\ day.end \in Int
  BY <1>1, PeriodSaid, DayInferred
<1>3. pollster \in DOMAIN Register /\ sample \in Nat
  BY ReadTypes
<1>4. read = [block |-> block, pollster |-> pollster, sample |-> sample, start |-> start, end |-> end,
              mode |-> mode, confidence |-> confidence, options |-> options]
  BY ReadFields
<1>5. r = IF d.kind = "pack" THEN Enriched(read, page) ELSE read
  BY DEF RowOf
<1>6. start \in Int /\ end \in Int
  BY <1>2
<1> HIDE DEF segs, own, day, end, sample, r, read, options, pollster, block, start, mode, confidence
<1>7. /\ read.block = block /\ read.pollster = pollster /\ read.options = options
      /\ read.confidence = confidence /\ read.sample = sample /\ read.start = start /\ read.end = end
  <2>1. read.block = block /\ read.pollster = pollster /\ read.options = options
    BY <1>4
  <2>2. read.confidence = confidence /\ read.sample = sample
    BY <1>4
  <2>3. read.start = start /\ read.end = end
    BY <1>4
  <2>4. QED
    BY <2>1, <2>2, <2>3
<1> DEFINE e == Enriched(read, page)
<1>8. /\ e.block = block /\ e.pollster = pollster /\ e.options = options /\ e.confidence = confidence
      /\ \/ e.sample = said /\ e.start = start /\ e.end = end
         \/ \E i \in DOMAIN entries :
              /\ e.sample = (IF said # 0 THEN said ELSE entries[i].sample)
              /\ e.start = (IF start = 0 THEN entries[i].start ELSE start)
              /\ e.end = (IF end = 0 THEN entries[i].day ELSE end)
  BY <1>3, <1>4, <1>6, EnrichedFields
<1> HIDE DEF e, said, entries
<1>9. /\ r.block = block /\ read.block = block /\ r.options = read.options /\ r.options = options
      /\ r.pollster = pollster /\ r.confidence = confidence
      /\ \/ r.sample = sample /\ r.start = start /\ r.end = end
         \/ d.kind = "pack" /\ r.sample = said /\ r.start = start /\ r.end = end
         \/ d.kind = "pack" /\ \E i \in DOMAIN entries :
              /\ r.sample = (IF said # 0 THEN said ELSE entries[i].sample)
              /\ r.start = (IF start = 0 THEN entries[i].start ELSE start)
              /\ r.end = (IF end = 0 THEN entries[i].day ELSE end)
  <2>1. CASE d.kind = "pack"
    <3>1. r = e
      BY <1>5, <2>1 DEF e
    <3>2. QED
      BY <1>7, <1>8, <2>1, <3>1
  <2>2. CASE d.kind # "pack"
    <3>1. r = read
      BY <1>5, <2>2
    <3>2. QED
      BY <1>7, <3>1
  <2>3. QED
    BY <2>1, <2>2
<1>10. Completed(d, r, sample, said, start, end)
  BY <1>9 DEF Completed, entries
<1>11. QED
  BY <1>9, <1>10 DEF segs, own, day, end, sample, r, read, options, pollster, block, start, confidence, said

\* An observation's sample is one its own text says, if it says one.
LEMMA RowSample ==
  ASSUME NEW page \in ArticlePage, NEW d, NEW k \in DOMAIN Blocks(page)
  PROVE  LET r == RowOf(d, page, k)
             own == {Text(page, k)[j].sample : j \in DOMAIN Text(page, k)} \ {0}
             entries == Register[r.pollster]
         IN IF own # {} THEN r.sample \in own
            ELSE \/ r.sample = 0
                 \/ d.kind = "pack" /\ r.sample \in {page.segs[i].sample : i \in DOMAIN page.segs}
                                                      \cup {entries[i].sample : i \in DOMAIN entries}
<1> DEFINE segs == Text(page, k)
           own == {segs[j].sample : j \in DOMAIN segs} \ {0}
           sample == First(Samples(segs), 0)
           all == First(Samples(page.segs), 0)
           said == IF sample # 0 THEN sample ELSE all
           r == RowOf(d, page, k)
           entries == Register[r.pollster]
           everywhere == {page.segs[i].sample : i \in DOMAIN page.segs}
<1>1. segs \in Seq(SurveySegment) /\ page.segs \in Seq(SurveySegment)
  BY BlocksOf DEF ArticlePage
<1>2. ASSUME NEW s \in Seq(SurveySegment)
      PROVE  LET f == First(Samples(s), 0)
             IN \/ f = 0 /\ {s[j].sample : j \in DOMAIN s} \ {0} = {}
                \/ f \in {s[j].sample : j \in DOMAIN s} \ {0}
  <2> DEFINE q == Samples(s)
             f == First(q, 0)
  <2>1. /\ q \in Seq(Nat)
        /\ \A x : Holds(q, x) <=> x # 0 /\ \E i \in DOMAIN s : s[i].sample = x
    BY SamplesHold
  <2> HIDE DEF q
  <2>2. CASE q = <<>>
    <3>1. f = 0
      BY <2>2 DEF First
    <3>2. \A x : ~ Holds(q, x)
      BY <2>2 DEF Holds
    <3> HIDE DEF f
    <3>3. QED
      BY <2>1, <3>1, <3>2 DEF f, q
  <2>3. CASE q # <<>>
    <3>1. Holds(q, f)
      BY <2>1, <2>3, FirstHolds
    <3> HIDE DEF f
    <3>2. QED
      BY <2>1, <3>1 DEF f, q
  <2>4. QED
    BY <2>2, <2>3
<1>3. (sample = 0 /\ own = {}) \/ sample \in own
  BY <1>1, <1>2
<1>4. all = 0 \/ all \in everywhere
  BY <1>1, <1>2
<1>5. \E start, end : Completed(d, r, sample, said, start, end)
  BY RowFields, Zenon
<1> HIDE DEF segs, sample, all, r, everywhere
<1>6. \/ r.sample = sample
      \/ d.kind = "pack" /\ r.sample = said
      \/ d.kind = "pack" /\ \E i \in DOMAIN entries :
          r.sample = (IF said # 0 THEN said ELSE entries[i].sample)
  <2> HIDE DEF said, own
  <2>1. PICK start, end : Completed(d, r, sample, said, start, end)
    BY <1>5, Zenon
  <2>2. QED
    BY <2>1, Zenon DEF Completed
<1> HIDE DEF entries
<1>7. CASE sample \in own
  <2>1. sample # 0
    BY <1>7
  <2>2. r.sample = sample
    BY <1>6, <2>1
  <2>3. QED
    BY <1>7, <2>2 DEF segs, r, entries, everywhere
<1>8. CASE sample = 0 /\ own = {}
  <2>1. \/ r.sample = 0
        \/ d.kind = "pack" /\ r.sample \in everywhere \cup {entries[i].sample : i \in DOMAIN entries}
    BY <1>4, <1>6, <1>8
  <2>2. QED
    BY <1>8, <2>1 DEF segs, r, entries, everywhere
<1>9. QED
  BY <1>3, <1>7, <1>8

\* An observation whose text names no two pollsters has the one it names.
LEMMA RowPollster ==
  ASSUME NEW page \in ArticlePage, NEW d, NEW k \in DOMAIN Blocks(page)
  PROVE  LET named == {Text(page, k)[j].pollster : j \in DOMAIN Text(page, k)} \ {"none"}
         IN \/ Len(PollsterTokens(Text(page, k))) >= 2
            \/ named = {} \/ named = {RowOf(d, page, k).pollster}
<1> DEFINE segs == Text(page, k)
           named == {segs[j].pollster : j \in DOMAIN segs} \ {"none"}
           q == PollsterTokens(segs)
           none == First(PollsterTokens(page.segs), "none")
           r == RowOf(d, page, k)
<1>1. segs \in Seq(SurveySegment)
  BY BlocksOf
<1>2. /\ q \in Seq(DOMAIN Register)
      /\ \A x : Holds(q, x) <=> x # "none" /\ \E i \in DOMAIN segs : segs[i].pollster = x
  BY <1>1, TokensHold
<1>3. r.pollster = First(q, none)
  BY RowFields, Zenon
<1> HIDE DEF segs, q, none, r
<1>4. Len(q) \in Nat /\ DOMAIN q = 1 .. Len(q)
  BY <1>2
<1>5. \A x : Holds(q, x) <=> x \in named
  BY <1>2
<1> HIDE DEF named
<1>6. CASE Len(q) = 0
  <2>1. \A x : ~ Holds(q, x)
    BY <1>4, <1>6 DEF Holds
  <2>2. named = {}
    BY <1>5, <2>1
  <2>3. QED
    BY <2>2 DEF named, segs
<1>7. CASE Len(q) = 1
  <2>1. q # <<>> /\ First(q, none) = q[1]
    <3>1. q # <<>>
      BY <1>7
    <3>2. QED
      BY <3>1 DEF First
  <2>2. \A x : Holds(q, x) <=> x = q[1]
    <3>1. \A i : i \in DOMAIN q <=> i = 1
      BY <1>4, <1>7
    <3>2. QED
      BY <3>1 DEF Holds
  <2>3. named = {r.pollster}
    BY <1>3, <1>5, <2>1, <2>2
  <2>4. QED
    BY <2>3 DEF named, segs, r
<1>8. CASE Len(q) >= 2
  BY <1>8 DEF q, segs
<1>9. Len(q) = 0 \/ Len(q) = 1 \/ Len(q) >= 2
  BY <1>4
<1>10. QED
  BY <1>6, <1>7, <1>8, <1>9, Zenon

\* The title or the block gives the value to the name for a scenario.
MayGive(page, k, name, value) ==
  \/ value \in GivenBy(page.title, name)
  \/ \E l \in DOMAIN Text(page, k) : value \in GivenBy(Text(page, k)[l], name)

\* The options of a block: one for each of its candidates' numbers, or for one nearby that is
\* given to this name, and each from one of them, or with a number given to its name.
LEMMA RowOptions ==
  ASSUME NEW page \in ArticlePage, NEW d, NEW k \in DOMAIN Blocks(page)
  PROVE  LET options == RowOf(d, page, k).options
             pairs == PairsIn(page, k)
         IN /\ \A i \in DOMAIN pairs :
                 /\ i \in DOMAIN options /\ options[i].name = pairs[i].name
                 /\ \/ options[i].value = pairs[i].value
                    \/ /\ Distance(pairs[i].value, options[i].value) <= Tolerance
                       /\ MayGive(page, k, pairs[i].name, options[i].value)
            /\ \A x \in DOMAIN options : \E i \in DOMAIN pairs :
                 /\ options[x].name = pairs[i].name
                 /\ \/ options[x].value = pairs[i].value
                    \/ MayGive(page, k, options[x].name, options[x].value)
            /\ \A x : Holds(Said(Text(page, k), "duels"), x) => Holds(pairs, x)
<1> DEFINE segs == Text(page, k)
           title == IF Len(Blocks(page)) = 1 THEN <<page.title>> ELSE <<>>
           pairs == PairsIn(page, k)
           old == BuildOptions(pairs)
           words == ScenarioWords(page, segs)
           options == RowOf(d, page, k).options
           H == Headline
<1>1. segs \in Seq(SurveySegment)
  BY BlocksOf
<1>2. title \in Seq(H)
  <2>1. page.title \in H
    BY DEF ArticlePage
  <2> HIDE DEF H
  <2>2. <<page.title>> \in Seq(H) /\ <<>> \in Seq(H)
    BY <2>1
  <2>3. QED
    BY <2>2
<1>3. pairs = CandidatePairs(segs, title)
  BY DEF PairsIn
<1>4. options = SplitCandidates(old, words)
  <2>1. options = ReadOptions(page, k)
    BY RowFields, Zenon
  <2>2. ReadOptions(page, k) = SplitCandidates(old, words)
    BY Zenon DEF ReadOptions, OptionsOf, PairsIn
  <2>3. QED
    BY <2>1, <2>2
<1>5. /\ words.pairs \in Seq(Race) /\ words.anchor \in Seq(NamedValue)
      /\ \A name, value : Gives(words, name, value) => MayGive(page, k, name, value)
  BY <1>1, WordsGive DEF MayGive
<1> HIDE DEF segs, title, pairs, options, words
<1>6. pairs \in Seq(NamedValue) /\ \A x : Holds(Said(segs, "duels"), x) => Holds(pairs, x)
  BY <1>1, <1>2, <1>3, PairsHold
<1>7. /\ old \in Seq(OptionRow) /\ DOMAIN old = DOMAIN pairs
      /\ \A i \in DOMAIN pairs : old[i].name = pairs[i].name /\ old[i].value = pairs[i].value
  BY <1>6, OptionsBuilt
<1> HIDE DEF old
<1>8. /\ \A i \in DOMAIN old : i \in DOMAIN options /\ KeepsRow(words, old[i], options[i])
      /\ \A x \in DOMAIN options : ComesFrom(words, old, options[x])
  BY <1>4, <1>5, <1>7, SplitKeeps
<1>9. ASSUME NEW i \in DOMAIN pairs
      PROVE  /\ i \in DOMAIN options /\ options[i].name = pairs[i].name
             /\ \/ options[i].value = pairs[i].value
                \/ /\ Distance(pairs[i].value, options[i].value) <= Tolerance
                   /\ MayGive(page, k, pairs[i].name, options[i].value)
  <2>1. i \in DOMAIN options /\ KeepsRow(words, old[i], options[i])
    BY <1>7, <1>8
  <2>2. QED
    BY <1>5, <1>7, <2>1 DEF KeepsRow
<1>10. ASSUME NEW x \in DOMAIN options
       PROVE  \E i \in DOMAIN pairs :
                /\ options[x].name = pairs[i].name
                /\ \/ options[x].value = pairs[i].value
                   \/ MayGive(page, k, options[x].name, options[x].value)
  <2>1. PICK i \in DOMAIN old :
          /\ old[i].name = options[x].name
          /\ options[x].value = old[i].value \/ Gives(words, options[x].name, options[x].value)
    BY <1>8 DEF ComesFrom
  <2>2. QED
    BY <1>5, <1>7, <2>1
<1>11. QED
  BY <1>6, <1>9, <1>10, Zenon DEF segs, pairs, options

\* Every head-to-head number of a block is an option of its observation, under its name, or it
\* has given way to one nearby that the same text or the title gives to this name.
LEMMA RowNumbers ==
  ASSUME NEW page \in ArticlePage, NEW d, NEW k \in DOMAIN Blocks(page),
         NEW j \in DOMAIN Text(page, k), NEW m \in DOMAIN Text(page, k)[j].duels
  PROVE  LET duel == Text(page, k)[j].duels[m]
             options == RowOf(d, page, k).options
         IN \E x \in DOMAIN options :
              /\ options[x].name = duel.name
              /\ \/ options[x].value = duel.value
                 \/ /\ Distance(duel.value, options[x].value) <= Tolerance
                    /\ MayGive(page, k, duel.name, options[x].value)
<1> DEFINE segs == Text(page, k)
           duel == segs[j].duels[m]
           pairs == PairsIn(page, k)
           options == RowOf(d, page, k).options
<1>1. segs \in Seq(SurveySegment)
  BY BlocksOf
<1>2. /\ \A i \in DOMAIN pairs :
           /\ i \in DOMAIN options /\ options[i].name = pairs[i].name
           /\ \/ options[i].value = pairs[i].value
              \/ /\ Distance(pairs[i].value, options[i].value) <= Tolerance
                 /\ MayGive(page, k, pairs[i].name, options[i].value)
      /\ \A x : Holds(Said(segs, "duels"), x) => Holds(pairs, x)
  BY RowOptions, Zenon
<1> HIDE DEF segs, pairs, options
<1>3. \A x : Holds(Said(segs, "duels"), x) <=> \E i \in DOMAIN segs : Holds(segs[i].duels, x)
  BY <1>1, SegmentLists
<1>4. Holds(segs[j].duels, duel) /\ j \in DOMAIN segs
  BY DEF Holds, segs
<1> HIDE DEF duel
<1>5. PICK i \in DOMAIN pairs : pairs[i] = duel
  BY <1>2, <1>3, <1>4 DEF Holds
<1>6. QED
  BY <1>2, <1>5 DEF segs, duel, options

\* Where an observation's days come from.
LEMMA RowDates ==
  ASSUME NEW page \in ArticlePage, NEW d, NEW k \in DOMAIN Blocks(page)
  PROVE  LET segs == Text(page, k)
             own == SurveyPeriod(page, segs)
             day == InferSurveyDate(page, d.policy)
             r == RowOf(d, page, k)
             relative == \E i \in DOMAIN Signals : Signals[i].word \in page.words
             registered == d.kind = "pack" /\ \E i \in DOMAIN Register[r.pollster] :
                             Register[r.pollster][i].day = r.end
         IN /\ own[2] # 0 =>
                 \E p : /\ Holds(Said(segs, "period"), p) /\ p.exists /\ (r.end - p.end) % YearLength = 0
                        /\ r.start <= r.end \/ (p.end < p.start /\ (p.year \/ ~ p.turns))
            /\ own[2] = 0 /\ r.end # 0 /\ ~ registered =>
                 /\ r.end <= FirstDate(page)
                 /\ relative \/ r.end = page.published
                 /\ page.published = 0 => d.policy = "allow_estimated_timestamp"
                 /\ r.confidence < CertainFrom => day.review # {}
<1> DEFINE segs == Text(page, k)
           own == SurveyPeriod(page, segs)
           day == InferSurveyDate(page, d.policy)
           end == IF own[2] # 0 THEN own[2] ELSE day.end
           sample == First(Samples(segs), 0)
           said == IF sample # 0 THEN sample ELSE First(Samples(page.segs), 0)
           r == RowOf(d, page, k)
           relative == \E i \in DOMAIN Signals : Signals[i].word \in page.words
           registered == d.kind = "pack" /\ \E i \in DOMAIN Register[r.pollster] :
                           Register[r.pollster][i].day = r.end
<1>1. segs \in Seq(SurveySegment)
  BY BlocksOf
<1>2. /\ own[1] \in Int /\ own[2] \in Int
      /\ own[2] # 0 =>
           /\ own[1] # 0
           /\ \E p : /\ Holds(Said(segs, "period"), p) /\ p.exists /\ (own[2] - p.end) % YearLength = 0
                     /\ own[1] <= own[2] \/ (p.end < p.start /\ (p.year \/ ~ p.turns))
  BY <1>1, PeriodSaid
<1>3. /\ day.end # 0 =>
           /\ day.end <= FirstDate(page)
           /\ relative \/ day.end = page.published
           /\ page.published = 0 => d.policy = "allow_estimated_timestamp"
           /\ day.confidence < CertainFrom => day.review # {}
  BY DayInferred
<1>4. r.confidence = day.confidence /\ Completed(d, r, sample, said, own[1], end)
  BY RowFields, Zenon
<1> HIDE DEF segs, own, day, end, sample, said, r, relative, registered
<1>5. \/ r.start = own[1] /\ r.end = end
      \/ d.kind = "pack" /\ \E i \in DOMAIN Register[r.pollster] :
           /\ r.start = (IF own[1] = 0 THEN Register[r.pollster][i].start ELSE own[1])
           /\ r.end = (IF end = 0 THEN Register[r.pollster][i].day ELSE end)
  BY <1>4 DEF Completed
<1>6. CASE own[2] # 0
  <2>1. end = own[2] /\ end # 0 /\ own[1] # 0
    BY <1>2, <1>6 DEF end
  <2>2. r.start = own[1] /\ r.end = own[2]
    BY <1>5, <2>1
  <2>3. QED
    BY <1>2, <1>6, <2>2 DEF segs, own, r
<1>7. CASE own[2] = 0
  <2>1. end = day.end
    BY <1>7 DEF end
  <2>2. r.end = end \/ (end = 0 /\ registered)
    BY <1>5 DEF registered
  <2>3. r.end # 0 /\ ~ registered =>
          /\ r.end <= FirstDate(page)
          /\ relative \/ r.end = page.published
          /\ page.published = 0 => d.policy = "allow_estimated_timestamp"
          /\ r.confidence < CertainFrom => day.review # {}
    BY <1>3, <1>4, <2>1, <2>2
  <2>4. QED
    BY <1>7, <2>3 DEF segs, own, day, r, relative, registered
<1>8. QED
  BY <1>6, <1>7

-----------------------------------------------------------------------------
(* The ledger of articles and observations.                                *)

ArticleRow == [url : DOMAIN Summary, page : ArticlePage]

ReadRow(d, url, page, k) == [url |-> url, row |-> RowOf(d, page, k)]

ReadRows(d) ==
  {ReadRow(d, url, page, k) : url \in DOMAIN Summary, page \in ArticlePage, k \in Nat}

\* An output is what its parts are.
Shape(out) ==
  out = [articles |-> out.articles, observations |-> out.observations, review |-> out.review,
         dropped |-> out.dropped, blocked |-> out.blocked]

\* The review rows of what is read out of an article.
Reviewed(d, out, url, page) ==
  /\ \A k \in DOMAIN Blocks(page) : \A code \in ObservationReviews(page, ReadOf(d, page, k)) :
       Review(<<"observation", url, Blocks(page)[k]>>, code) \in out.review
  /\ \A code \in InferSurveyDate(page, d.policy).review : Review(<<"article", url>>, code) \in out.review

\* An article that is read is read as a whole.
ReadWhole(d, out, url, page) ==
  /\ \A k \in DOMAIN Blocks(page) : Holds(out.observations, ReadRow(d, url, page, k))
  /\ Reviewed(d, out, url, page)

\* What keeps the rows of an output in order: one article per url, every observation of one of
\* its blocks, one for each, and none without the others.
Ledger(d, out) ==
  /\ Shape(out) /\ out.articles \in Seq(ArticleRow) /\ out.observations \in Seq(ReadRows(d))
  /\ \A a, b \in DOMAIN out.articles : a # b => out.articles[a].url # out.articles[b].url
  /\ \A i \in DOMAIN out.observations :
       \E a \in DOMAIN out.articles : \E k \in DOMAIN Blocks(out.articles[a].page) :
         out.observations[i] = ReadRow(d, out.articles[a].url, out.articles[a].page, k)
  /\ \A i, j \in DOMAIN out.observations :
       i # j => \/ out.observations[i].url # out.observations[j].url
                \/ out.observations[i].row.block # out.observations[j].row.block
  /\ \A a \in DOMAIN out.articles :
       (\E i \in DOMAIN out.observations : out.observations[i].url = out.articles[a].url)
         => ReadWhole(d, out, out.articles[a].url, out.articles[a].page)

\* How a url may end.
Settled(d, out, url) ==
  \/ \E i \in DOMAIN out.observations : out.observations[i].url = url
  \/ \E code : Review(<<"article", url>>, code) \in out.review
  \/ \E x \in out.dropped : x.url = url /\ \E a \in DOMAIN out.articles :
       out.articles[a].page.signature = x.page.signature
  \/ \E x : /\ Holds(out.articles, x) \/ x \in out.blocked
            /\ x.url = url /\ (Classify(x.page) = "NON_POLL" \/ (d.kind = "pack" /\ ~ x.page.quality))

\* Nothing is taken away.
Grown(out, new) ==
  /\ Shape(new) /\ out.review \subseteq new.review /\ out.dropped \subseteq new.dropped
  /\ out.blocked \subseteq new.blocked
  /\ \A i \in DOMAIN out.articles : i \in DOMAIN new.articles /\ new.articles[i] = out.articles[i]
  /\ \A i \in DOMAIN out.observations :
       i \in DOMAIN new.observations /\ new.observations[i] = out.observations[i]

\* Then what is settled stays so, and what is read as a whole.
LEMMA GrownKeeps ==
  ASSUME NEW d, NEW out, NEW new, Grown(out, new)
  PROVE  /\ \A url : Settled(d, out, url) => Settled(d, new, url)
         /\ \A url, page : ReadWhole(d, out, url, page) => ReadWhole(d, new, url, page)
<1>1. /\ \A x : Holds(out.articles, x) => Holds(new.articles, x)
      /\ \A x : Holds(out.observations, x) => Holds(new.observations, x)
      /\ out.review \subseteq new.review
  BY DEF Grown, Holds
<1>2. ASSUME NEW url, Settled(d, out, url) PROVE Settled(d, new, url)
  <2>1. CASE \E i \in DOMAIN out.observations : out.observations[i].url = url
    <3>1. \E i \in DOMAIN new.observations : new.observations[i].url = url
      BY <2>1 DEF Grown
    <3>2. QED
      BY <3>1 DEF Settled
  <2>2. CASE \E code : Review(<<"article", url>>, code) \in out.review
    <3>1. \E code : Review(<<"article", url>>, code) \in new.review
      BY <2>2 DEF Grown
    <3>2. QED
      BY <3>1 DEF Settled
  <2>3. CASE \E x \in out.dropped : x.url = url /\ \E a \in DOMAIN out.articles :
               out.articles[a].page.signature = x.page.signature
    <3>1. \E x \in new.dropped : x.url = url /\ \E a \in DOMAIN new.articles :
               new.articles[a].page.signature = x.page.signature
      BY <2>3 DEF Grown
    <3>2. QED
      BY <3>1 DEF Settled
  <2>4. CASE \E x : /\ Holds(out.articles, x) \/ x \in out.blocked
                    /\ x.url = url /\ (Classify(x.page) = "NON_POLL" \/ (d.kind = "pack" /\ ~ x.page.quality))
    <3>1. PICK x : /\ Holds(out.articles, x) \/ x \in out.blocked
                   /\ x.url = url /\ (Classify(x.page) = "NON_POLL" \/ (d.kind = "pack" /\ ~ x.page.quality))
      BY <2>4
    <3>2. Holds(new.articles, x) \/ x \in new.blocked
      BY <1>1, <3>1 DEF Grown
    <3>3. QED
      BY <3>1, <3>2, Zenon DEF Settled
  <2>5. QED
    BY <1>2, <2>1, <2>2, <2>3, <2>4, Zenon DEF Settled
<1>3. ASSUME NEW url, NEW page, ReadWhole(d, out, url, page) PROVE ReadWhole(d, new, url, page)
  BY <1>1, <1>3 DEF ReadWhole, Reviewed
<1>4. QED
  BY <1>2, <1>3

\* Without an article the ledger stays as it is.
LEMMA NoArticle ==
  ASSUME NEW d, NEW out, NEW new, Ledger(d, out), Grown(out, new),
         new.articles = out.articles, new.observations = out.observations
  PROVE  Ledger(d, new)
<1>1. Shape(new)
  BY DEF Grown
<1>2. \A url, page : ReadWhole(d, out, url, page) => ReadWhole(d, new, url, page)
  BY GrownKeeps
<1>3. QED
  BY <1>1, <1>2 DEF Ledger

\* An article of a new url is added.
AddedArticle(out, new, url, page) ==
  /\ Grown(out, new) /\ url \in DOMAIN Summary /\ page \in ArticlePage
  /\ \A a \in DOMAIN out.articles : out.articles[a].url # url
  /\ new.articles = Append(out.articles, Article(url, page))

LEMMA OneMore ==
  ASSUME NEW d, NEW out, NEW new, NEW url, NEW page, Ledger(d, out), AddedArticle(out, new, url, page)
  PROVE  /\ new.articles \in Seq(ArticleRow)
         /\ DOMAIN new.articles = DOMAIN out.articles \cup {Len(out.articles) + 1}
         /\ Len(out.articles) + 1 \notin DOMAIN out.articles
         /\ new.articles[Len(out.articles) + 1] = Article(url, page)
         /\ \A a \in DOMAIN out.articles : new.articles[a] = out.articles[a]
         /\ \A a, b \in DOMAIN new.articles : a # b => new.articles[a].url # new.articles[b].url
<1> DEFINE A == ArticleRow
           s == out.articles
           x == Article(url, page)
           t == new.articles
           n == Len(s) + 1
<1>1. x \in A /\ x.url = url
  BY DEF AddedArticle, Article, ArticleRow
<1>2. s \in Seq(A) /\ t = Append(s, x)
  BY DEF Ledger, AddedArticle
<1>3. \A a \in DOMAIN s : s[a].url # url
  BY DEF AddedArticle
<1>4. \A a, b \in DOMAIN s : a # b => s[a].url # s[b].url
  BY DEF Ledger
<1> HIDE DEF A, s, x, t
<1>5. /\ t \in Seq(A) /\ DOMAIN t = DOMAIN s \cup {n} /\ n \notin DOMAIN s /\ t[n] = x
      /\ \A a \in DOMAIN s : t[a] = s[a]
  BY <1>1, <1>2
<1> HIDE DEF n
<1>6. \A a, b \in DOMAIN t : a # b => t[a].url # t[b].url
  BY <1>1, <1>3, <1>4, <1>5
<1>7. QED
  BY <1>5, <1>6 DEF A, s, x, t, n

\* An article nothing is read out of.
LEMMA OnlyArticle ==
  ASSUME NEW d, NEW out, NEW new, NEW url, NEW page, Ledger(d, out), AddedArticle(out, new, url, page),
         new.observations = out.observations
  PROVE  Ledger(d, new)
<1> DEFINE n == Len(out.articles) + 1
<1>1. /\ new.articles \in Seq(ArticleRow) /\ DOMAIN new.articles = DOMAIN out.articles \cup {n}
      /\ new.articles[n] = Article(url, page)
      /\ \A a \in DOMAIN out.articles : new.articles[a] = out.articles[a]
      /\ \A a, b \in DOMAIN new.articles : a # b => new.articles[a].url # new.articles[b].url
  BY OneMore
<1> HIDE DEF n
<1>2. Shape(new) /\ \A a \in DOMAIN out.articles : out.articles[a].url # url
  BY DEF AddedArticle, Grown
<1>3. \A u, p : ReadWhole(d, out, u, p) => ReadWhole(d, new, u, p)
  BY GrownKeeps DEF AddedArticle
<1>4. \A i \in DOMAIN out.observations :
        \E a \in DOMAIN out.articles : \E k \in DOMAIN Blocks(out.articles[a].page) :
          out.observations[i] = ReadRow(d, out.articles[a].url, out.articles[a].page, k)
  BY DEF Ledger
<1>5. ASSUME NEW i \in DOMAIN out.observations
      PROVE  /\ out.observations[i].url # url
             /\ \E a \in DOMAIN new.articles : \E k \in DOMAIN Blocks(new.articles[a].page) :
                  out.observations[i] = ReadRow(d, new.articles[a].url, new.articles[a].page, k)
  <2>0. PICK a \in DOMAIN out.articles : \E k \in DOMAIN Blocks(out.articles[a].page) :
          out.observations[i] = ReadRow(d, out.articles[a].url, out.articles[a].page, k)
    BY <1>4
  <2>1. PICK k \in DOMAIN Blocks(out.articles[a].page) :
          out.observations[i] = ReadRow(d, out.articles[a].url, out.articles[a].page, k)
    BY <2>0
  <2>2. out.observations[i].url = out.articles[a].url
    BY <2>1 DEF ReadRow
  <2>3. a \in DOMAIN new.articles /\ new.articles[a] = out.articles[a]
    BY <1>1
  <2>4. QED
    BY <1>2, <2>1, <2>2, <2>3
<1>6. \A i \in DOMAIN new.observations :
        \E a \in DOMAIN new.articles : \E k \in DOMAIN Blocks(new.articles[a].page) :
          new.observations[i] = ReadRow(d, new.articles[a].url, new.articles[a].page, k)
  BY <1>5
<1>7. ASSUME NEW a \in DOMAIN new.articles,
             \E i \in DOMAIN new.observations : new.observations[i].url = new.articles[a].url
      PROVE  ReadWhole(d, new, new.articles[a].url, new.articles[a].page)
  <2>1. a # n
    BY <1>1, <1>5, <1>7 DEF Article
  <2>2. a \in DOMAIN out.articles /\ new.articles[a] = out.articles[a]
    BY <1>1, <2>1
  <2>3. ReadWhole(d, out, out.articles[a].url, out.articles[a].page)
    BY <1>7, <2>2 DEF Ledger
  <2>4. QED
    BY <1>3, <2>2, <2>3
<1>8. /\ new.observations \in Seq(ReadRows(d))
      /\ \A i, j \in DOMAIN new.observations :
           i # j => \/ new.observations[i].url # new.observations[j].url
                    \/ new.observations[i].row.block # new.observations[j].row.block
  BY DEF Ledger
<1>9. QED
  BY <1>1, <1>2, <1>6, <1>7, <1>8 DEF Ledger

RowsRead(d, url, page) == [k \in DOMAIN Blocks(page) |-> ReadRow(d, url, page, k)]

\* The rows of one article are one for each block.
LEMMA RowsApart ==
  ASSUME NEW d, NEW url \in DOMAIN Summary, NEW page \in ArticlePage
  PROVE  /\ RowsRead(d, url, page) \in Seq(ReadRows(d)) /\ DOMAIN RowsRead(d, url, page) = DOMAIN Blocks(page)
         /\ \A k \in DOMAIN Blocks(page) : RowsRead(d, url, page)[k] = ReadRow(d, url, page, k)
         /\ \A k \in DOMAIN Blocks(page) : /\ ReadRow(d, url, page, k).url = url
                                           /\ ReadRow(d, url, page, k).row.block = Blocks(page)[k]
         /\ \A k, l \in DOMAIN Blocks(page) : k # l => Blocks(page)[k] # Blocks(page)[l]
         /\ 1 \in DOMAIN Blocks(page)
<1> DEFINE rows == RowsRead(d, url, page)
           R == ReadRows(d)
           B == Blocks(page)
           row(k) == ReadRow(d, url, page, k)
<1>1. Len(B) \in Nat \ {0} /\ DOMAIN B = 1 .. Len(B)
  BY BlocksOf
<1>2. \A k, l \in DOMAIN B : k # l => B[k] # B[l]
  BY BlocksOf, Zenon DEF IsSplit
<1>3. \A k \in DOMAIN B : row(k).url = url /\ row(k).row.block = B[k]
  <2> TAKE k \in DOMAIN B
  <2>1. row(k).url = url /\ row(k).row = RowOf(d, page, k)
    BY DEF ReadRow
  <2>2. RowOf(d, page, k).block = B[k]
    BY RowFields, Zenon
  <2>3. QED
    BY <2>1, <2>2
<1>4. \A k \in DOMAIN B : row(k) \in R
  BY <1>1 DEF ReadRows
<1>5. rows = [k \in DOMAIN B |-> row(k)]
  BY DEF RowsRead
<1> HIDE DEF B, R, rows, row
<1>6. rows \in [1 .. Len(B) -> R] /\ DOMAIN rows = DOMAIN B
  BY <1>1, <1>4, <1>5
<1>7. rows \in Seq(R)
  BY <1>1, <1>6
<1>8. \A k \in DOMAIN B : rows[k] = row(k)
  BY <1>5
<1>9. 1 \in DOMAIN B
  BY <1>1
<1>10. QED
  BY <1>2, <1>3, <1>6, <1>7, <1>8, <1>9 DEF B, R, rows, row

\* An article read as a whole.
LEMMA WholeArticle ==
  ASSUME NEW d, NEW out, NEW new, NEW url, NEW page, Ledger(d, out), AddedArticle(out, new, url, page),
         new.observations = out.observations \o RowsRead(d, url, page), Reviewed(d, new, url, page)
  PROVE  Ledger(d, new) /\ Settled(d, new, url)
<1> DEFINE n == Len(out.articles) + 1
           B == Blocks(page)
           s == out.observations
           t == new.observations
           m == Len(out.observations)
           R == ReadRows(d)
           rows == RowsRead(d, url, page)
           row(k) == ReadRow(d, url, page, k)
<1>1. /\ new.articles \in Seq(ArticleRow) /\ DOMAIN new.articles = DOMAIN out.articles \cup {n}
      /\ new.articles[n] = Article(url, page)
      /\ \A a \in DOMAIN out.articles : new.articles[a] = out.articles[a]
      /\ \A a, b \in DOMAIN new.articles : a # b => new.articles[a].url # new.articles[b].url
  BY OneMore
<1> HIDE DEF n
<1>2. Shape(new) /\ \A a \in DOMAIN out.articles : out.articles[a].url # url
  BY DEF AddedArticle, Grown
<1>3. \A u, p : ReadWhole(d, out, u, p) => ReadWhole(d, new, u, p)
  BY GrownKeeps DEF AddedArticle
<1>4. \A i \in DOMAIN s :
        \E a \in DOMAIN out.articles : \E k \in DOMAIN Blocks(out.articles[a].page) :
          s[i] = ReadRow(d, out.articles[a].url, out.articles[a].page, k)
  BY DEF Ledger
<1>5. /\ rows \in Seq(R) /\ DOMAIN rows = DOMAIN B /\ 1 \in DOMAIN B
      /\ \A k \in DOMAIN B : rows[k] = row(k) /\ row(k).url = url /\ row(k).row.block = B[k]
      /\ \A k, l \in DOMAIN B : k # l => B[k] # B[l]
  BY RowsApart DEF AddedArticle
<1>6. s \in Seq(R) /\ t = s \o rows
  BY DEF Ledger
<1>7. /\ \A i, j \in DOMAIN s : i # j => s[i].url # s[j].url \/ s[i].row.block # s[j].row.block
  BY DEF Ledger
<1> HIDE DEF B, s, t, R, rows, row
<1>8. /\ t \in Seq(R) /\ m \in Nat
      /\ \A i \in DOMAIN s : i \in DOMAIN t /\ t[i] = s[i] /\ i <= m /\ i \in Nat
      /\ \A k \in DOMAIN B : m + k \in DOMAIN t /\ t[m + k] = rows[k] /\ k \in Nat /\ k > 0
      /\ \A i \in DOMAIN t : i \in Nat /\ (i \in DOMAIN s \/ (i > m /\ i - m \in DOMAIN B /\ t[i] = rows[i - m]))
  <2>1. /\ Len(s) \in Nat /\ Len(rows) \in Nat /\ DOMAIN s = 1 .. Len(s) /\ DOMAIN rows = 1 .. Len(rows)
        /\ t \in Seq(R) /\ DOMAIN t = 1 .. Len(s) + Len(rows)
    BY <1>5, <1>6
  <2>2. m = Len(s)
    BY DEF s
  <2>3. /\ \A i \in 1 .. Len(s) : t[i] = s[i]
        /\ \A i \in Len(s) + 1 .. Len(s) + Len(rows) : t[i] = rows[i - Len(s)]
    BY <1>5, <1>6
  <2> HIDE DEF m
  <2>4. \A i \in DOMAIN s : i \in DOMAIN t /\ t[i] = s[i] /\ i <= m /\ i \in Nat
    BY <2>1, <2>2, <2>3
  <2>5. ASSUME NEW k \in DOMAIN B PROVE m + k \in DOMAIN t /\ t[m + k] = rows[k] /\ k \in Nat /\ k > 0
    <3>1. k \in 1 .. Len(rows)
      BY <1>5, <2>1
    <3>2. m + k \in Len(s) + 1 .. Len(s) + Len(rows) /\ (m + k) - Len(s) = k
      BY <2>1, <2>2, <3>1
    <3>3. t[m + k] = rows[k]
      BY <2>3, <3>2
    <3>4. QED
      BY <2>1, <3>1, <3>2, <3>3
  <2>6. ASSUME NEW i \in DOMAIN t
        PROVE  i \in Nat /\ (i \in DOMAIN s \/ (i > m /\ i - m \in DOMAIN B /\ t[i] = rows[i - m]))
    <3>1. i \in 1 .. Len(s) + Len(rows)
      BY <2>1
    <3>2. CASE i <= Len(s)
      BY <2>1, <3>1, <3>2
    <3>3. CASE i > Len(s)
      <4>1. i \in Len(s) + 1 .. Len(s) + Len(rows) /\ i - m \in 1 .. Len(rows)
        BY <2>1, <2>2, <3>1, <3>3
      <4>2. QED
        BY <1>5, <2>1, <2>2, <2>3, <3>1, <3>3, <4>1
    <3>4. QED
      BY <2>1, <3>1, <3>2, <3>3
  <2>7. QED
    BY <2>1, <2>2, <2>4, <2>5, <2>6
<1> HIDE DEF m
<1>9. ASSUME NEW i \in DOMAIN s
      PROVE  /\ s[i].url # url
             /\ \E a \in DOMAIN new.articles : \E k \in DOMAIN Blocks(new.articles[a].page) :
                  s[i] = ReadRow(d, new.articles[a].url, new.articles[a].page, k)
  <2>1. PICK a \in DOMAIN out.articles : \E k \in DOMAIN Blocks(out.articles[a].page) :
          s[i] = ReadRow(d, out.articles[a].url, out.articles[a].page, k)
    BY <1>4
  <2>2. PICK k \in DOMAIN Blocks(out.articles[a].page) :
          s[i] = ReadRow(d, out.articles[a].url, out.articles[a].page, k)
    BY <2>1
  <2>3. s[i].url = out.articles[a].url
    BY <2>2 DEF ReadRow
  <2>4. a \in DOMAIN new.articles /\ new.articles[a] = out.articles[a]
    BY <1>1
  <2>5. QED
    BY <1>2, <2>2, <2>3, <2>4
<1>10. n \in DOMAIN new.articles /\ new.articles[n].url = url /\ new.articles[n].page = page
  BY <1>1 DEF Article
<1>11. ASSUME NEW i \in DOMAIN t
       PROVE  \E a \in DOMAIN new.articles : \E k \in DOMAIN Blocks(new.articles[a].page) :
                t[i] = ReadRow(d, new.articles[a].url, new.articles[a].page, k)
  <2>1. CASE i \in DOMAIN s
    <3>1. t[i] = s[i]
      BY <1>8, <2>1
    <3>2. QED
      BY <1>9, <2>1, <3>1
  <2>2. CASE i \notin DOMAIN s
    <3>1. i - m \in DOMAIN B /\ t[i] = row(i - m)
      BY <1>5, <1>8, <2>2
    <3>2. QED
      BY <1>10, <3>1 DEF B, row
  <2>3. QED
    BY <2>1, <2>2
<1>12. ASSUME NEW i \in DOMAIN t, NEW j \in DOMAIN t, i # j
       PROVE  t[i].url # t[j].url \/ t[i].row.block # t[j].row.block
  <2>1. CASE i \in DOMAIN s /\ j \in DOMAIN s
    <3>1. t[i] = s[i] /\ t[j] = s[j]
      BY <1>8, <2>1
    <3>2. s[i].url # s[j].url \/ s[i].row.block # s[j].row.block
      BY <1>7, <1>12, <2>1
    <3>3. QED
      BY <3>1, <3>2
  <2>2. CASE i \in DOMAIN s /\ j \notin DOMAIN s
    <3>1. t[j].url = url
      BY <1>5, <1>8, <2>2
    <3>2. QED
      BY <1>8, <1>9, <2>2, <3>1
  <2>3. CASE i \notin DOMAIN s /\ j \in DOMAIN s
    <3>1. t[i].url = url
      BY <1>5, <1>8, <2>3
    <3>2. QED
      BY <1>8, <1>9, <2>3, <3>1
  <2>4. CASE i \notin DOMAIN s /\ j \notin DOMAIN s
    <3>0. ASSUME NEW l \in DOMAIN t, l \notin DOMAIN s
          PROVE  l - m \in DOMAIN B /\ t[l].row.block = B[l - m]
      <4>1. l - m \in DOMAIN B /\ t[l] = rows[l - m]
        BY <1>8, <3>0
      <4>2. t[l] = row(l - m) /\ row(l - m).row.block = B[l - m]
        BY <1>5, <4>1
      <4>3. QED
        BY <4>1, <4>2
    <3>1. /\ i - m \in DOMAIN B /\ t[i].row.block = B[i - m]
          /\ j - m \in DOMAIN B /\ t[j].row.block = B[j - m]
      BY <2>4, <3>0
    <3>2. i - m # j - m
      BY <1>8, <1>12
    <3>3. QED
      BY <1>5, <3>1, <3>2
  <2>5. QED
    BY <2>1, <2>2, <2>3, <2>4
<1>13. ReadWhole(d, new, url, page)
  <2>1. ASSUME NEW k \in DOMAIN B PROVE Holds(t, row(k))
    BY <1>5, <1>8 DEF Holds
  <2>2. QED
    BY <2>1 DEF ReadWhole, B, row, t
<1>14. ASSUME NEW a \in DOMAIN new.articles, \E i \in DOMAIN t : t[i].url = new.articles[a].url
       PROVE  ReadWhole(d, new, new.articles[a].url, new.articles[a].page)
  <2>1. CASE a = n
    BY <1>10, <1>13, <2>1
  <2>2. CASE a # n
    <3>1. a \in DOMAIN out.articles /\ new.articles[a] = out.articles[a] /\ out.articles[a].url # url
      BY <1>1, <1>2, <2>2
    <3>2. PICK i \in DOMAIN t : t[i].url = out.articles[a].url
      BY <1>14, <3>1
    <3>3. i \in DOMAIN s
      BY <1>5, <1>8, <3>1, <3>2
    <3>4. s[i].url = out.articles[a].url
      BY <1>8, <3>2, <3>3
    <3>5. ReadWhole(d, out, out.articles[a].url, out.articles[a].page)
      BY <3>1, <3>3, <3>4 DEF Ledger, s
    <3>6. QED
      BY <1>3, <3>1, <3>5
  <2>3. QED
    BY <2>1, <2>2
<1>15. Settled(d, new, url)
  <2>1. m + 1 \in DOMAIN t /\ t[m + 1].url = url
    BY <1>5, <1>8
  <2>2. QED
    BY <2>1 DEF Settled, t
<1>16. Ledger(d, new)
  BY <1>1, <1>2, <1>8, <1>11, <1>12, <1>14 DEF Ledger, t, R
<1>17. QED
  BY <1>15, <1>16

-----------------------------------------------------------------------------
(* What the drivers do with an article.                                    *)

\* An output with one part replaced.
LEMMA PartReplaced ==
  ASSUME NEW out, Shape(out), NEW x
  PROVE  /\ [out EXCEPT !.review = x] =
              [articles |-> out.articles, observations |-> out.observations, review |-> x,
               dropped |-> out.dropped, blocked |-> out.blocked]
         /\ [out EXCEPT !.dropped = x] =
              [articles |-> out.articles, observations |-> out.observations, review |-> out.review,
               dropped |-> x, blocked |-> out.blocked]
         /\ [out EXCEPT !.blocked = x] =
              [articles |-> out.articles, observations |-> out.observations, review |-> out.review,
               dropped |-> out.dropped, blocked |-> x]
         /\ [out EXCEPT !.articles = x] =
              [articles |-> x, observations |-> out.observations, review |-> out.review,
               dropped |-> out.dropped, blocked |-> out.blocked]
         /\ [out EXCEPT !.observations = x] =
              [articles |-> out.articles, observations |-> x, review |-> out.review,
               dropped |-> out.dropped, blocked |-> out.blocked]
<1> DEFINE a == out.articles
           o == out.observations
           r == out.review
           p == out.dropped
           b == out.blocked
           full == [articles |-> a, observations |-> o, review |-> r, dropped |-> p, blocked |-> b]
<1>1. out = full
  BY DEF Shape
<1> HIDE DEF a, o, r, p, b
<1>2. [full EXCEPT !.review = x] = [articles |-> a, observations |-> o, review |-> x, dropped |-> p, blocked |-> b]
  OBVIOUS
<1>3. [full EXCEPT !.dropped = x] = [articles |-> a, observations |-> o, review |-> r, dropped |-> x, blocked |-> b]
  OBVIOUS
<1>4. [full EXCEPT !.blocked = x] = [articles |-> a, observations |-> o, review |-> r, dropped |-> p, blocked |-> x]
  OBVIOUS
<1>5. [full EXCEPT !.articles = x] = [articles |-> x, observations |-> o, review |-> r, dropped |-> p, blocked |-> b]
  OBVIOUS
<1>6. [full EXCEPT !.observations = x] = [articles |-> a, observations |-> x, review |-> r, dropped |-> p, blocked |-> b]
  OBVIOUS
<1> HIDE DEF full
<1>7. QED
  BY <1>1, <1>2, <1>3, <1>4, <1>5, <1>6 DEF a, o, r, p, b

\* An output of five parts has them.
LEMMA PartsOf ==
  ASSUME NEW a, NEW o, NEW r, NEW p, NEW b, NEW out,
         out = [articles |-> a, observations |-> o, review |-> r, dropped |-> p, blocked |-> b]
  PROVE  /\ Shape(out) /\ out.articles = a /\ out.observations = o /\ out.review = r
         /\ out.dropped = p /\ out.blocked = b
<1>1. out.articles = a /\ out.observations = o
  OBVIOUS
<1>2. out.review = r /\ out.dropped = p
  OBVIOUS
<1>3. out.blocked = b
  OBVIOUS
<1>4. QED
  BY <1>1, <1>2, <1>3 DEF Shape

WithArticle(out, url, page) == [out EXCEPT !.articles = Append(@, Article(url, page))]
WithReview(out, more) == [out EXCEPT !.review = @ \cup more]
WithDropped(out, more) == [out EXCEPT !.dropped = @ \cup more]
WithBlocked(out, more) == [out EXCEPT !.blocked = @ \cup more]

\* The rows of the review, of what is dropped and of what is blocked only become more.
LEMMA Noted ==
  ASSUME NEW d, NEW out, Ledger(d, out), NEW more
  PROVE  LET r == WithReview(out, more)
             p == WithDropped(out, more)
             b == WithBlocked(out, more)
         IN /\ Ledger(d, r) /\ Grown(out, r) /\ r.articles = out.articles
            /\ r.observations = out.observations /\ r.review = out.review \cup more
            /\ Ledger(d, p) /\ Grown(out, p) /\ p.articles = out.articles /\ p.dropped = out.dropped \cup more
            /\ Ledger(d, b) /\ Grown(out, b) /\ b.articles = out.articles /\ b.blocked = out.blocked \cup more
<1> DEFINE r == [out EXCEPT !.review = @ \cup more]
           p == [out EXCEPT !.dropped = @ \cup more]
           b == [out EXCEPT !.blocked = @ \cup more]
<1>1. Shape(out)
  BY DEF Ledger
<1>2. /\ r = [articles |-> out.articles, observations |-> out.observations, review |-> out.review \cup more,
              dropped |-> out.dropped, blocked |-> out.blocked]
      /\ p = [articles |-> out.articles, observations |-> out.observations, review |-> out.review,
              dropped |-> out.dropped \cup more, blocked |-> out.blocked]
      /\ b = [articles |-> out.articles, observations |-> out.observations, review |-> out.review,
              dropped |-> out.dropped, blocked |-> out.blocked \cup more]
  BY <1>1, PartReplaced
<1> HIDE DEF r, p, b
<1>3. /\ Shape(r) /\ r.articles = out.articles /\ r.observations = out.observations
      /\ r.review = out.review \cup more /\ r.dropped = out.dropped /\ r.blocked = out.blocked
  BY <1>2, PartsOf
<1>4. /\ Shape(p) /\ p.articles = out.articles /\ p.observations = out.observations
      /\ p.review = out.review /\ p.dropped = out.dropped \cup more /\ p.blocked = out.blocked
  BY <1>2, PartsOf
<1>5. /\ Shape(b) /\ b.articles = out.articles /\ b.observations = out.observations
      /\ b.review = out.review /\ b.dropped = out.dropped /\ b.blocked = out.blocked \cup more
  BY <1>2, PartsOf
<1>6. Grown(out, r) /\ Grown(out, p) /\ Grown(out, b)
  BY <1>3, <1>4, <1>5 DEF Grown
<1>7. Ledger(d, r) /\ Ledger(d, p) /\ Ledger(d, b)
  BY <1>3, <1>4, <1>5, <1>6, NoArticle
<1>8. QED
  BY <1>3, <1>4, <1>5, <1>6, <1>7 DEF r, p, b, WithReview, WithDropped, WithBlocked

\* What handling a new url may not harm.
Handles(d, out, new, url) ==
  /\ Ledger(d, new) /\ Grown(out, new) /\ Settled(d, new, url)
  /\ \A a \in DOMAIN new.articles :
       new.articles[a].url = url \/ \E b \in DOMAIN out.articles : new.articles[a].url = out.articles[b].url

Fresh(out, url, page) ==
  /\ url \in DOMAIN Summary /\ page \in ArticlePage
  /\ \A a \in DOMAIN out.articles : out.articles[a].url # url

\* A review row settles a url.
LEMMA ForReviewOnly ==
  ASSUME NEW d, NEW out, Ledger(d, out), NEW url, NEW code
  PROVE  Handles(d, out, WithReview(out, {Review(<<"article", url>>, code)}), url)
<1> DEFINE more == {Review(<<"article", url>>, code)}
           new == WithReview(out, more)
<1>1. /\ Ledger(d, new) /\ Grown(out, new) /\ new.articles = out.articles /\ new.review = out.review \cup more
  <2> HIDE DEF more
  <2>1. QED
    BY Noted
<1> HIDE DEF new
<1>2. Settled(d, new, url)
  BY <1>1 DEF Settled
<1>3. QED
  BY <1>1, <1>2 DEF Handles, new

\* An article of a fresh url is kept.
LEMMA ArticleKept ==
  ASSUME NEW d, NEW out, Ledger(d, out), NEW url, NEW page, Fresh(out, url, page)
  PROVE  LET read == WithArticle(out, url, page)
         IN /\ AddedArticle(out, read, url, page) /\ Ledger(d, read) /\ read.observations = out.observations
            /\ read.review = out.review /\ read.dropped = out.dropped /\ read.blocked = out.blocked
            /\ \A a \in DOMAIN read.articles :
                 read.articles[a].url = url \/ \E b \in DOMAIN out.articles : read.articles[a].url = out.articles[b].url
            /\ Holds(read.articles, Article(url, page))
<1> DEFINE read == WithArticle(out, url, page)
           n == Len(out.articles) + 1
<1>1. Shape(out)
  BY DEF Ledger
<1>2. read = [articles |-> Append(out.articles, Article(url, page)), observations |-> out.observations,
              review |-> out.review, dropped |-> out.dropped, blocked |-> out.blocked]
  BY <1>1, PartReplaced DEF WithArticle
<1> HIDE DEF read
<1>3. /\ Shape(read) /\ read.articles = Append(out.articles, Article(url, page))
      /\ read.observations = out.observations /\ read.review = out.review
      /\ read.dropped = out.dropped /\ read.blocked = out.blocked
  BY <1>2, PartsOf
<1>4. \A a \in DOMAIN out.articles : a \in DOMAIN read.articles /\ read.articles[a] = out.articles[a]
  <2> DEFINE s == out.articles
             x == Article(url, page)
  <2>1. s \in Seq(ArticleRow) /\ x \in ArticleRow
    BY DEF Ledger, Fresh, Article, ArticleRow
  <2> HIDE DEF s, x
  <2>2. \A a \in DOMAIN s : a \in DOMAIN Append(s, x) /\ Append(s, x)[a] = s[a]
    BY <2>1
  <2>3. QED
    BY <1>3, <2>2 DEF s, x
<1>5. Grown(out, read)
  BY <1>3, <1>4 DEF Grown
<1>6. AddedArticle(out, read, url, page)
  BY <1>3, <1>5 DEF AddedArticle, Fresh
<1>7. Ledger(d, read)
  BY <1>3, <1>6, OnlyArticle
<1>8. /\ DOMAIN read.articles = DOMAIN out.articles \cup {n} /\ read.articles[n] = Article(url, page)
      /\ \A a \in DOMAIN out.articles : read.articles[a] = out.articles[a]
  BY <1>6, OneMore
<1> HIDE DEF n
<1>9. Article(url, page).url = url
  BY DEF Article
<1>10. Holds(read.articles, Article(url, page))
  BY <1>8 DEF Holds
<1>11. QED
  BY <1>3, <1>6, <1>7, <1>8, <1>9, <1>10 DEF read

\* What extract adds: for an article of a known region the rows of all its blocks, for any
\* other a review row.
LEMMA ExtractedRows ==
  ASSUME NEW out, Ledger(driver, out), NEW url \in DOMAIN Summary, NEW page \in ArticlePage
  PROVE  LET new == Extracted(out, url, page)
         IN /\ Shape(new) /\ new.articles = out.articles /\ new.dropped = out.dropped
            /\ new.blocked = out.blocked /\ out.review \subseteq new.review
            /\ page.mapped => /\ new.observations = out.observations \o RowsRead(driver, url, page)
                              /\ Reviewed(driver, new, url, page)
            /\ ~ page.mapped => /\ new.observations = out.observations
                                /\ Review(<<"article", url>>, "REGION_OFFICE_NOT_MAPPED") \in new.review
<1> DEFINE Row(o) == [url |-> url, row |-> IF driver.kind = "pack" THEN Enriched(o, page) ELSE o]
           Reviews(o) == {Review(<<"observation", url, o.block>>, code) : code \in ObservationReviews(page, o)}
           got == Extract(page, driver.policy)
           rows == [k \in DOMAIN got.observations |-> Row(got.observations[k])]
           about == {Review(<<"article", url>>, code) : code \in got.review}
           each == UNION {Reviews(got.observations[k]) : k \in DOMAIN got.observations}
           o1 == out.observations \o rows
           r1 == out.review \cup about \cup each
           new == Extracted(out, url, page)
           day == InferSurveyDate(page, driver.policy)
<1>1. new = [out EXCEPT !.observations = o1, !.review = r1]
  BY DEF Extracted
<1>2. Shape(out) /\ out.observations \in Seq(ReadRows(driver))
  BY DEF Ledger
<1>3. got = IF page.mapped
            THEN [observations |-> [k \in DOMAIN Blocks(page) |-> ReadOf(driver, page, k)], review |-> day.review]
            ELSE [observations |-> <<>>, review |-> {"REGION_OFFICE_NOT_MAPPED"}]
  BY Zenon DEF Extract, ReadOf, Blocks
<1> HIDE DEF o1, r1, new
<1>4. new = [articles |-> out.articles, observations |-> o1, review |-> r1,
             dropped |-> out.dropped, blocked |-> out.blocked]
  <2> DEFINE mid == [out EXCEPT !.observations = o1]
  <2>1. mid = [articles |-> out.articles, observations |-> o1, review |-> out.review,
               dropped |-> out.dropped, blocked |-> out.blocked]
    BY <1>2, PartReplaced
  <2>2. new = [mid EXCEPT !.review = r1]
    BY <1>1
  <2> HIDE DEF mid
  <2>3. Shape(mid) /\ mid.articles = out.articles /\ mid.observations = o1 /\ mid.dropped = out.dropped
        /\ mid.blocked = out.blocked
    BY <2>1, PartsOf
  <2>4. [mid EXCEPT !.review = r1] =
          [articles |-> mid.articles, observations |-> mid.observations, review |-> r1,
           dropped |-> mid.dropped, blocked |-> mid.blocked]
    BY <2>3, PartReplaced
  <2>5. QED
    BY <2>2, <2>3, <2>4
<1>5. /\ Shape(new) /\ new.articles = out.articles /\ new.observations = o1 /\ new.review = r1
      /\ new.dropped = out.dropped /\ new.blocked = out.blocked
  BY <1>4, PartsOf
<1>6. out.review \subseteq r1 /\ about \subseteq r1 /\ each \subseteq r1
  BY DEF r1
<1> HIDE DEF got
<1>7. CASE page.mapped
  <2>1. got.review = day.review /\ got.observations = [k \in DOMAIN Blocks(page) |-> ReadOf(driver, page, k)]
    BY <1>3, <1>7
  <2>2. DOMAIN got.observations = DOMAIN Blocks(page)
        /\ \A k \in DOMAIN Blocks(page) : got.observations[k] = ReadOf(driver, page, k)
    BY <2>1
  <2>3. \A k \in DOMAIN Blocks(page) : Row(ReadOf(driver, page, k)) = ReadRow(driver, url, page, k)
    BY DEF ReadRow, RowOf
  <2> HIDE DEF Row
  <2>4. rows = RowsRead(driver, url, page)
    BY <2>2, <2>3 DEF RowsRead
  <2>5. o1 = out.observations \o RowsRead(driver, url, page)
    BY <2>4 DEF o1
  <2>6. ASSUME NEW k \in DOMAIN Blocks(page), NEW code \in ObservationReviews(page, ReadOf(driver, page, k))
        PROVE  Review(<<"observation", url, Blocks(page)[k]>>, code) \in new.review
    <3>1. ReadOf(driver, page, k).block = Blocks(page)[k]
      BY RowFields, Zenon
    <3>2. Review(<<"observation", url, Blocks(page)[k]>>, code) \in Reviews(ReadOf(driver, page, k))
      BY <3>1
    <3> HIDE DEF Reviews
    <3>3. Review(<<"observation", url, Blocks(page)[k]>>, code) \in each
      BY <2>2, <3>2
    <3>4. QED
      BY <1>5, <1>6, <3>3
  <2>7. ASSUME NEW code \in day.review
        PROVE  Review(<<"article", url>>, code) \in new.review
    <3>1. Review(<<"article", url>>, code) \in about
      BY <2>1
    <3>2. QED
      BY <1>5, <1>6, <3>1
  <2>8. Reviewed(driver, new, url, page)
    BY <2>6, <2>7 DEF Reviewed
  <2>9. QED
    BY <1>5, <1>6, <1>7, <2>5, <2>8 DEF new
<1>8. CASE ~ page.mapped
  <2>1. got.review = {"REGION_OFFICE_NOT_MAPPED"} /\ got.observations = <<>>
    BY <1>3, <1>8
  <2>2. Review(<<"article", url>>, "REGION_OFFICE_NOT_MAPPED") \in about
    BY <2>1
  <2>3. rows = <<>>
    <3>1. DOMAIN got.observations = {}
      BY <2>1
    <3> HIDE DEF Row
    <3>2. rows = [k \in {} |-> Row(got.observations[k])]
      BY <3>1
    <3>3. rows \in [1 .. 0 -> {}]
      BY <3>1
    <3> HIDE DEF rows
    <3>4. rows \in Seq({}) /\ Len(rows) = 0
      BY <3>3
    <3>5. QED
      BY <3>4
  <2> HIDE DEF rows
  <2>4. o1 = out.observations
    BY <1>2, <2>3 DEF o1
  <2>5. QED
    BY <1>5, <1>6, <1>8, <2>2, <2>4 DEF new
<1>9. QED
  BY <1>7, <1>8

\* What is read out of an article that has been kept settles its url.
LEMMA ReadSettles ==
  ASSUME NEW out, Ledger(driver, out), NEW url, NEW page, Fresh(out, url, page)
  PROVE  LET read == WithArticle(out, url, page)
         IN Handles(driver, out, Extracted(read, url, page), url)
<1> DEFINE read == WithArticle(out, url, page)
           new == Extracted(read, url, page)
<1>1. url \in DOMAIN Summary /\ page \in ArticlePage
  BY DEF Fresh
<1>2. /\ AddedArticle(out, read, url, page) /\ Ledger(driver, read) /\ read.observations = out.observations
      /\ \A a \in DOMAIN read.articles :
           read.articles[a].url = url \/ \E b \in DOMAIN out.articles : read.articles[a].url = out.articles[b].url
  BY ArticleKept
<1> HIDE DEF read
<1>3. /\ Shape(new) /\ new.articles = read.articles /\ new.dropped = read.dropped
      /\ new.blocked = read.blocked /\ read.review \subseteq new.review
      /\ page.mapped => /\ new.observations = read.observations \o RowsRead(driver, url, page)
                        /\ Reviewed(driver, new, url, page)
      /\ ~ page.mapped => /\ new.observations = read.observations
                          /\ Review(<<"article", url>>, "REGION_OFFICE_NOT_MAPPED") \in new.review
  BY <1>1, <1>2, ExtractedRows
<1> HIDE DEF new
<1>4. \A i \in DOMAIN out.observations :
        i \in DOMAIN new.observations /\ new.observations[i] = out.observations[i]
  <2>1. CASE ~ page.mapped
    BY <1>2, <1>3, <2>1
  <2>2. CASE page.mapped
    <3> DEFINE s == out.observations
               R == ReadRows(driver)
               rows == RowsRead(driver, url, page)
    <3>1. s \in Seq(R) /\ rows \in Seq(R) /\ new.observations = s \o rows
      BY <1>1, <1>2, <1>3, <2>2, RowsApart DEF Ledger
    <3> HIDE DEF s, R, rows
    <3>2. \A i \in DOMAIN s : i \in DOMAIN new.observations /\ new.observations[i] = s[i]
      BY <3>1, JoinHolds
    <3>3. QED
      BY <3>2 DEF s
  <2>3. QED
    BY <2>1, <2>2
<1>5. Grown(out, new)
  BY <1>2, <1>3, <1>4 DEF AddedArticle, Grown
<1>6. AddedArticle(out, new, url, page)
  BY <1>2, <1>3, <1>5 DEF AddedArticle
<1>7. Ledger(driver, new) /\ Settled(driver, new, url)
  <2>1. CASE page.mapped
    BY <1>2, <1>3, <1>6, <2>1, WholeArticle
  <2>2. CASE ~ page.mapped
    <3>1. Ledger(driver, new)
      BY <1>2, <1>3, <1>6, <2>2, OnlyArticle
    <3>2. QED
      BY <1>3, <2>2, <3>1 DEF Settled
  <2>3. QED
    BY <2>1, <2>2
<1>8. QED
  BY <1>2, <1>3, <1>5, <1>7 DEF Handles, read, new

\* PollCollector.run settles the url of an article.
LEMMA HandledSettles ==
  ASSUME NEW out, Ledger(driver, out), NEW url, NEW page, Fresh(out, url, page)
  PROVE  Handles(driver, out, Handled(out, url, page), url)
<1> DEFINE read == WithArticle(out, url, page)
           new == Handled(out, url, page)
<1>1. new = IF \E i \in DOMAIN out.articles : out.articles[i].page.signature = page.signature
            THEN WithDropped(out, {Article(url, page)})
            ELSE IF Classify(page) = "NON_POLL" THEN read
            ELSE IF Classify(page) = "POLL_MENTION"
                 THEN WithReview(read, {Review(<<"article", url>>, "LOW_CONFIDENCE")})
            ELSE IF PreExtractGate(page) # "PASS"
                 THEN WithReview(read, {Review(<<"article", url>>, PreExtractGate(page))})
            ELSE Extracted(read, url, page)
  BY DEF Handled, WithReview, WithDropped, WithArticle
<1>2. /\ AddedArticle(out, read, url, page) /\ Ledger(driver, read)
      /\ \A a \in DOMAIN read.articles :
           read.articles[a].url = url \/ \E b \in DOMAIN out.articles : read.articles[a].url = out.articles[b].url
      /\ Holds(read.articles, Article(url, page))
  BY ArticleKept
<1>3. Article(url, page).url = url /\ Article(url, page).page = page
  BY DEF Article
<1>4. Handles(driver, out, Extracted(read, url, page), url)
  BY ReadSettles
<1> HIDE DEF new, read
<1>5. Grown(out, read)
  BY <1>2 DEF AddedArticle
<1>6. ASSUME NEW code PROVE Handles(driver, out, WithReview(read, {Review(<<"article", url>>, code)}), url)
  <2> DEFINE with == WithReview(read, {Review(<<"article", url>>, code)})
  <2>1. Handles(driver, read, with, url)
    BY <1>2, ForReviewOnly
  <2> HIDE DEF with
  <2>2. Grown(out, with)
    BY <1>5, <2>1 DEF Handles, Grown
  <2>3. \A a \in DOMAIN with.articles :
          with.articles[a].url = url \/ \E b \in DOMAIN out.articles : with.articles[a].url = out.articles[b].url
    BY <1>2, <2>1 DEF Handles
  <2>4. QED
    BY <2>1, <2>2, <2>3 DEF Handles, with
<1>7. CASE \E i \in DOMAIN out.articles : out.articles[i].page.signature = page.signature
  <2> DEFINE more == {Article(url, page)}
             with == WithDropped(out, more)
  <2>1. new = with
    BY <1>1, <1>7
  <2>2. Article(url, page) \in more
    OBVIOUS
  <2> HIDE DEF more
  <2>3. /\ Ledger(driver, with) /\ Grown(out, with) /\ with.articles = out.articles
        /\ with.dropped = out.dropped \cup more
    BY Noted
  <2> HIDE DEF with
  <2>4. Settled(driver, with, url)
    BY <1>3, <1>7, <2>2, <2>3 DEF Settled
  <2>5. QED
    BY <2>1, <2>3, <2>4 DEF Handles, new
<1>8. CASE new = read /\ Classify(page) = "NON_POLL"
  <2>1. Settled(driver, read, url)
    BY <1>2, <1>3, <1>8 DEF Settled
  <2>2. QED
    BY <1>2, <1>5, <1>8, <2>1 DEF Handles, new
<1>9. QED
  BY <1>1, <1>4, <1>6, <1>7, <1>8 DEF new

\* One thing after the other for the same url.
LEMMA HandlesTwice ==
  ASSUME NEW d, NEW out, NEW mid, NEW new, NEW url, Handles(d, out, mid, url), Handles(d, mid, new, url)
  PROVE  Handles(d, out, new, url)
<1>1. Grown(out, new)
  BY DEF Handles, Grown
<1>2. ASSUME NEW a \in DOMAIN new.articles
      PROVE  new.articles[a].url = url \/ \E b \in DOMAIN out.articles : new.articles[a].url = out.articles[b].url
  <2>1. CASE new.articles[a].url = url
    BY <2>1
  <2>2. CASE new.articles[a].url # url
    <3>1. PICK c \in DOMAIN mid.articles : new.articles[a].url = mid.articles[c].url
      BY <2>2 DEF Handles
    <3>2. \E b \in DOMAIN out.articles : mid.articles[c].url = out.articles[b].url
      BY <2>2, <3>1 DEF Handles
    <3>3. QED
      BY <3>1, <3>2
  <2>3. QED
    BY <2>1, <2>2
<1>3. QED
  BY <1>1, <1>2 DEF Handles

\* More review rows do no harm.
LEMMA MoreReview ==
  ASSUME NEW d, NEW out, NEW mid, NEW url, Handles(d, out, mid, url), NEW more
  PROVE  Handles(d, out, WithReview(mid, more), url)
<1> DEFINE new == WithReview(mid, more)
<1>1. Ledger(d, mid)
  BY DEF Handles
<1>2. /\ Ledger(d, new) /\ Grown(mid, new) /\ new.articles = mid.articles
  BY <1>1, Noted
<1> HIDE DEF new
<1>3. Settled(d, new, url)
  BY <1>2, GrownKeeps DEF Handles
<1>4. Handles(d, mid, new, url)
  BY <1>2, <1>3 DEF Handles
<1>5. Handles(d, out, new, url)
  BY <1>4, HandlesTwice
<1>6. QED
  BY <1>5 DEF new

\* The pack settles the url of an article.
LEMMA PackedSettles ==
  ASSUME NEW out, Ledger(driver, out), NEW url, NEW page, Fresh(out, url, page), driver.kind = "pack"
  PROVE  Handles(driver, out, Packed(out, url, page), url)
<1> DEFINE read == Extracted(WithArticle(out, url, page), url, page)
           more == {Review(<<"observation", url, o.row.block>>, "LEGAL_COMPLETENESS_BELOW_THRESHOLD") :
                      o \in {p \in {read.observations[i] : i \in DOMAIN read.observations} :
                               p.url = url /\ Incomplete(p.row, page)}}
           late == WithReview(out, {Review(<<"article", url>>, "PUBLISHED_AT_BEFORE_CUTOFF")})
           out2 == {Article(url, page)}
           poor == WithBlocked(out, out2)
           new == Packed(out, url, page)
<1>1. \/ new = late
      \/ new = poor /\ (Classify(page) = "NON_POLL" \/ ~ page.quality)
      \/ new = WithReview(read, more)
  BY DEF Packed, Thresholded, WithArticle, WithReview, WithBlocked
<1>2. Handles(driver, out, read, url)
  BY ReadSettles
<1> HIDE DEF read, more, new
<1>3. Handles(driver, out, WithReview(read, more), url)
  BY <1>2, MoreReview
<1>4. Handles(driver, out, late, url)
  BY ForReviewOnly
<1>5. ASSUME Classify(page) = "NON_POLL" \/ ~ page.quality PROVE Handles(driver, out, poor, url)
  <2>1. Article(url, page) \in out2 /\ Article(url, page).url = url /\ Article(url, page).page = page
    BY DEF Article
  <2> HIDE DEF out2
  <2>2. /\ Ledger(driver, poor) /\ Grown(out, poor) /\ poor.articles = out.articles
        /\ poor.blocked = out.blocked \cup out2
    BY Noted
  <2> HIDE DEF poor
  <2>3. Settled(driver, poor, url)
    <3>1. Article(url, page) \in poor.blocked
      BY <2>1, <2>2
    <3>2. QED
      BY <1>5, <2>1, <3>1 DEF Settled
  <2>4. QED
    BY <2>2, <2>3 DEF Handles
<1>6. QED
  BY <1>1, <1>3, <1>4, <1>5 DEF new

\* A page or a summary, fetched or not: the url of the candidate is settled.
LEMMA FetchSettles ==
  ASSUME Ledger(driver, output), NEW c \in FoundLink,
         \A a \in DOMAIN output.articles : output.articles[a].url # c.url,
         \/ /\ driver.kind = "pack" => ~ c.google
            /\ \E page \in Pages[c.url] :
                 output' = IF driver.kind = "run" THEN Handled(output, c.url, page)
                           ELSE Packed(output, c.url, page)
         \/ output' = IF driver.kind = "run" THEN FetchFailed(output, c)
                      ELSE Packed(FetchFailed(output, c), c.url, Summary[c.url]),
         driver.kind \in {"run", "pack"}
  PROVE  Handles(driver, output, output', c.url)
<1> DEFINE url == c.url
           failed == FetchFailed(output, c)
<1>1. url \in DOMAIN Summary
  BY DEF FoundLink
<1>2. Summary[url] \in ArticlePage /\ \A page \in Pages[url] : page \in ArticlePage
  BY <1>1, CollectorAssumption
<1>3. failed = WithReview(output, {Review(<<"article", url>>, "fetch_error")})
  BY DEF FetchFailed, WithReview
<1>4. Handles(driver, output, failed, url) /\ failed.articles = output.articles
  <2> DEFINE more == {Review(<<"article", url>>, "fetch_error")}
  <2>1. Handles(driver, output, failed, url)
    BY <1>3, ForReviewOnly
  <2> HIDE DEF failed, more
  <2>2. WithReview(output, more).articles = output.articles
    BY Noted
  <2>3. failed = WithReview(output, more)
    BY <1>3 DEF more
  <2>4. QED
    BY <2>1, <2>2, <2>3
<1> HIDE DEF failed
<1>5. ASSUME NEW page \in ArticlePage PROVE Fresh(output, url, page) /\ Fresh(failed, url, page)
  BY <1>1, <1>4 DEF Fresh
<1> HIDE DEF url
<1>6. ASSUME NEW page \in ArticlePage PROVE Handles(driver, output, Handled(output, url, page), url)
  BY <1>5, HandledSettles
<1>7. ASSUME NEW page \in ArticlePage, driver.kind = "pack"
      PROVE  /\ Handles(driver, output, Packed(output, url, page), url)
             /\ Handles(driver, output, Packed(failed, url, page), url)
  <2>1. Handles(driver, output, Packed(output, url, page), url)
    BY <1>5, <1>7, PackedSettles
  <2>2. Ledger(driver, failed)
    BY <1>4 DEF Handles
  <2>3. Handles(driver, failed, Packed(failed, url, page), url)
    BY <1>5, <1>7, <2>2, PackedSettles
  <2>4. QED
    BY <1>4, <2>1, <2>3, HandlesTwice
<1>8. \/ \E page \in ArticlePage :
           output' = IF driver.kind = "run" THEN Handled(output, url, page) ELSE Packed(output, url, page)
      \/ output' = IF driver.kind = "run" THEN failed ELSE Packed(failed, url, Summary[url])
  BY <1>2 DEF url, failed
<1>9. Handles(driver, output, output', url)
  <2>1. CASE driver.kind = "run"
    BY <1>4, <1>6, <1>8, <2>1
  <2>2. CASE driver.kind = "pack"
    BY <1>2, <1>7, <1>8, <2>2
  <2>3. QED
    BY <2>1, <2>2
<1>10. QED
  BY <1>9 DEF url

-----------------------------------------------------------------------------
(* What the discovery sets out to fetch.                                   *)

\* Candidates of different urls.
Unlike == {s \in Seq(FoundLink) : \A i, j \in DOMAIN s : i # j => s[i].url # s[j].url}

DedupStep(kept, c) ==
  IF \E i \in DOMAIN kept : \/ kept[i].url = c.url
                            \/ kept[i].title = c.title /\ kept[i].day = c.day
  THEN kept ELSE Append(kept, c)

GatherStep(g, s, enough) ==
  IF Len(g.raw) >= enough THEN g
  ELSE [raw |-> g.raw \o Scored(s), asked |-> Append(g.asked, s)]

GatherState == [raw : Seq(FoundLink), asked : Seq(FoundSource)]

\* Of the candidates of one url the first is kept.
LEMMA ByUrlUnlike ==
  ASSUME NEW s \in Seq(FoundLink)
  PROVE  ByUrl(s) \in Unlike
<1> DEFINE I == {i \in DOMAIN s : \A j \in 1 .. i - 1 : s[j].url # s[i].url}
           r == Kept(s, I)
<1>1. r \in Seq(FoundLink) /\ \E pos : InOrder(s, I, r, pos)
  BY KeptInOrder
<1>2. ByUrl(s) = r
  BY DEF ByUrl
<1>3. DOMAIN s = 1 .. Len(s) /\ Len(s) \in Nat
  OBVIOUS
<1> HIDE DEF r
<1>4. DOMAIN r = 1 .. Len(r) /\ Len(r) \in Nat
  BY <1>1
<1>5. PICK pos : InOrder(s, I, r, pos)
  BY <1>1
<1>6. ASSUME NEW k \in DOMAIN r, NEW l \in DOMAIN r, k < l PROVE r[k].url # r[l].url
  <2>1. /\ pos[k] \in I /\ pos[l] \in I /\ pos[k] < pos[l] /\ r[k] = s[pos[k]] /\ r[l] = s[pos[l]]
    BY <1>5, <1>6 DEF InOrder
  <2>2. pos[k] \in 1 .. pos[l] - 1
    BY <1>3, <2>1
  <2>3. QED
    BY <2>1, <2>2
<1>7. ASSUME NEW k \in DOMAIN r, NEW l \in DOMAIN r, k # l PROVE r[k].url # r[l].url
  <2>1. k < l \/ l < k
    BY <1>4, <1>7
  <2>2. QED
    BY <1>6, <2>1
<1>8. QED
  BY <1>1, <1>2, <1>7 DEF Unlike

\* A part from the beginning of such candidates is one, too.
LEMMA FirstOfUnlike ==
  ASSUME NEW s \in Unlike, NEW m \in 0 .. Len(s)
  PROVE  SubSeq(s, 1, m) \in Unlike
<1> DEFINE F == FoundLink
           r == SubSeq(s, 1, m)
<1>1. s \in Seq(F) /\ \A i, j \in DOMAIN s : i # j => s[i].url # s[j].url
  BY DEF Unlike
<1> HIDE DEF F
<1>2. /\ r \in Seq(F) /\ DOMAIN r = 1 .. m /\ DOMAIN s = 1 .. Len(s) /\ Len(s) \in Nat /\ m \in Nat /\ m <= Len(s)
      /\ \A i \in 1 .. m : r[i] = s[i]
  BY <1>1
<1> HIDE DEF r
<1>3. \A i, j \in DOMAIN r : i # j => r[i].url # r[j].url
  <2> TAKE i, j \in DOMAIN r
  <2>1. i \in DOMAIN s /\ j \in DOMAIN s /\ r[i] = s[i] /\ r[j] = s[j]
    BY <1>2
  <2>2. QED
    BY <1>1, <2>1
<1>4. r \in Unlike
  BY <1>2, <1>3 DEF Unlike, F
<1>5. QED
  BY <1>4 DEF r

LEMMA ItemsTyped ==
  ASSUME NEW source \in FoundSource
  PROVE  Items(source) \in Seq(FoundLink) /\ Scored(source) \in Seq(FoundLink)
<1> DEFINE items == Items(source)
           I == {i \in DOMAIN items : items[i].score > 0}
           s == Kept(items, I)
           m == IF Len(s) < FeedLimit THEN Len(s) ELSE FeedLimit
           F == FoundLink
<1>1. items \in Seq(F)
  <2>1. source.items \in Seq(F)
    BY DEF FoundSource
  <2>2. <<>> \in Seq(F)
    OBVIOUS
  <2>3. QED
    BY <2>1, <2>2 DEF Items
<1>2. Scored(source) = SubSeq(s, 1, m)
  BY DEF Scored
<1> HIDE DEF items, F
<1>3. s \in Seq(F)
  BY <1>1, KeptHolds
<1> HIDE DEF s
<1>4. m \in 0 .. Len(s)
  BY <1>3, CollectorAssumption
<1> HIDE DEF m
<1>5. SubSeq(s, 1, m) \in Seq(F)
  BY <1>3, <1>4
<1>6. QED
  BY <1>1, <1>2, <1>5 DEF items, F

LEMMA StepsUnlike ==
  /\ \A kept \in Unlike, c \in FoundLink : DedupStep(kept, c) \in Unlike
  /\ \A enough : \A g \in GatherState, s \in FoundSource : GatherStep(g, s, enough) \in GatherState
<1>1. ASSUME NEW kept \in Unlike, NEW c \in FoundLink PROVE DedupStep(kept, c) \in Unlike
  <2> DEFINE F == FoundLink
             t == Append(kept, c)
             n == Len(kept) + 1
  <2>1. kept \in Seq(F) /\ c \in F /\ \A i, j \in DOMAIN kept : i # j => kept[i].url # kept[j].url
    BY DEF Unlike
  <2> HIDE DEF F
  <2>2. /\ t \in Seq(F) /\ DOMAIN t = DOMAIN kept \cup {n} /\ t[n] = c
        /\ \A i \in DOMAIN kept : t[i] = kept[i]
    BY <2>1
  <2> HIDE DEF t, n
  <2>3. (\A i \in DOMAIN kept : kept[i].url # c.url) => \A i, j \in DOMAIN t : i # j => t[i].url # t[j].url
    BY <2>1, <2>2
  <2>4. (\A i \in DOMAIN kept : kept[i].url # c.url) => t \in Unlike
    BY <2>2, <2>3 DEF Unlike, F
  <2>5. DedupStep(kept, c) = kept \/ (DedupStep(kept, c) = t /\ \A i \in DOMAIN kept : kept[i].url # c.url)
    BY DEF DedupStep, t
  <2>6. QED
    BY <2>4, <2>5
<1>2. ASSUME NEW g \in GatherState, NEW s \in FoundSource, NEW enough
      PROVE  GatherStep(g, s, enough) \in GatherState
  <2> DEFINE F == FoundLink
             H == FoundSource
             raw == g.raw
             asked == g.asked
             more == Scored(s)
  <2>1. raw \in Seq(F) /\ asked \in Seq(H) /\ more \in Seq(F) /\ s \in H
    BY ItemsTyped DEF GatherState
  <2>2. GatherStep(g, s, enough) = g \/ GatherStep(g, s, enough) = [raw |-> raw \o more, asked |-> Append(asked, s)]
    BY DEF GatherStep
  <2> HIDE DEF F, H, raw, asked, more
  <2>3. raw \o more \in Seq(F) /\ Append(asked, s) \in Seq(H)
    BY <2>1
  <2>4. [raw |-> raw \o more, asked |-> Append(asked, s)] \in [raw : Seq(F), asked : Seq(H)]
    BY <2>3
  <2>5. QED
    BY <2>2, <2>4 DEF GatherState, F, H
<1>3. QED
  BY <1>1, <1>2

\* What is kept of the candidates grows from one to the next.
LEMMA DedupRuns ==
  ASSUME NEW links \in Seq(FoundLink), <<>> \in Unlike,
         \A a \in Unlike, b \in FoundLink : DedupStep(a, b) \in Unlike
  PROVE  \E run \in [0 .. Len(links) -> Unlike] :
           /\ run[0] = <<>>
           /\ \A k \in 0 .. Len(links) - 1 : run[k + 1] = DedupStep(run[k], links[k + 1])
           /\ Dedup(links) = run[Len(links)]
<1> DEFINE S == Unlike
           T == FoundLink
           seq == links
           step == [p \in S \X T |-> DedupStep(p[1], p[2])]
           Rec(f) == [s \in SUBSET DOMAIN seq |->
                        IF s = {} THEN <<>> ELSE DedupStep(f[s \ {Max(s)}], seq[Max(s)])]
           iter == CHOOSE f : f = Rec(f)
<1>1. Dedup(links) = iter[DOMAIN seq]
  BY Zenon DEF FoldLeft, MapThenFoldSet, Dedup, DedupStep
<1>2. Foldable(S, T, <<>>, step, seq)
  <2>1. \A a \in S, b \in T : DedupStep(a, b) \in S
    OBVIOUS
  <2>2. <<>> \in S /\ seq \in Seq(T)
    OBVIOUS
  <2> HIDE DEF S, T, seq
  <2>3. step \in [S \X T -> S]
    BY <2>1
  <2> HIDE DEF step
  <2>4. QED
    BY <2>2, <2>3 DEF Foldable
<1>3. \A a \in S, b \in T : step[<<a, b>>] = DedupStep(a, b)
  <2> HIDE DEF S, T
  <2>1. QED
    OBVIOUS
<1>4. \A s \in SUBSET DOMAIN seq :
        s # {} => s \ {Max(s)} \in SUBSET DOMAIN seq /\ seq[Max(s)] \in T
  <2>1. seq \in Seq(T)
    OBVIOUS
  <2> HIDE DEF seq, T
  <2>2. QED
    BY <2>1, LastIndex
<1> HIDE DEF S, T, seq, step
<1>5. PICK h : h \in [SUBSET DOMAIN seq -> S] /\ FoldsSets(h, <<>>, step, seq)
  BY <1>2, FoldExists
<1>6. h = Rec(h)
  <2>1. \A s \in SUBSET DOMAIN seq :
          h[s] = IF s = {} THEN <<>> ELSE DedupStep(h[s \ {Max(s)}], seq[Max(s)])
    BY <1>3, <1>4, <1>5 DEF FoldsSets
  <2>2. h = [s \in SUBSET DOMAIN seq |-> h[s]]
    BY <1>5
  <2>3. QED
    BY <2>1, <2>2
<1>7. iter = Rec(iter)
  <2> HIDE DEF Rec
  <2>1. QED
    BY <1>6
<1> HIDE DEF iter
<1>8. FoldsWithin(iter, S, <<>>, step, seq)
  <2>1. Rec(iter)[{}] = <<>>
    OBVIOUS
  <2>2. ASSUME NEW s \in SUBSET DOMAIN seq, s # {}, iter[s \ {Max(s)}] \in S
        PROVE  Rec(iter)[s] = step[<<iter[s \ {Max(s)}], seq[Max(s)]>>]
    <3>1. Rec(iter)[s] = DedupStep(iter[s \ {Max(s)}], seq[Max(s)])
      BY <2>2
    <3> HIDE DEF Rec
    <3>2. QED
      BY <1>3, <1>4, <2>2, <3>1
  <2> HIDE DEF Rec
  <2>3. QED
    BY <1>7, <2>1, <2>2 DEF FoldsWithin
<1> HIDE DEF Rec
<1>9. PICK run : RunsThrough(run, S, <<>>, step, seq) /\ run[Len(seq)] = iter[DOMAIN seq]
  BY <1>2, <1>8, FoldRuns
<1>10. run \in [0 .. Len(seq) -> S] /\ run[0] = <<>>
       /\ \A k \in 0 .. Len(seq) - 1 : run[k + 1] = DedupStep(run[k], seq[k + 1])
  <2>1. ASSUME NEW k \in 0 .. Len(seq) - 1 PROVE run[k] \in S /\ seq[k + 1] \in T
    <3>1. seq \in Seq(T) /\ run \in [0 .. Len(seq) -> S]
      BY <1>2, <1>9 DEF Foldable, RunsThrough
    <3>2. Len(seq) \in Nat /\ DOMAIN seq = 1 .. Len(seq) /\ \A i \in DOMAIN seq : seq[i] \in T
      BY <3>1
    <3>3. k \in 0 .. Len(seq) /\ k + 1 \in DOMAIN seq
      BY <3>2
    <3>4. QED
      BY <3>1, <3>2, <3>3
  <2>2. QED
    BY <1>3, <1>9, <2>1 DEF RunsThrough
<1>11. QED
  BY <1>1, <1>9, <1>10 DEF S, T, seq

\* One source is asked after the other.
LEMMA GatherRuns ==
  ASSUME NEW got \in GatherState, NEW sources \in Seq(FoundSource), NEW enough,
         \A a \in GatherState, b \in FoundSource : GatherStep(a, b, enough) \in GatherState
  PROVE  \E run \in [0 .. Len(sources) -> GatherState] :
           /\ run[0] = got
           /\ \A k \in 0 .. Len(sources) - 1 : run[k + 1] = GatherStep(run[k], sources[k + 1], enough)
           /\ Gather(got, sources, enough) = run[Len(sources)]
<1> DEFINE S == GatherState
           T == FoundSource
           seq == sources
           step == [p \in S \X T |-> GatherStep(p[1], p[2], enough)]
           Rec(f) == [s \in SUBSET DOMAIN seq |->
                        IF s = {} THEN got ELSE GatherStep(f[s \ {Max(s)}], seq[Max(s)], enough)]
           iter == CHOOSE f : f = Rec(f)
<1>1. Gather(got, sources, enough) = iter[DOMAIN seq]
  BY Zenon DEF FoldLeft, MapThenFoldSet, Gather, GatherStep
<1>2. Foldable(S, T, got, step, seq)
  <2>1. \A a \in S, b \in T : GatherStep(a, b, enough) \in S
    OBVIOUS
  <2>2. got \in S /\ seq \in Seq(T)
    OBVIOUS
  <2> HIDE DEF S, T, seq
  <2>3. step \in [S \X T -> S]
    BY <2>1
  <2> HIDE DEF step
  <2>4. QED
    BY <2>2, <2>3 DEF Foldable
<1>3. \A a \in S, b \in T : step[<<a, b>>] = GatherStep(a, b, enough)
  <2> HIDE DEF S, T
  <2>1. QED
    OBVIOUS
<1>4. \A s \in SUBSET DOMAIN seq :
        s # {} => s \ {Max(s)} \in SUBSET DOMAIN seq /\ seq[Max(s)] \in T
  <2>1. seq \in Seq(T)
    OBVIOUS
  <2> HIDE DEF seq, T
  <2>2. QED
    BY <2>1, LastIndex
<1> HIDE DEF S, T, seq, step
<1>5. PICK h : h \in [SUBSET DOMAIN seq -> S] /\ FoldsSets(h, got, step, seq)
  BY <1>2, FoldExists
<1>6. h = Rec(h)
  <2>1. \A s \in SUBSET DOMAIN seq :
          h[s] = IF s = {} THEN got ELSE GatherStep(h[s \ {Max(s)}], seq[Max(s)], enough)
    BY <1>3, <1>4, <1>5 DEF FoldsSets
  <2>2. h = [s \in SUBSET DOMAIN seq |-> h[s]]
    BY <1>5
  <2>3. QED
    BY <2>1, <2>2
<1>7. iter = Rec(iter)
  <2> HIDE DEF Rec
  <2>1. QED
    BY <1>6
<1> HIDE DEF iter
<1>8. FoldsWithin(iter, S, got, step, seq)
  <2>1. Rec(iter)[{}] = got
    OBVIOUS
  <2>2. ASSUME NEW s \in SUBSET DOMAIN seq, s # {}, iter[s \ {Max(s)}] \in S
        PROVE  Rec(iter)[s] = step[<<iter[s \ {Max(s)}], seq[Max(s)]>>]
    <3>1. Rec(iter)[s] = GatherStep(iter[s \ {Max(s)}], seq[Max(s)], enough)
      BY <2>2
    <3> HIDE DEF Rec
    <3>2. QED
      BY <1>3, <1>4, <2>2, <3>1
  <2> HIDE DEF Rec
  <2>3. QED
    BY <1>7, <2>1, <2>2 DEF FoldsWithin
<1> HIDE DEF Rec
<1>9. PICK run : RunsThrough(run, S, got, step, seq) /\ run[Len(seq)] = iter[DOMAIN seq]
  BY <1>2, <1>8, FoldRuns
<1>10. run \in [0 .. Len(seq) -> S] /\ run[0] = got
       /\ \A k \in 0 .. Len(seq) - 1 : run[k + 1] = GatherStep(run[k], seq[k + 1], enough)
  <2>1. ASSUME NEW k \in 0 .. Len(seq) - 1 PROVE run[k] \in S /\ seq[k + 1] \in T
    <3>1. seq \in Seq(T) /\ run \in [0 .. Len(seq) -> S]
      BY <1>2, <1>9 DEF Foldable, RunsThrough
    <3>2. Len(seq) \in Nat /\ DOMAIN seq = 1 .. Len(seq) /\ \A i \in DOMAIN seq : seq[i] \in T
      BY <3>1
    <3>3. k \in 0 .. Len(seq) /\ k + 1 \in DOMAIN seq
      BY <3>2
    <3>4. QED
      BY <3>1, <3>2, <3>3
  <2>2. QED
    BY <1>3, <1>9, <2>1 DEF RunsThrough
<1>11. QED
  BY <1>1, <1>9, <1>10 DEF S, T, seq

LEMMA DedupUnlike ==
  ASSUME NEW s \in Seq(FoundLink)
  PROVE  Dedup(s) \in Unlike
<1>1. <<>> \in Unlike
  <2>1. <<>> \in Seq(FoundLink) /\ DOMAIN <<>> = {}
    OBVIOUS
  <2>2. QED
    BY <2>1 DEF Unlike
<1>2. PICK run \in [0 .. Len(s) -> Unlike] : Dedup(s) = run[Len(s)]
  BY <1>1, StepsUnlike, DedupRuns
<1>3. Len(s) \in 0 .. Len(s)
  OBVIOUS
<1>4. QED
  BY <1>2, <1>3

LEMMA GatheredTyped ==
  ASSUME NEW f \in Findings
  PROVE  Gathered(f).raw \in Seq(FoundLink)
<1> DEFINE none == [raw |-> <<>>, asked |-> <<>>]
           feeds == Gather(none, f.feeds, 2 * Target)
           all == Gather(feeds, f.queries, 3 * Target)
<1>1. f.feeds \in Seq(FoundSource) /\ f.queries \in Seq(FoundSource)
  BY CollectorAssumption
<1>2. ASSUME NEW got \in GatherState, NEW sources \in Seq(FoundSource), NEW enough
      PROVE  Gather(got, sources, enough) \in GatherState
  <2>1. PICK run \in [0 .. Len(sources) -> GatherState] : Gather(got, sources, enough) = run[Len(sources)]
    BY StepsUnlike, GatherRuns
  <2>2. Len(sources) \in 0 .. Len(sources)
    OBVIOUS
  <2>3. QED
    BY <2>1, <2>2
<1>3. none \in GatherState
  <2>1. <<>> \in Seq(FoundLink) /\ <<>> \in Seq(FoundSource)
    OBVIOUS
  <2>2. QED
    BY <2>1 DEF GatherState
<1> HIDE DEF none
<1>4. feeds \in GatherState
  BY <1>1, <1>2, <1>3
<1>5. Gathered(f) = feeds \/ Gathered(f) = all
  BY DEF Gathered, none
<1> HIDE DEF feeds
<1>6. all \in GatherState
  BY <1>1, <1>2, <1>4
<1> HIDE DEF all
<1>7. \A g \in GatherState : g.raw \in Seq(FoundLink)
  BY DEF GatherState
<1>8. QED
  BY <1>4, <1>5, <1>6, <1>7

\* An order of the numbers up to n, and how many come before each.
StrictOrder(before, n) ==
  /\ before \in [(1 .. n) \X (1 .. n) -> BOOLEAN]
  /\ \A i \in 1 .. n : ~ before[<<i, i>>]
  /\ \A i, j \in 1 .. n : i # j => before[<<i, j>>] \/ before[<<j, i>>]
  /\ \A i, j, k \in 1 .. n : before[<<i, j>>] /\ before[<<j, k>>] => before[<<i, k>>]

RanksOf(rank, before, n) ==
  rank = [i \in 1 .. n |-> Cardinality({j \in 1 .. n : before[<<j, i>>]}) + 1]

\* An order of n things gives each of them a rank of its own, and each rank to one.
LEMMA RanksAll ==
  ASSUME NEW n \in Nat, NEW before, StrictOrder(before, n), NEW rank, RanksOf(rank, before, n)
  PROVE  /\ rank \in [1 .. n -> 1 .. n]
         /\ \A k \in 1 .. n : \E i \in 1 .. n : rank[i] = k
<1> DEFINE N == 1 .. n
           less(i) == {j \in N : before[<<j, i>>]}
           g == [i \in N |-> Cardinality(less(i)) + 1]
<1>0. rank = g
  BY DEF RanksOf
<1>1. IsFiniteSet(N) /\ Cardinality(N) = n
  BY FS_Interval
<1>2. ASSUME NEW i \in N
      PROVE  IsFiniteSet(less(i)) /\ Cardinality(less(i)) \in 0 .. n - 1 /\ less(i) \subseteq N
  <2>1. less(i) \in SUBSET (N \ {i})
    BY DEF StrictOrder
  <2>2. IsFiniteSet(N \ {i}) /\ Cardinality(N \ {i}) = n - 1
    <3> HIDE DEF N
    <3>1. QED
      BY <1>1, <1>2, FS_RemoveElement
  <2> HIDE DEF less, N
  <2>3. IsFiniteSet(less(i)) /\ Cardinality(less(i)) <= n - 1
    BY <2>1, <2>2, FS_Subset
  <2>4. Cardinality(less(i)) \in Nat
    BY <2>3, FS_CardinalityType
  <2>5. QED
    BY <2>1, <2>3, <2>4
<1>3. ASSUME NEW i \in N, NEW j \in N, before[<<i, j>>]
      PROVE  Cardinality(less(i)) < Cardinality(less(j))
  <2>1. less(i) \in SUBSET less(j) /\ i \in less(j) /\ i \notin less(i)
    BY <1>3 DEF StrictOrder
  <2> HIDE DEF less, N
  <2>2. Cardinality(less(i)) <= Cardinality(less(j)) /\ (Cardinality(less(j)) = Cardinality(less(i)) => less(j) = less(i))
    BY <1>2, <2>1, FS_Subset
  <2>3. Cardinality(less(i)) \in Nat /\ Cardinality(less(j)) \in Nat
    BY <1>2
  <2>4. QED
    BY <2>1, <2>2, <2>3
<1>4. rank \in [N -> N]
  <2> HIDE DEF less
  <2>1. \A i \in N : Cardinality(less(i)) + 1 \in N
    BY <1>2
  <2> HIDE DEF N
  <2>2. g \in [N -> N]
    BY <2>1
  <2>3. QED
    BY <1>0, <2>2
<1>5. ASSUME NEW i \in N, NEW j \in N, i # j PROVE rank[i] # rank[j]
  <2>1. before[<<i, j>>] \/ before[<<j, i>>]
    BY <1>5 DEF StrictOrder
  <2> HIDE DEF less
  <2>2. Cardinality(less(i)) # Cardinality(less(j))
    BY <1>2, <1>3, <2>1
  <2>3. Cardinality(less(i)) \in Int /\ Cardinality(less(j)) \in Int
    BY <1>2
  <2>4. QED
    BY <1>0, <2>2, <2>3
<1> HIDE DEF N
<1>6. rank \in Injection(N, N)
  BY <1>4, <1>5 DEF Injection, IsInjective
<1>7. rank \in Surjection(N, N)
  BY <1>1, <1>6, FS_Injection
<1>8. \A k \in N : \E i \in N : rank[i] = k
  BY <1>7 DEF Surjection
<1>9. QED
  BY <1>4, <1>8 DEF N

\* The candidates are as many and as different, in the order of their scores.
LEMMA CandidatesUnlike ==
  ASSUME NEW f \in Findings
  PROVE  DiscoverCandidates(f) \in Unlike
<1> DEFINE d == Dedup(Gathered(f).raw)
           n == Len(d)
           Before(i, j) == \/ d[i].score > d[j].score
                           \/ d[i].score = d[j].score /\ i < j
           Rank(i) == Cardinality({j \in DOMAIN d : Before(j, i)}) + 1
           at(k) == CHOOSE i \in DOMAIN d : Rank(i) = k
           sorted == [k \in DOMAIN d |-> d[at(k)]]
           F == FoundLink
           m == IF Len(sorted) < Target THEN Len(sorted) ELSE Target
           before == [p \in (1 .. n) \X (1 .. n) |-> Before(p[1], p[2])]
           rank == [i \in 1 .. n |-> Cardinality({j \in 1 .. n : before[<<j, i>>]}) + 1]
<1>1. d \in Unlike
  BY DedupUnlike, GatheredTyped
<1>2. DiscoverCandidates(f) = SubSeq(sorted, 1, m)
  BY DEF DiscoverCandidates
<1> HIDE DEF d
<1>3. d \in Seq(F) /\ \A i, j \in DOMAIN d : i # j => d[i].url # d[j].url
  BY <1>1 DEF Unlike
<1>4. \A x \in F : x.score \in Int
  BY DEF FoundLink
<1> HIDE DEF F
<1>5. n \in Nat /\ DOMAIN d = 1 .. n /\ \A i \in 1 .. n : d[i] \in F /\ d[i].score \in Int
  BY <1>3, <1>4
<1> HIDE DEF n
<1>6. \A i, j \in 1 .. n : before[<<i, j>>] = Before(i, j) /\ Before(i, j) \in BOOLEAN
  OBVIOUS
<1>7. before \in [(1 .. n) \X (1 .. n) -> BOOLEAN]
  OBVIOUS
<1>8. /\ \A i \in 1 .. n : ~ Before(i, i)
      /\ \A i, j \in 1 .. n : i # j => Before(i, j) \/ Before(j, i)
      /\ \A i, j, k \in 1 .. n : Before(i, j) /\ Before(j, k) => Before(i, k)
  BY <1>5
<1> HIDE DEF Before
<1>9. /\ \A i \in 1 .. n : ~ before[<<i, i>>]
      /\ \A i, j \in 1 .. n : i # j => before[<<i, j>>] \/ before[<<j, i>>]
      /\ \A i, j, k \in 1 .. n : before[<<i, j>>] /\ before[<<j, k>>] => before[<<i, k>>]
  <2> HIDE DEF Before, before
  <2>1. QED
    BY <1>6, <1>8
<1>10. StrictOrder(before, n)
  <2> HIDE DEF before
  <2>1. QED
    BY <1>7, <1>9 DEF StrictOrder
<1>11. \A i \in 1 .. n : rank[i] = Rank(i)
  <2> TAKE i \in 1 .. n
  <2>1. {j \in 1 .. n : before[<<j, i>>]} = {j \in DOMAIN d : Before(j, i)}
    BY <1>5, <1>6
  <2>2. QED
    BY <2>1
<1> HIDE DEF before
<1>12. RanksOf(rank, before, n)
  BY DEF RanksOf
<1> HIDE DEF rank
<1>13. \A k \in 1 .. n : \E i \in 1 .. n : rank[i] = k
  BY <1>5, <1>10, <1>12, RanksAll
<1>14. \A k \in DOMAIN d : \E i \in DOMAIN d : Rank(i) = k
  <2> HIDE DEF Rank
  <2>1. QED
    BY <1>5, <1>11, <1>13
<1> HIDE DEF Rank
<1>15. \A k \in DOMAIN d : at(k) \in DOMAIN d /\ Rank(at(k)) = k
  BY <1>14
<1> HIDE DEF at
<1>16. sorted \in [1 .. n -> F] /\ \A k \in DOMAIN d : sorted[k] = d[at(k)]
  BY <1>5, <1>15
<1> HIDE DEF sorted
<1>17. sorted \in Seq(F) /\ DOMAIN sorted = 1 .. n /\ Len(sorted) = n
  BY <1>5, <1>16
<1>18. \A k, l \in DOMAIN sorted : k # l => sorted[k].url # sorted[l].url
  <2> TAKE k, l \in DOMAIN sorted
  <2> SUFFICES ASSUME k # l PROVE sorted[k].url # sorted[l].url
    OBVIOUS
  <2>1. at(k) \in DOMAIN d /\ at(l) \in DOMAIN d /\ at(k) # at(l)
    BY <1>5, <1>15, <1>17
  <2>2. sorted[k] = d[at(k)] /\ sorted[l] = d[at(l)]
    BY <1>5, <1>16, <1>17
  <2>3. QED
    BY <1>3, <2>1, <2>2
<1>19. sorted \in Unlike
  BY <1>17, <1>18 DEF Unlike, F
<1>20. m \in 0 .. Len(sorted)
  BY <1>5, <1>17, CollectorAssumption
<1> HIDE DEF m
<1>21. QED
  BY <1>2, <1>19, <1>20, FirstOfUnlike

LEMMA UrlsUnlike ==
  ASSUME NEW f \in Findings
  PROVE  DiscoverUrls(f) \in Unlike
<1> DEFINE F == FoundLink
           S == Seq(F)
           lists == [i \in DOMAIN f.feeds |-> Items(f.feeds[i])]
           all == FlattenSeq(lists)
           seeds == f.seeds
<1>1. f.feeds \in Seq(FoundSource) /\ seeds \in Seq(F)
  BY CollectorAssumption
<1>2. DOMAIN f.feeds = 1 .. Len(f.feeds) /\ Len(f.feeds) \in Nat /\ \A i \in DOMAIN f.feeds : f.feeds[i] \in FoundSource
  BY <1>1
<1>3. \A i \in DOMAIN f.feeds : Items(f.feeds[i]) \in S
  BY <1>2, ItemsTyped
<1> HIDE DEF S
<1>4. lists \in [1 .. Len(f.feeds) -> S]
  BY <1>2, <1>3
<1> HIDE DEF lists
<1>5. lists \in Seq(S)
  BY <1>2, <1>4
<1>6. all \in Seq(F)
  BY <1>5, Flattened DEF S
<1>7. DiscoverUrls(f) = ByUrl(seeds \o all)
  BY DEF DiscoverUrls, lists
<1> HIDE DEF all, seeds, F
<1>8. seeds \o all \in Seq(F)
  BY <1>1, <1>6
<1>9. QED
  BY <1>7, <1>8, ByUrlUnlike DEF F

-----------------------------------------------------------------------------
(* The inductive invariant of the collector.                               *)

\* What is still to be fetched is new to the ledger.
StillNew(s, out) == \A i \in DOMAIN s : \A a \in DOMAIN out.articles : s[i].url # out.articles[a].url

Awaited(url) == \E i \in DOMAIN todo : todo[i].url = url

CollectorInv ==
  /\ phase \in {"discover", "fetch", "done"} /\ driver.kind \in {"run", "pack"}
  /\ phase # "fetch" => todo = <<>>
  /\ phase = "discover" => output = NoOutput /\ chosen = {}
  /\ todo \in Unlike /\ StillNew(todo, output)
  /\ Ledger(driver, output)
  /\ \A u \in chosen : Settled(driver, output, u) \/ Awaited(u)

\* An empty output is in order.
LEMMA NothingRead == \A d : Ledger(d, NoOutput) /\ NoOutput.articles = <<>>
<1>1. /\ Shape(NoOutput) /\ NoOutput.articles = <<>> /\ NoOutput.observations = <<>>
  BY PartsOf DEF NoOutput
<1>2. QED
  BY <1>1 DEF Ledger

LEMMA EmptyUnlike == <<>> \in Unlike
BY DEF Unlike

LEMMA CollectorStarts == CollectorInit => CollectorInv
<1> SUFFICES ASSUME CollectorInit PROVE CollectorInv
  OBVIOUS
<1>1. /\ phase = "discover" /\ todo = <<>> /\ chosen = {} /\ output = NoOutput
      /\ driver.kind \in {"run", "pack"}
  BY DEF CollectorInit
<1>2. Ledger(driver, output) /\ StillNew(todo, output)
  BY <1>1, NothingRead DEF StillNew
<1>3. QED
  BY <1>1, <1>2, EmptyUnlike DEF CollectorInv

LEMMA DiscoverKeeps ==
  ASSUME CollectorInv, NEW f \in Findings, Discover(f)
  PROVE  CollectorInv'
<1> DEFINE more == SourceErrors(IF driver.kind = "run" THEN f.feeds ELSE Gathered(f).asked)
<1>1. /\ output = NoOutput /\ Ledger(driver, output) /\ driver.kind \in {"run", "pack"}
  BY DEF CollectorInv, Discover
<1>2. /\ phase' = "fetch" /\ driver' = driver
      /\ chosen' = {todo'[i].url : i \in DOMAIN todo'}
      /\ output' = [output EXCEPT !.review = more]
      /\ todo' = IF driver.kind = "run" THEN DiscoverUrls(f) ELSE DiscoverCandidates(f)
  BY DEF Discover
<1>3. todo' \in Unlike
  BY <1>2, CandidatesUnlike, UrlsUnlike
<1> HIDE DEF more
<1>4. output' = WithReview(output, more)
  <2>1. output.review = {}
    BY <1>1, PartsOf DEF NoOutput
  <2>2. output.review \cup more = more
    BY <2>1
  <2>3. QED
    BY <1>2, <2>2 DEF WithReview
<1>5. Ledger(driver, output') /\ output'.articles = <<>>
  BY <1>1, <1>4, Noted, NothingRead
<1>6. StillNew(todo, output)'
  BY <1>5 DEF StillNew
<1>7. \A u \in chosen' : Awaited(u)'
  BY <1>2 DEF Awaited
<1>8. Ledger(driver, output)'
  BY <1>2, <1>5
<1>9. QED
  BY <1>1, <1>2, <1>3, <1>6, <1>7, <1>8 DEF CollectorInv

LEMMA FetchKeeps ==
  ASSUME CollectorInv, FetchNext
  PROVE  CollectorInv'
<1> DEFINE c == Head(todo)
<1>1. /\ phase' = phase /\ driver' = driver /\ chosen' = chosen /\ phase = "fetch" /\ todo # <<>>
      /\ todo' = Tail(todo)
  BY DEF FetchNext
<1>2. /\ todo \in Seq(FoundLink) /\ Ledger(driver, output) /\ StillNew(todo, output)
      /\ driver.kind \in {"run", "pack"}
      /\ \A i, j \in DOMAIN todo : i # j => todo[i].url # todo[j].url
  BY DEF CollectorInv, Unlike
<1>3. /\ 1 \in DOMAIN todo /\ c = todo[1] /\ c \in FoundLink
      /\ todo' \in Seq(FoundLink)
      /\ \A i \in DOMAIN todo' : i + 1 \in DOMAIN todo /\ todo'[i] = todo[i + 1] /\ i + 1 # 1 /\ i \in Nat
      /\ \A i \in DOMAIN todo : i = 1 \/ (i - 1 \in DOMAIN todo' /\ todo'[i - 1] = todo[i])
  <2> DEFINE s == todo
             t == Tail(todo)
             T == FoundLink
  <2>1. s \in Seq(T) /\ s # <<>> /\ t = Tail(s)
    BY <1>1, <1>2
  <2> HIDE DEF s, t, T
  <2>2. /\ Len(s) \in Nat /\ Len(s) # 0 /\ DOMAIN s = 1 .. Len(s) /\ Head(s) = s[1]
        /\ t \in Seq(T) /\ Len(t) = Len(s) - 1 /\ DOMAIN t = 1 .. Len(t)
        /\ \A i \in DOMAIN t : t[i] = s[i + 1]
        /\ \A i \in DOMAIN s : s[i] \in T
    BY <2>1
  <2>3. 1 \in DOMAIN s /\ Head(s) = s[1] /\ s[1] \in T
    BY <2>2
  <2>4. \A i \in DOMAIN t : i + 1 \in DOMAIN s /\ t[i] = s[i + 1] /\ i + 1 # 1 /\ i \in Nat
    BY <2>2
  <2>5. \A i \in DOMAIN s : i = 1 \/ (i - 1 \in DOMAIN t /\ t[i - 1] = s[i])
    BY <2>2
  <2>6. QED
    BY <1>1, <2>2, <2>3, <2>4, <2>5 DEF s, t, T
<1>4. \A a \in DOMAIN output.articles : output.articles[a].url # c.url
  BY <1>2, <1>3 DEF StillNew
<1>5. \/ /\ driver.kind = "pack" => ~ c.google
         /\ \E page \in Pages[c.url] :
              output' = IF driver.kind = "run" THEN Handled(output, c.url, page)
                        ELSE Packed(output, c.url, page)
      \/ output' = IF driver.kind = "run" THEN FetchFailed(output, c)
                   ELSE Packed(FetchFailed(output, c), c.url, Summary[c.url])
  BY DEF FetchNext
<1>6. Handles(driver, output, output', c.url)
  <2> HIDE DEF c
  <2>1. QED
    BY <1>2, <1>3, <1>4, <1>5, FetchSettles
<1> HIDE DEF c
<1>7. /\ Ledger(driver, output') /\ Grown(output, output') /\ Settled(driver, output', c.url)
      /\ \A a \in DOMAIN output'.articles :
           output'.articles[a].url = c.url \/ \E b \in DOMAIN output.articles : output'.articles[a].url = output.articles[b].url
  BY <1>6 DEF Handles
<1>8. \A i, j \in DOMAIN todo' : i # j => todo'[i].url # todo'[j].url
  <2> SUFFICES ASSUME NEW i \in DOMAIN todo', NEW j \in DOMAIN todo', i # j
               PROVE  todo'[i].url # todo'[j].url
    OBVIOUS
  <2>1. /\ i + 1 \in DOMAIN todo /\ todo'[i] = todo[i + 1] /\ i \in Nat
        /\ j + 1 \in DOMAIN todo /\ todo'[j] = todo[j + 1] /\ j \in Nat
    BY <1>3
  <2>2. i + 1 # j + 1
    BY <2>1
  <2>3. todo[i + 1].url # todo[j + 1].url
    BY <1>2, <2>1, <2>2
  <2>4. QED
    BY <2>1, <2>3
<1>9. todo' \in Unlike
  BY <1>3, <1>8 DEF Unlike
<1>10. StillNew(todo, output)'
  <2> SUFFICES ASSUME NEW i \in DOMAIN todo', NEW a \in DOMAIN output'.articles
               PROVE  todo'[i].url # output'.articles[a].url
    BY DEF StillNew
  <2>1. i + 1 \in DOMAIN todo /\ todo'[i] = todo[i + 1] /\ i + 1 # 1
    BY <1>3
  <2>2. todo'[i].url # c.url
    BY <1>2, <1>3, <2>1
  <2>3. \A b \in DOMAIN output.articles : todo'[i].url # output.articles[b].url
    BY <1>2, <2>1 DEF StillNew
  <2>4. QED
    BY <1>7, <2>2, <2>3
<1>11. ASSUME NEW u \in chosen' PROVE Settled(driver, output', u) \/ Awaited(u)'
  <2>1. CASE Settled(driver, output, u)
    BY <1>7, <2>1, GrownKeeps
  <2>2. CASE Awaited(u)
    <3>1. PICK i \in DOMAIN todo : todo[i].url = u
      BY <2>2 DEF Awaited
    <3>2. CASE i = 1
      BY <1>3, <1>7, <3>1, <3>2
    <3>3. CASE i # 1
      BY <1>3, <3>1, <3>3 DEF Awaited
    <3>4. QED
      BY <3>2, <3>3
  <2>3. QED
    BY <1>1, <2>1, <2>2 DEF CollectorInv
<1>12. Ledger(driver, output)' /\ \A u \in chosen' : Settled(driver, output, u)' \/ Awaited(u)'
  BY <1>1, <1>7, <1>11
<1>13. QED
  BY <1>1, <1>2, <1>9, <1>10, <1>12 DEF CollectorInv

LEMMA CollectorSteps == CollectorInv /\ [CollectorNext]_collectorVars => CollectorInv'
<1> SUFFICES ASSUME CollectorInv, [CollectorNext]_collectorVars PROVE CollectorInv'
  OBVIOUS
<1>1. ASSUME NEW f \in Findings, Discover(f) PROVE CollectorInv'
  BY <1>1, DiscoverKeeps
<1>2. CASE FetchNext
  BY <1>2, FetchKeeps
<1>3. CASE FinishCollecting
  <2>1. /\ phase' = "done" /\ todo = <<>> /\ todo' = todo /\ driver' = driver /\ chosen' = chosen
        /\ output' = output
    BY <1>3 DEF FinishCollecting
  <2>2. /\ driver.kind \in {"run", "pack"} /\ todo \in Unlike /\ StillNew(todo, output)
        /\ Ledger(driver, output)
        /\ \A u \in chosen : Settled(driver, output, u) \/ Awaited(u)
    BY DEF CollectorInv
  <2>3. /\ StillNew(todo, output)' /\ Ledger(driver, output)'
        /\ \A u \in chosen' : Settled(driver, output, u)' \/ Awaited(u)'
    BY <2>1, <2>2 DEF Awaited
  <2>4. QED
    BY <2>1, <2>2, <2>3 DEF CollectorInv
<1>4. CASE UNCHANGED collectorVars
  <2>1. /\ phase' = phase /\ todo' = todo /\ driver' = driver /\ chosen' = chosen /\ output' = output
    BY <1>4 DEF collectorVars
  <2>2. QED
    BY <2>1 DEF CollectorInv, Awaited
<1>5. QED
  BY <1>1, <1>2, <1>3, <1>4 DEF CollectorNext

\* Whatever the sources answer and the pages say, the ledger is in order and no url is lost.
THEOREM CollectorInvariant == CollectorSpec => []CollectorInv
BY CollectorStarts, CollectorSteps, PTL DEF CollectorSpec

-----------------------------------------------------------------------------
(* What the ledger means for an observation.                               *)

\* One observation is a block of the one article of its url, which is read as a whole.
LEMMA ReadOut ==
  ASSUME CollectorInv, NEW o \in Observations
  PROVE  LET page == PageOf(o.url)
         IN /\ page \in ArticlePage /\ \E a \in DOMAIN output.articles : output.articles[a].url = o.url
            /\ ReadWhole(driver, output, o.url, page)
            /\ \E k \in DOMAIN Blocks(page) :
                 /\ o = ReadRow(driver, o.url, page, k) /\ o.row = RowOf(driver, page, k)
                 /\ o.row.block = Blocks(page)[k]
<1>1. PICK i \in DOMAIN output.observations : output.observations[i] = o
  BY DEF Observations
<1>2. Ledger(driver, output)
  BY DEF CollectorInv
<1>3. \E a \in DOMAIN output.articles : \E k \in DOMAIN Blocks(output.articles[a].page) :
        o = ReadRow(driver, output.articles[a].url, output.articles[a].page, k)
  BY <1>1, <1>2 DEF Ledger
<1>4. PICK a \in DOMAIN output.articles : \E k \in DOMAIN Blocks(output.articles[a].page) :
        o = ReadRow(driver, output.articles[a].url, output.articles[a].page, k)
  BY <1>3
<1> DEFINE x == output.articles[a]
           page == output.articles[a].page
<1>5. PICK k \in DOMAIN Blocks(page) : o = ReadRow(driver, x.url, page, k)
  BY <1>4
<1>6. o.url = x.url /\ o.row = RowOf(driver, page, k)
  BY <1>5 DEF ReadRow
<1>7. page \in ArticlePage
  <2>1. output.articles[a] \in ArticleRow
    BY <1>2 DEF Ledger
  <2>2. QED
    BY <2>1 DEF ArticleRow
<1>8. o.row.block = Blocks(page)[k]
  <2> HIDE DEF page
  <2>1. RowOf(driver, page, k).block = Blocks(page)[k]
    BY <1>7, RowFields, Zenon
  <2>2. QED
    BY <1>6, <2>1
<1>9. ReadWhole(driver, output, x.url, page)
  BY <1>1, <1>2, <1>6 DEF Ledger
<1>10. PageOf(o.url) = page
  <2> DEFINE y == CHOOSE b \in Articles : b.url = o.url
  <2>1. x \in Articles /\ x.url = o.url
    BY <1>6 DEF Articles
  <2>2. y \in Articles /\ y.url = o.url
    BY <2>1
  <2> HIDE DEF y
  <2>3. PICK b \in DOMAIN output.articles : output.articles[b] = y
    BY <2>2 DEF Articles
  <2>4. b = a
    BY <1>2, <1>6, <2>2, <2>3 DEF Ledger
  <2>5. y = x
    BY <2>3, <2>4
  <2>6. QED
    BY <2>5 DEF PageOf, y
<1>11. QED
  BY <1>5, <1>6, <1>7, <1>8, <1>9, <1>10

\* A code in the review is one of those about it.
LEMMA Reported == \A about, code : Review(about, code) \in output.review => code \in ReviewOf(about)
<1> TAKE about, code
<1>1. Review(about, code).about = about /\ Review(about, code).code = code
  BY DEF Review
<1>2. QED
  BY <1>1 DEF ReviewOf

-----------------------------------------------------------------------------
(* Nothing gets lost.                                                      *)

Record(o) ==
  [key |-> <<o.url, o.row.block>>, options |-> o.row.options,
   candidates |-> {o.row.options[i].name : i \in DOMAIN o.row.options}]

\* A url that is settled is accounted for.
LEMMA SettledAccounted ==
  ASSUME NEW u, Settled(driver, output, u)
  PROVE  \/ \E o \in Observations : o.url = u
         \/ ReviewOf(<<"article", u>>) # {}
         \/ \E d \in output.dropped : d.url = u /\ \E a \in Articles :
              a.page.signature = d.page.signature
         \/ \E a \in Articles \cup output.blocked :
              a.url = u /\ (Classify(a.page) = "NON_POLL" \/ (driver.kind = "pack" /\ ~ a.page.quality))
<1>1. CASE \E i \in DOMAIN output.observations : output.observations[i].url = u
  BY <1>1 DEF Observations
<1>2. CASE \E code : Review(<<"article", u>>, code) \in output.review
  BY <1>2, Reported
<1>3. CASE \E x \in output.dropped : x.url = u /\ \E a \in DOMAIN output.articles :
              output.articles[a].page.signature = x.page.signature
  BY <1>3 DEF Articles
<1>4. CASE \E x : /\ Holds(output.articles, x) \/ x \in output.blocked
                  /\ x.url = u /\ (Classify(x.page) = "NON_POLL" \/ (driver.kind = "pack" /\ ~ x.page.quality))
  <2>1. \A x : Holds(output.articles, x) => x \in Articles
    BY DEF Holds, Articles
  <2>2. QED
    BY <1>4, <2>1
<1>5. QED
  BY <1>1, <1>2, <1>3, <1>4 DEF Settled

\* The payload has the record of every observation, and of each one another.
LEMMA PayloadOf ==
  ASSUME CollectorInv
  PROVE  /\ Payload = {Record(o) : o \in Observations}
         /\ \A o, p \in Observations : Record(o).key = Record(p).key => o = p
<1>1. \A o \in Observations : \E i \in DOMAIN output.articles : output.articles[i].url = o.url
  BY ReadOut
<1>2. Payload = {Record(o) : o \in Observations}
  <2>1. {p \in Observations : \E i \in DOMAIN output.articles : output.articles[i].url = p.url} = Observations
    BY <1>1
  <2>2. Payload = {Record(o) : o \in {p \in Observations : \E i \in DOMAIN output.articles : output.articles[i].url = p.url}}
    BY DEF Payload, Record, Observations
  <2>3. QED
    BY <2>1, <2>2
<1>3. ASSUME NEW o \in Observations, NEW p \in Observations, Record(o).key = Record(p).key
      PROVE  o = p
  <2>1. PICK i \in DOMAIN output.observations : output.observations[i] = o
    BY DEF Observations
  <2>2. PICK j \in DOMAIN output.observations : output.observations[j] = p
    BY DEF Observations
  <2>3. <<o.url, o.row.block>> = <<p.url, p.row.block>>
    BY <1>3 DEF Record
  <2>4. o.url = p.url /\ o.row.block = p.row.block
    BY <2>3
  <2>5. i = j
    BY <2>1, <2>2, <2>4 DEF CollectorInv, Ledger
  <2>6. QED
    BY <2>1, <2>2, <2>5
<1>4. QED
  BY <1>2, <1>3

\* As many records as observations.
LEMMA PayloadCounted ==
  ASSUME CollectorInv
  PROVE  Cardinality(Payload) = Len(output.observations)
<1> DEFINE s == output.observations
           n == Len(s)
           f == [i \in 1 .. n |-> Record(s[i])]
<1>1. n \in Nat /\ DOMAIN s = 1 .. n
  <2>1. s \in Seq(ReadRows(driver))
    BY DEF CollectorInv, Ledger
  <2> HIDE DEF s
  <2>2. QED
    BY <2>1
<1>2. Payload = {Record(s[i]) : i \in 1 .. n}
  <2>1. Payload = {Record(o) : o \in {s[i] : i \in DOMAIN s}}
    BY PayloadOf DEF Observations
  <2> HIDE DEF s
  <2>2. QED
    BY <1>1, <2>1
<1>3. \A i, j \in 1 .. n : Record(s[i]) = Record(s[j]) => i = j
  <2> SUFFICES ASSUME NEW i \in 1 .. n, NEW j \in 1 .. n, Record(s[i]) = Record(s[j])
               PROVE  i = j
    OBVIOUS
  <2>1. s[i] \in Observations /\ s[j] \in Observations /\ i \in DOMAIN s /\ j \in DOMAIN s
    BY <1>1 DEF Observations
  <2>2. s[i] = s[j]
    BY <2>1, PayloadOf
  <2>3. QED
    BY <2>1, <2>2 DEF CollectorInv, Ledger
<1> HIDE DEF n, s
<1>4. f \in Surjection(1 .. n, Payload) /\ f \in Injection(1 .. n, Payload)
  <2>1. f \in [1 .. n -> Payload]
    BY <1>2
  <2>2. \A r \in Payload : \E i \in 1 .. n : f[i] = r
    BY <1>2
  <2>3. \A i, j \in 1 .. n : f[i] = f[j] => i = j
    BY <1>3
  <2> HIDE DEF f
  <2>4. QED
    BY <2>1, <2>2, <2>3 DEF Surjection, Injection, IsInjective
<1>5. IsFiniteSet(1 .. n) /\ Cardinality(1 .. n) = n
  <2>1. 1 \in Int /\ n \in Int
    BY <1>1
  <2>2. /\ IsFiniteSet(1 .. n) /\ Cardinality(1 .. n) = IF 1 > n THEN 0 ELSE n - 1 + 1
    BY <2>1, FS_Interval
  <2>3. QED
    BY <1>1, <2>2
<1> HIDE DEF f
<1>6. Cardinality(Payload) = n
  BY <1>4, <1>5, FS_Surjection
<1>7. QED
  BY <1>6 DEF n, s

\* An observation without options is for review, and has a record of its own.
LEMMA ObservationAccounted ==
  ASSUME CollectorInv, NEW o \in Observations
  PROVE  /\ o.row.options = <<>> => ReviewOf(<<"observation", o.url, o.row.block>>) # {}
         /\ Cardinality({r \in Payload : r.key = <<o.url, o.row.block>>}) = 1
<1> DEFINE page == PageOf(o.url)
<1>1. page \in ArticlePage /\ ReadWhole(driver, output, o.url, page)
  BY ReadOut
<1>2. PICK k \in DOMAIN Blocks(page) : o.row = RowOf(driver, page, k) /\ o.row.block = Blocks(page)[k]
  BY ReadOut
<1> HIDE DEF page
<1>3. ASSUME o.row.options = <<>> PROVE ReviewOf(<<"observation", o.url, o.row.block>>) # {}
  <2>1. ReadOf(driver, page, k).options = <<>>
    <3>1. RowOf(driver, page, k).options = ReadOf(driver, page, k).options
      BY <1>1, RowFields, Zenon
    <3>2. QED
      BY <1>2, <1>3, <3>1
  <2>2. DiagnoseExtractFailure(page) \in ObservationReviews(page, ReadOf(driver, page, k))
    BY <2>1 DEF ObservationReviews
  <2>3. Review(<<"observation", o.url, o.row.block>>, DiagnoseExtractFailure(page)) \in output.review
    BY <1>1, <1>2, <2>2 DEF ReadWhole, Reviewed
  <2>4. QED
    BY <2>3, Reported
<1>4. {r \in Payload : r.key = <<o.url, o.row.block>>} = {Record(o)}
  <2>1. \A p \in Observations : Record(p).key = <<p.url, p.row.block>>
    BY DEF Record
  <2>2. Payload = {Record(p) : p \in Observations}
        /\ \A p \in Observations : Record(p).key = Record(o).key => p = o
    BY PayloadOf
  <2>3. QED
    BY <2>1, <2>2
<1>5. QED
  BY <1>3, <1>4, FS_Singleton

LEMMA Accounted == CollectorInv => ArticlesAccountedFor
<1> SUFFICES ASSUME CollectorInv, phase = "done" PROVE ArticlesAccountedFor
  BY DEF ArticlesAccountedFor
<1>1. ASSUME NEW u \in chosen PROVE Settled(driver, output, u)
  <2>1. todo = <<>>
    BY DEF CollectorInv
  <2>2. ~ Awaited(u)
    BY <2>1 DEF Awaited
  <2>3. QED
    BY <2>2 DEF CollectorInv
<1>2. \A u \in chosen :
         \/ \E o \in Observations : o.url = u
         \/ ReviewOf(<<"article", u>>) # {}
         \/ \E d \in output.dropped : d.url = u /\ \E a \in Articles :
              a.page.signature = d.page.signature
         \/ \E a \in Articles \cup output.blocked :
              a.url = u /\ (Classify(a.page) = "NON_POLL" \/ (driver.kind = "pack" /\ ~ a.page.quality))
  BY <1>1, SettledAccounted
<1>3. QED
  BY <1>2, ObservationAccounted, PayloadCounted DEF ArticlesAccountedFor

-----------------------------------------------------------------------------
(* The dates.                                                              *)

LEMMA Dated == CollectorInv => DatesJustified
<1> SUFFICES ASSUME CollectorInv, NEW o \in Observations
             PROVE
    LET page == PageOf(o.url)
        all == Said(At(page, o.row.block), "period")
        periods == {all[i] : i \in DOMAIN all}
        own == SurveyPeriod(page, At(page, o.row.block))[2] # 0
        entries == Register[o.row.pollster]
        registered == driver.kind = "pack" /\ \E i \in DOMAIN entries : entries[i].day = o.row.end
        relative == \E i \in DOMAIN Signals : Signals[i].word \in page.words
        reported == ReviewOf(<<"article", o.url>>)
    IN /\ own =>
            /\ \E p \in periods : p.exists /\ (o.row.end - p.end) % YearLength = 0
            /\ o.row.start <= o.row.end \/ (\E p \in periods : p.end < p.start /\ (p.year \/ ~ p.turns))
       /\ ~ own /\ o.row.end # 0 /\ ~ registered =>
            /\ o.row.end <= FirstDate(page)
            /\ relative \/ o.row.end = page.published
            /\ page.published = 0 => driver.policy = "allow_estimated_timestamp"
            /\ o.row.confidence < CertainFrom => reported # {}
       /\ page.published = 0 /\ page.collected # 0 /\ relative =>
            reported \cap {"RELATIVE_DATE_ESTIMATED", "RELATIVE_DATE_STRICT_FAIL"} # {}
  BY DEF DatesJustified
<1> DEFINE page == PageOf(o.url)
           all == Said(At(page, o.row.block), "period")
           periods == {all[i] : i \in DOMAIN all}
           own == SurveyPeriod(page, At(page, o.row.block))
           entries == Register[o.row.pollster]
           registered == driver.kind = "pack" /\ \E i \in DOMAIN entries : entries[i].day = o.row.end
           relative == \E i \in DOMAIN Signals : Signals[i].word \in page.words
           reported == ReviewOf(<<"article", o.url>>)
           day == InferSurveyDate(page, driver.policy)
<1>1. page \in ArticlePage /\ ReadWhole(driver, output, o.url, page)
  BY ReadOut
<1>2. PICK k \in DOMAIN Blocks(page) : o.row = RowOf(driver, page, k) /\ o.row.block = Blocks(page)[k]
  BY ReadOut
<1> HIDE DEF page
<1>3. At(page, o.row.block) = Text(page, k)
  BY <1>2 DEF Text
<1>4. /\ own[2] # 0 =>
           \E p : /\ Holds(all, p) /\ p.exists /\ (o.row.end - p.end) % YearLength = 0
                  /\ o.row.start <= o.row.end \/ (p.end < p.start /\ (p.year \/ ~ p.turns))
      /\ own[2] = 0 /\ o.row.end # 0 /\ ~ registered =>
           /\ o.row.end <= FirstDate(page)
           /\ relative \/ o.row.end = page.published
           /\ page.published = 0 => driver.policy = "allow_estimated_timestamp"
           /\ o.row.confidence < CertainFrom => day.review # {}
  <2> DEFINE r == RowOf(driver, page, k)
             segs == Text(page, k)
  <2>1. /\ SurveyPeriod(page, segs)[2] # 0 =>
             \E p : /\ Holds(Said(segs, "period"), p) /\ p.exists /\ (r.end - p.end) % YearLength = 0
                    /\ r.start <= r.end \/ (p.end < p.start /\ (p.year \/ ~ p.turns))
        /\ SurveyPeriod(page, segs)[2] = 0 /\ r.end # 0
             /\ ~ (driver.kind = "pack" /\ \E i \in DOMAIN Register[r.pollster] :
                                              Register[r.pollster][i].day = r.end) =>
             /\ r.end <= FirstDate(page)
             /\ relative \/ r.end = page.published
             /\ page.published = 0 => driver.policy = "allow_estimated_timestamp"
             /\ r.confidence < CertainFrom => day.review # {}
    BY <1>1, RowDates, Zenon
  <2>2. o.row = r /\ At(page, o.row.block) = segs
    BY <1>2, <1>3
  <2> HIDE DEF r, segs
  <2>3. QED
    BY <2>1, <2>2
<1>5. page.published = 0 /\ page.collected # 0 /\ relative =>
        day.review \cap {"RELATIVE_DATE_ESTIMATED", "RELATIVE_DATE_STRICT_FAIL"} # {}
  BY <1>1, DayInferred, Zenon
<1>6. \A code \in day.review : code \in reported
  <2>1. \A code \in day.review : Review(<<"article", o.url>>, code) \in output.review
    BY <1>1 DEF ReadWhole, Reviewed
  <2>2. QED
    BY <2>1, Reported
<1>7. \A p : Holds(all, p) => p \in periods
  BY DEF Holds
<1> HIDE DEF own, all, periods, registered, relative, reported, day
<1>8. own[2] # 0 =>
        /\ \E p \in periods : p.exists /\ (o.row.end - p.end) % YearLength = 0
        /\ o.row.start <= o.row.end \/ (\E p \in periods : p.end < p.start /\ (p.year \/ ~ p.turns))
  BY <1>4, <1>7, Zenon
<1>9. own[2] = 0 /\ o.row.end # 0 /\ ~ registered =>
        /\ o.row.end <= FirstDate(page)
        /\ relative \/ o.row.end = page.published
        /\ page.published = 0 => driver.policy = "allow_estimated_timestamp"
        /\ o.row.confidence < CertainFrom => reported # {}
  <2>1. day.review # {} => reported # {}
    BY <1>6
  <2>2. QED
    BY <1>4, <2>1, Zenon
<1>10. page.published = 0 /\ page.collected # 0 /\ relative =>
         reported \cap {"RELATIVE_DATE_ESTIMATED", "RELATIVE_DATE_STRICT_FAIL"} # {}
  BY <1>5, <1>6
<1>11. QED
  BY <1>8, <1>9, <1>10, Zenon DEF own, all, periods, registered, relative, reported, page

-----------------------------------------------------------------------------
(* The surveys of one article.                                             *)

\* Two observations of one url are two blocks of one page.
LEMMA SameArticle ==
  ASSUME CollectorInv, NEW o \in Observations
  PROVE  LET page == PageOf(o.url)
             others == {p \in Observations : p.url = o.url}
         IN /\ UNION {Segments(p) : p \in others} = DOMAIN page.segs
            /\ \A p \in others \ {o} : Segments(p) \cap Segments(o) = {}
<1> DEFINE page == PageOf(o.url)
           others == {p \in Observations : p.url = o.url}
           B == Blocks(page)
<1>1. page \in ArticlePage /\ ReadWhole(driver, output, o.url, page)
  BY ReadOut
<1>2. \A p \in others : \E k \in DOMAIN B :
        /\ p = ReadRow(driver, o.url, page, k) /\ p.row.block = B[k]
  BY ReadOut
<1> HIDE DEF page
<1>3. PICK n \in Nat : DOMAIN page.segs = 1 .. n /\ IsSplit(B, n)
  BY <1>1, BlocksOf
<1>4. /\ \A x : Within(B, x) <=> x \in 1 .. n
      /\ \A b, c \in DOMAIN B : b # c => \A x : ~ (Holds(B[b], x) /\ Holds(B[c], x))
  BY <1>3, Zenon DEF IsSplit
<1>5. \A k \in DOMAIN B : \E p \in others : p.row.block = B[k]
  <2> SUFFICES ASSUME NEW k \in DOMAIN B PROVE \E p \in others : p.row.block = B[k]
    OBVIOUS
  <2> DEFINE p == ReadRow(driver, o.url, page, k)
  <2>1. p \in Observations
    BY <1>1 DEF ReadWhole, Holds, Observations
  <2>2. p.url = o.url /\ p.row = RowOf(driver, page, k)
    BY DEF ReadRow
  <2>3. RowOf(driver, page, k).block = B[k]
    BY <1>1, RowFields, Zenon
  <2> HIDE DEF p, B
  <2>4. QED
    BY <2>1, <2>2, <2>3
<1> HIDE DEF B, others
<1>6. \A p, x : x \in Segments(p) <=> Holds(p.row.block, x)
  BY DEF Segments, Holds
<1>7. \A x : (\E p \in others : x \in Segments(p)) <=> x \in 1 .. n
  BY <1>2, <1>4, <1>5, <1>6 DEF Within
<1>8. UNION {Segments(p) : p \in others} = DOMAIN page.segs
  BY <1>3, <1>7
<1>9. ASSUME NEW p \in others \ {o} PROVE Segments(p) \cap Segments(o) = {}
  <2>1. o \in others
    BY DEF others
  <2>2. PICK k \in DOMAIN B : p = ReadRow(driver, o.url, page, k) /\ p.row.block = B[k]
    BY <1>2
  <2>3. PICK l \in DOMAIN B : o = ReadRow(driver, o.url, page, l) /\ o.row.block = B[l]
    BY <1>2, <2>1
  <2>4. k # l
    BY <2>2, <2>3
  <2>5. \A x : ~ (Holds(B[k], x) /\ Holds(B[l], x))
    BY <1>4, <2>4
  <2>6. QED
    BY <1>6, <2>2, <2>3, <2>5
<1>10. QED
  BY <1>8, <1>9 DEF page, others

\* What the title or a block gives to a name is among the values of its observation.
LEMMA GivenValues ==
  ASSUME NEW o, PageOf(o.url) \in ArticlePage, NEW k \in DOMAIN Blocks(PageOf(o.url)),
         o.row.block = Blocks(PageOf(o.url))[k],
         NEW name, NEW value, MayGive(PageOf(o.url), k, name, value)
  PROVE  value \in ScenarioValues(o, name)
<1> DEFINE page == PageOf(o.url)
           b == Blocks(page)[k]
           segs == Text(page, k)
<1>1. CASE value \in GivenBy(page.title, name)
  BY <1>1 DEF ScenarioValues
<1>2. CASE \E l \in DOMAIN segs : value \in GivenBy(segs[l], name)
  <2>1. PICK l \in DOMAIN segs : value \in GivenBy(segs[l], name)
    BY <1>2
  <2>2. DOMAIN segs = DOMAIN b /\ \A j \in DOMAIN b : segs[j] = page.segs[b[j]]
    BY BlocksOf, Zenon
  <2>3. b[l] \in Segments(o)
    BY <2>1, <2>2 DEF Segments
  <2> HIDE DEF segs, b
  <2>4. value \in GivenBy(page.segs[b[l]], name)
    BY <2>1, <2>2
  <2>5. QED
    BY <2>3, <2>4 DEF ScenarioValues
<1>3. QED
  BY <1>1, <1>2 DEF MayGive

\* An observation is alone with its url exactly if its article is one block.
LEMMA AloneWithUrl ==
  ASSUME CollectorInv, NEW o \in Observations
  PROVE  {p \in Observations : p.url = o.url} = {o} <=> Len(Blocks(PageOf(o.url))) = 1
<1> DEFINE page == PageOf(o.url)
           others == {p \in Observations : p.url = o.url}
           B == Blocks(page)
<1>1. page \in ArticlePage /\ ReadWhole(driver, output, o.url, page)
  BY ReadOut
<1>2. \A p \in others : \E k \in DOMAIN B :
        /\ p = ReadRow(driver, o.url, page, k) /\ p.row.block = B[k]
  BY ReadOut
<1>3. \A k \in DOMAIN B : \E p \in others : p.row.block = B[k]
  <2> SUFFICES ASSUME NEW k \in DOMAIN B PROVE \E p \in others : p.row.block = B[k]
    OBVIOUS
  <2> DEFINE p == ReadRow(driver, o.url, page, k)
  <2>1. p \in Observations
    BY <1>1 DEF ReadWhole, Holds, Observations
  <2>2. p.url = o.url /\ p.row = RowOf(driver, page, k)
    BY DEF ReadRow
  <2>3. RowOf(driver, page, k).block = B[k]
    BY <1>1, RowFields, Zenon
  <2> HIDE DEF p, B
  <2>4. QED
    BY <2>1, <2>2, <2>3
<1> HIDE DEF page
<1>4. Len(B) \in Nat \ {0} /\ DOMAIN B = 1 .. Len(B)
  BY <1>1, BlocksOf
<1>5. \A k, l \in DOMAIN B : k # l => B[k] # B[l]
  BY <1>1, BlocksOf, Zenon DEF IsSplit
<1>6. o \in others
  OBVIOUS
<1> HIDE DEF B, others
<1>7. ASSUME Len(B) = 1 PROVE others = {o}
  <2>1. \A k \in DOMAIN B : k = 1
    BY <1>4, <1>7
  <2>2. \A p \in others : p = ReadRow(driver, o.url, page, 1)
    BY <1>2, <2>1
  <2>3. QED
    BY <1>6, <2>2
<1>8. ASSUME others = {o} PROVE Len(B) = 1
  <2>1. \A k \in DOMAIN B : B[k] = o.row.block
    BY <1>3, <1>8
  <2>2. ASSUME Len(B) # 1 PROVE FALSE
    <3>1. 1 \in DOMAIN B /\ 2 \in DOMAIN B
      BY <1>4, <2>2
    <3>2. QED
      BY <1>5, <2>1, <3>1
  <2>3. QED
    BY <2>2
<1>9. QED
  BY <1>7, <1>8 DEF page, others, B

\* Every option of an observation is one of its own candidates', with a number of theirs or one
\* that is given to the name for a scenario.
LEMMA OwnOptions ==
  ASSUME CollectorInv, NEW o \in Observations
  PROVE  LET page == PageOf(o.url)
             others == {p \in Observations : p.url = o.url}
             pairs == CandidatePairs(At(page, o.row.block),
                                     IF others = {o} THEN <<page.title>> ELSE <<>>)
             options == o.row.options
         IN \A x \in DOMAIN options : \E k \in DOMAIN pairs :
              /\ options[x].name = pairs[k].name
              /\ options[x].value \in {pairs[k].value} \cup ScenarioValues(o, options[x].name)
<1> DEFINE page == PageOf(o.url)
           others == {p \in Observations : p.url = o.url}
           pairs == CandidatePairs(At(page, o.row.block),
                                   IF others = {o} THEN <<page.title>> ELSE <<>>)
           options == o.row.options
<1>1. page \in ArticlePage
  BY ReadOut
<1>2. PICK k \in DOMAIN Blocks(page) : o.row = RowOf(driver, page, k) /\ o.row.block = Blocks(page)[k]
  BY ReadOut
<1>3. others = {o} <=> Len(Blocks(page)) = 1
  BY AloneWithUrl
<1>4. \A name, value : MayGive(page, k, name, value) => value \in ScenarioValues(o, name)
  BY <1>1, <1>2, GivenValues
<1> HIDE DEF page, others
<1>5. pairs = PairsIn(page, k)
  BY <1>2, <1>3 DEF PairsIn, Text
<1> HIDE DEF pairs
<1>6. \A x \in DOMAIN options : \E i \in DOMAIN PairsIn(page, k) :
        /\ options[x].name = PairsIn(page, k)[i].name
        /\ \/ options[x].value = PairsIn(page, k)[i].value
           \/ MayGive(page, k, options[x].name, options[x].value)
  <2>1. \A x \in DOMAIN RowOf(driver, page, k).options : \E i \in DOMAIN PairsIn(page, k) :
          /\ RowOf(driver, page, k).options[x].name = PairsIn(page, k)[i].name
          /\ \/ RowOf(driver, page, k).options[x].value = PairsIn(page, k)[i].value
             \/ MayGive(page, k, RowOf(driver, page, k).options[x].name,
                                  RowOf(driver, page, k).options[x].value)
    BY <1>1, RowOptions, Zenon
  <2>2. QED
    BY <1>2, <2>1
<1> HIDE DEF options
<1>7. \A x \in DOMAIN options : \E i \in DOMAIN pairs :
        /\ options[x].name = pairs[i].name
        /\ options[x].value \in {pairs[i].value} \cup ScenarioValues(o, options[x].name)
  BY <1>4, <1>5, <1>6
<1>8. QED
  BY <1>7, Zenon DEF page, others, pairs, options

\* The numbers, the pollster and the sample of an observation are those of its own text; a
\* number may have made way for one close to it that the text or the title gives.
LEMMA OwnText ==
  ASSUME CollectorInv, NEW o \in Observations
  PROVE  LET page == PageOf(o.url)
             own == {page.segs[i].sample : i \in Segments(o)} \ {0}
             named == {page.segs[i].pollster : i \in Segments(o)} \ {"none"}
             entries == Register[o.row.pollster]
         IN /\ \A i \in Segments(o) : \A k \in DOMAIN page.segs[i].duels :
                 \E x \in DOMAIN o.row.options :
                   /\ o.row.options[x].name = page.segs[i].duels[k].name
                   /\ \/ o.row.options[x].value = page.segs[i].duels[k].value
                      \/ /\ Distance(page.segs[i].duels[k].value, o.row.options[x].value) <= Tolerance
                         /\ o.row.options[x].value \in ScenarioValues(o, page.segs[i].duels[k].name)
            /\ "MULTIPLE_POLLSTER_TOKENS_IN_OBSERVATION" \in ReviewOf(<<"observation", o.url, o.row.block>>)
                 \/ named = {} \/ named = {o.row.pollster}
            /\ IF own # {} THEN o.row.sample \in own
               ELSE \/ o.row.sample = 0
                    \/ driver.kind = "pack" /\ o.row.sample \in
                         {page.segs[i].sample : i \in DOMAIN page.segs}
                           \cup {entries[i].sample : i \in DOMAIN entries}
<1> DEFINE page == PageOf(o.url)
           own == {page.segs[i].sample : i \in Segments(o)} \ {0}
           named == {page.segs[i].pollster : i \in Segments(o)} \ {"none"}
           entries == Register[o.row.pollster]
<1>1. page \in ArticlePage /\ ReadWhole(driver, output, o.url, page)
  BY ReadOut
<1>2. PICK k \in DOMAIN Blocks(page) : o.row = RowOf(driver, page, k) /\ o.row.block = Blocks(page)[k]
  BY ReadOut
<1> DEFINE b == Blocks(page)[k]
           segs == Text(page, k)
           r == RowOf(driver, page, k)
<1> HIDE DEF page
<1>3. /\ DOMAIN segs = DOMAIN b
      /\ \A j \in DOMAIN b : b[j] \in DOMAIN page.segs /\ segs[j] = page.segs[b[j]]
  BY <1>1, BlocksOf, Zenon
<1>4. Segments(o) = {b[j] : j \in DOMAIN b} /\ o.row = r /\ o.row.block = b
  BY <1>2 DEF Segments
<1>5. ASSUME NEW j \in DOMAIN segs, NEW m \in DOMAIN segs[j].duels
      PROVE  \E x \in DOMAIN r.options :
               /\ r.options[x].name = segs[j].duels[m].name
               /\ \/ r.options[x].value = segs[j].duels[m].value
                  \/ /\ Distance(segs[j].duels[m].value, r.options[x].value) <= Tolerance
                     /\ MayGive(page, k, segs[j].duels[m].name, r.options[x].value)
  BY <1>1, RowNumbers, Zenon
<1>6. \/ Len(PollsterTokens(segs)) >= 2
      \/ {segs[j].pollster : j \in DOMAIN segs} \ {"none"} = {}
      \/ {segs[j].pollster : j \in DOMAIN segs} \ {"none"} = {r.pollster}
  BY <1>1, RowPollster, Zenon
<1>7. IF {segs[j].sample : j \in DOMAIN segs} \ {0} # {} THEN r.sample \in {segs[j].sample : j \in DOMAIN segs} \ {0}
      ELSE \/ r.sample = 0
           \/ driver.kind = "pack" /\ r.sample \in {page.segs[i].sample : i \in DOMAIN page.segs}
                \cup {Register[r.pollster][i].sample : i \in DOMAIN Register[r.pollster]}
  BY <1>1, RowSample
<1>8. Len(PollsterTokens(segs)) >= 2 =>
        "MULTIPLE_POLLSTER_TOKENS_IN_OBSERVATION" \in ReviewOf(<<"observation", o.url, o.row.block>>)
  <2> SUFFICES ASSUME Len(PollsterTokens(segs)) >= 2
               PROVE  "MULTIPLE_POLLSTER_TOKENS_IN_OBSERVATION" \in ReviewOf(<<"observation", o.url, o.row.block>>)
    OBVIOUS
  <2>1. ReadOf(driver, page, k).block = b
    BY <1>1, RowFields, Zenon
  <2>2. PollsterTokens(At(page, ReadOf(driver, page, k).block)) = PollsterTokens(segs)
    BY <2>1 DEF Text
  <2>3. "MULTIPLE_POLLSTER_TOKENS_IN_OBSERVATION" \in ObservationReviews(page, ReadOf(driver, page, k))
    BY <2>2 DEF ObservationReviews
  <2>4. Review(<<"observation", o.url, b>>, "MULTIPLE_POLLSTER_TOKENS_IN_OBSERVATION") \in output.review
    BY <1>1, <2>3 DEF ReadWhole, Reviewed
  <2>5. QED
    BY <1>4, <2>4, Reported
<1>15. \A name, value : MayGive(page, k, name, value) => value \in ScenarioValues(o, name)
  BY <1>1, <1>2, GivenValues DEF page
<1> HIDE DEF b, segs, r
<1>9. {segs[j].pollster : j \in DOMAIN segs} \ {"none"} = named
  BY <1>3, <1>4
<1>10. {segs[j].sample : j \in DOMAIN segs} \ {0} = own
  BY <1>3, <1>4
<1>11. ASSUME NEW i \in Segments(o), NEW m \in DOMAIN page.segs[i].duels
       PROVE  \E x \in DOMAIN o.row.options :
                /\ o.row.options[x].name = page.segs[i].duels[m].name
                /\ \/ o.row.options[x].value = page.segs[i].duels[m].value
                   \/ /\ Distance(page.segs[i].duels[m].value, o.row.options[x].value) <= Tolerance
                      /\ o.row.options[x].value \in ScenarioValues(o, page.segs[i].duels[m].name)
  <2>1. PICK j \in DOMAIN b : b[j] = i
    BY <1>4
  <2>2. segs[j] = page.segs[i] /\ j \in DOMAIN segs
    BY <1>3, <2>1
  <2>3. PICK x \in DOMAIN r.options :
               /\ r.options[x].name = segs[j].duels[m].name
               /\ \/ r.options[x].value = segs[j].duels[m].value
                  \/ /\ Distance(segs[j].duels[m].value, r.options[x].value) <= Tolerance
                     /\ MayGive(page, k, segs[j].duels[m].name, r.options[x].value)
    BY <1>5, <2>2
  <2>4. x \in DOMAIN o.row.options /\ o.row.options[x] = r.options[x]
    BY <1>4
  <2>5. QED
    BY <1>15, <2>2, <2>3, <2>4
<1>12. "MULTIPLE_POLLSTER_TOKENS_IN_OBSERVATION" \in ReviewOf(<<"observation", o.url, o.row.block>>)
         \/ named = {} \/ named = {o.row.pollster}
  BY <1>4, <1>6, <1>8, <1>9
<1>13. IF own # {} THEN o.row.sample \in own
       ELSE \/ o.row.sample = 0
            \/ driver.kind = "pack" /\ o.row.sample \in
                 {page.segs[i].sample : i \in DOMAIN page.segs}
                   \cup {entries[i].sample : i \in DOMAIN entries}
  <2> HIDE DEF own
  <2>1. QED
    BY <1>4, <1>7, <1>10
<1>14. QED
  BY <1>11, <1>12, <1>13, Zenon DEF page

LEMMA KeptApart == CollectorInv => SurveysKeptApart
<1> SUFFICES ASSUME CollectorInv PROVE SurveysKeptApart
  OBVIOUS
<1>1. QED
  BY SameArticle, OwnOptions, OwnText, Zenon DEF SurveysKeptApart

-----------------------------------------------------------------------------
(* What the collector promises.                                            *)

\* Whatever the pages and the register say, every article is in the collector's output or was
\* left out for its kind, every one that cannot be read has a review row that says why
\* (PollCollector.run, _run_live_news_pack_pass), and the pack holds exactly one record of
\* each observation (collector_output_to_ingest_payload).
THEOREM AccountedTheorem == CollectorSpec => []ArticlesAccountedFor
BY CollectorInvariant, Accounted, PTL

\* Whatever its text, the surveys of one article are kept apart (_split_survey_blocks,
\* extract) but for the numbers of the title: no segment gets lost or is in two blocks, every
\* option has its name and its number from its own block, or a number that this block or the
\* title gives to the name for a scenario, no head-to-head number gets lost but for such a near
\* one, and what an observation says of its pollster and its sample comes from its own survey
\* or has a review row.
THEOREM KeptApartTheorem == CollectorSpec => []SurveysKeptApart
BY CollectorInvariant, KeptApart, PTL

\* Whatever the publication says, the day of an observation is one its text says or one the
\* policy allows to infer, and it is as certain as it is marked (_extract_survey_period,
\* _resolve_survey_date_inference).
THEOREM DatesTheorem == CollectorSpec => []DatesJustified
BY CollectorInvariant, Dated, PTL

\* A collector that stands still has nothing to account for.
LEMMA IdleAccounted == CollectorIdle => ArticlesAccountedFor /\ SurveysKeptApart /\ DatesJustified
<1> SUFFICES ASSUME CollectorIdle PROVE ArticlesAccountedFor /\ SurveysKeptApart /\ DatesJustified
  OBVIOUS
<1>1. chosen = {} /\ output = NoOutput
  BY DEF CollectorIdle
<1>2. output.observations = <<>>
  BY <1>1, PartsOf DEF NoOutput
<1>3. Observations = {} /\ Payload = {} /\ Len(output.observations) = 0
  BY <1>2 DEF Observations, Payload
<1>4. QED
  BY <1>1, <1>3, FS_EmptySet, Zenon DEF ArticlesAccountedFor, SurveysKeptApart, DatesJustified
=============================================================================
