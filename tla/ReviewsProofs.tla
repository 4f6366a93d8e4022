--------------------------- MODULE ReviewsProofs ----------------------------
(***************************************************************************)
(* Reviews proved for any number of authors and requests.  The sum over    *)
(* the ratings is a fold, so the first part establishes what the fold      *)
(* computes; the least counterexample stands in for induction.             *)
(***************************************************************************)
EXTENDS Reviews, FiniteSetTheorems, WellFoundedInduction, TLAPS

-----------------------------------------------------------------------------
(* The sum over a set of reviews.                                          *)

\* A set of naturals that is not empty has a least element.
LEMMA LeastNatural ==
  ASSUME NEW T, T \subseteq Nat, T # {}
  PROVE  \E m \in T : \A n \in T : m <= n
<1>1. PICK m \in T : \A n \in T : ~(<<n, m>> \in OpToRel(<, Nat))
  BY NatLessThanWellFounded, WFMin
<1>2. \A n \in T : ~(n < m) BY <1>1 DEF OpToRel
<1>. QED BY <1>2

\* A table of partial sums that is right up to sets of k reviews.
Element(s) == CHOOSE x \in s : TRUE
SumsTo(k, g, f, S) ==
    \A s \in SUBSET S : Cardinality(s) <= k =>
        g[s] = IF s = {} THEN 0 ELSE f[Element(s)] + g[s \ {Element(s)}]

\* There is one for every k.
LEMMA SumsExist ==
  ASSUME NEW f, NEW S, IsFiniteSet(S), NEW k \in Nat
  PROVE  \E g : g = [s \in SUBSET S |-> g[s]] /\ SumsTo(k, g, f, S)
<1>. DEFINE Exists(n) == \E g : g = [s \in SUBSET S |-> g[s]] /\ SumsTo(n, g, f, S)
            Bad == {n \in Nat : ~Exists(n)}
<1>1. ASSUME Bad # {} PROVE FALSE
  <2>1. PICK m \in Bad : \A n \in Bad : m <= n
    BY <1>1, LeastNatural
  <2>2. \A s \in SUBSET S : IsFiniteSet(s) /\ Cardinality(s) \in Nat
    BY FS_Subset, FS_CardinalityType
  <2>3. m # 0
    <3>. DEFINE zero == [s \in SUBSET S |-> 0]
    <3>1. \A s \in SUBSET S : Cardinality(s) <= 0 => s = {}
      BY <2>2, FS_EmptySet
    <3>2. SumsTo(0, zero, f, S) BY <3>1 DEF SumsTo
    <3>3. zero = [s \in SUBSET S |-> zero[s]] OBVIOUS
    <3>4. Exists(0) BY <3>2, <3>3
    <3>. QED BY <3>4
  <2>4. m - 1 \in Nat /\ m - 1 \notin Bad
    <3>1. m \in Nat OBVIOUS
    <3>. HIDE DEF Bad
    <3>. QED BY <2>1, <2>3, <3>1
  <2>5. PICK g : SumsTo(m - 1, g, f, S) BY <2>4
  <2>. DEFINE next == [s \in SUBSET S |->
                         IF s = {} THEN 0 ELSE f[Element(s)] + g[s \ {Element(s)}]]
  <2>6. ASSUME NEW s \in SUBSET S, Cardinality(s) <= m, s # {}
        PROVE  next[s \ {Element(s)}] = g[s \ {Element(s)}]
    <3>1. Element(s) \in s BY <2>6 DEF Element
    <3>2. Cardinality(s \ {Element(s)}) = Cardinality(s) - 1
      BY <2>2, <3>1, FS_RemoveElement
    <3>3. Cardinality(s \ {Element(s)}) <= m - 1 BY <2>2, <2>6, <3>2
    <3>4. s \ {Element(s)} \in SUBSET S OBVIOUS
    <3>. QED BY <2>5, <3>3, <3>4 DEF SumsTo
  <2>7. SumsTo(m, next, f, S)
    <3>. SUFFICES ASSUME NEW s \in SUBSET S, Cardinality(s) <= m
                  PROVE  next[s] = IF s = {} THEN 0
                                   ELSE f[Element(s)] + next[s \ {Element(s)}]
      BY DEF SumsTo
    <3>1. next[s] = IF s = {} THEN 0 ELSE f[Element(s)] + g[s \ {Element(s)}]
      OBVIOUS
    <3>. HIDE DEF next
    <3>. QED BY <2>6, <3>1
  <2>8. next = [s \in SUBSET S |-> next[s]] OBVIOUS
  <2>. HIDE DEF next
  <2>9. Exists(m) BY <2>7, <2>8
  <2>. QED BY <2>9
<1>. QED BY <1>1

\* The equation of the fold: the partial sums of all sets of reviews.
Sums(g, f, S) ==
    g = [s \in SUBSET S |-> IF s = {} THEN 0 ELSE f[Element(s)] + g[s \ {Element(s)}]]

\* Total is the last of a table that satisfies it.
LEMMA SumIsLast ==
  ASSUME NEW f, NEW S, IsFiniteSet(S)
  PROVE  \E g : Sums(g, f, S) /\ Total(f, S) = g[S]
<1>1. \E g : Sums(g, f, S)
  <2>1. Cardinality(S) \in Nat BY FS_CardinalityType
  <2>2. PICK g : g = [s \in SUBSET S |-> g[s]] /\ SumsTo(Cardinality(S), g, f, S)
    BY <2>1, SumsExist
  <2>3. \A s \in SUBSET S : Cardinality(s) <= Cardinality(S) BY FS_Subset
  <2>4. \A s \in SUBSET S : g[s] = IF s = {} THEN 0 ELSE f[Element(s)] + g[s \ {Element(s)}]
    BY <2>2, <2>3 DEF SumsTo
  <2>. QED BY <2>2, <2>4 DEF Sums
<1>2. Total(f, S) = (CHOOSE g : Sums(g, f, S))[S]
  BY DEF Total, MapThenSumSet, MapThenFoldSet, Sums, Element
<1>3. Sums(CHOOSE g : Sums(g, f, S), f, S) BY <1>1
<1>. QED BY <1>2, <1>3

\* A sum of n ratings is between n and 5 n.
LEMMA SumOfStars ==
  ASSUME NEW f, NEW S, IsFiniteSet(S), \A a \in S : f[a] \in 1..5
  PROVE  Total(f, S) \in Cardinality(S)..(5 * Cardinality(S))
<1>1. PICK g : Sums(g, f, S) /\ Total(f, S) = g[S]
  BY SumIsLast
<1>2. \A s \in SUBSET S : IsFiniteSet(s) /\ Cardinality(s) \in Nat
  BY FS_Subset, FS_CardinalityType
<1>. DEFINE Wrong == {s \in SUBSET S : g[s] \notin Cardinality(s)..(5 * Cardinality(s))}
            Sizes == {Cardinality(s) : s \in Wrong}
<1>3. ASSUME Wrong # {} PROVE FALSE
  <2>1. Sizes \subseteq Nat /\ Sizes # {} BY <1>2, <1>3
  <2>2. PICK m \in Sizes : \A n \in Sizes : m <= n BY <2>1, LeastNatural
  <2>3. PICK s \in Wrong : Cardinality(s) = m BY <2>2
  <2>4. g[s] = IF s = {} THEN 0 ELSE f[Element(s)] + g[s \ {Element(s)}]
    BY <1>1, <2>3 DEF Sums
  <2>5. s # {}
    <3>1. s = {} => g[s] = 0 /\ Cardinality(s) = 0 BY <2>4, FS_EmptySet
    <3>. QED BY <2>3, <3>1
  <2>6. Element(s) \in s BY <2>5 DEF Element
  <2>7. Cardinality(s \ {Element(s)}) = m - 1 /\ m \in Nat
    BY <1>2, <2>3, <2>6, FS_RemoveElement
  <2>8. s \ {Element(s)} \notin Wrong
    <3>1. ASSUME s \ {Element(s)} \in Wrong PROVE FALSE
      <4>1. m - 1 \in Sizes BY <2>7, <3>1
      <4>2. m <= m - 1 BY <2>2, <4>1
      <4>. QED BY <2>7, <4>2
    <3>. QED BY <3>1
  <2>9. g[s \ {Element(s)}] \in (m - 1)..(5 * (m - 1)) BY <2>3, <2>7, <2>8
  <2>10. f[Element(s)] \in 1..5 BY <2>3, <2>6
  <2>11. g[s] \in m..(5 * m) BY <2>4, <2>5, <2>7, <2>9, <2>10
  <2>. QED BY <2>3, <2>11
<1>4. g[S] \in Cardinality(S)..(5 * Cardinality(S)) BY <1>3
<1>. QED BY <1>1, <1>4

-----------------------------------------------------------------------------
(* recomputePackageRating.                                                 *)

\* Rounding a mean to the nearest tenth, halves up.
LEMMA MeanInTenths ==
  ASSUME NEW n \in Nat, n > 0, NEW sum \in n..(5 * n),
         NEW r \in Int, r = (20 * sum + n) \div (2 * n)
  PROVE  r \in 0..50 /\ 2 * (n * r - 10 * sum) \in (1 - n)..n
<1>1. (2 * n) * r <= 20 * sum + n /\ 20 * sum + n < (2 * n) * r + 2 * n
  OBVIOUS
<1>2. r <= 50
  <2>1. (2 * n) * r <= 101 * n BY <1>1
  <2>2. r >= 51 => (2 * n) * r >= (2 * n) * 51 OBVIOUS
  <2>. QED BY <2>1, <2>2
<1>3. r >= 0
  <2>1. r <= -1 => (2 * n) * r <= (2 * n) * (-1) OBVIOUS
  <2>. QED BY <1>1, <2>1
<1>4. 2 * (n * r - 10 * sum) = (2 * n) * r - 20 * sum OBVIOUS
<1>. QED BY <1>1, <1>2, <1>3, <1>4

\* For any reviews, what the aggregate writes is the mean of those that count.
LEMMA RoundedIsMean ==
  ASSUME NEW given, NEW gone, \A a \in Authors : given[a] \in 0..5
  PROVE  LET in == Counted(given, gone)
             n  == Cardinality(in)
         IN  /\ Rounded(given, gone) \in 0..50
             /\ in = {} => Rounded(given, gone) = 0
             /\ in # {} => 2 * (n * Rounded(given, gone) - 10 * Total(given, in)) \in (1 - n)..n
<1>. DEFINE in == Counted(given, gone)
            n == Cardinality(in)
            r == (20 * Total(given, in) + n) \div (2 * n)
<1>1. in \subseteq Authors /\ \A a \in in : given[a] \in 1..5 BY DEF Counted
<1>2. IsFiniteSet(in) /\ n \in Nat /\ (n = 0 <=> in = {})
  BY <1>1, AuthorsAreFinite, FS_Subset, FS_CardinalityType, FS_EmptySet
<1>3. Rounded(given, gone) = IF n = 0 THEN 0 ELSE r BY DEF Rounded
<1>4. CASE in = {} BY <1>2, <1>3, <1>4
<1>5. CASE in # {}
  <2>1. Total(given, in) \in n..(5 * n) BY <1>1, <1>2, SumOfStars
  <2>2. n > 0 BY <1>2, <1>5
  <2>. HIDE DEF in, n
  <2>3. r \in Int BY <1>2, <2>1, <2>2
  <2>4. r \in 0..50 /\ 2 * (n * r - 10 * Total(given, in)) \in (1 - n)..n
    BY <1>2, <2>1, <2>2, <2>3, MeanInTenths
  <2>5. Rounded(given, gone) = r BY <1>3, <2>2
  <2>. QED BY <1>5, <2>4, <2>5 DEF in, n
<1>. QED BY <1>4, <1>5

-----------------------------------------------------------------------------
(* The invariant.                                                          *)

LEMMA ReviewInitSafe == Init => ReviewInv
<1>. SUFFICES ASSUME Init PROVE ReviewInv OBVIOUS
<1>1. IdleTask \in Tasks BY RatingsAreStars DEF IdleTask, Tasks, Labels, Kinds
<1>2. TypeOK
  <2>1. listed \in BOOLEAN /\ outdated \in BOOLEAN BY DEF Init
  <2>2. /\ stars \in [Authors -> Ratings \cup {0}] /\ average \in 0..50
        /\ removed \subseteq {a \in Authors : stars[a] # 0}
    BY DEF Init
  <2>3. task \in [Handlers -> Tasks] BY <1>1 DEF Init
  <2>. QED BY <2>1, <2>2, <2>3 DEF TypeOK
<1>3. Counted(stars, removed) = {} BY DEF Init, Counted
<1>4. Rounded(stars, removed) = 0 BY <1>3, RoundedIsMean DEF Init
<1>. QED BY <1>2, <1>4 DEF Init, ReviewInv, At, IdleTask

\* A step that leaves the reviews and the package alone, and moves one request.
LEMMA RequestKeeps ==
  ASSUME ReviewInv, NEW h \in Handlers, NEW t \in Tasks, Become(h, t),
         UNCHANGED <<listed, stars, removed, average, outdated>>,
         t.pc # "idle" /\ t.kind # "create" => stars[t.author] # 0,
         t.pc = "commit" /\ ~t.overlap => t.average = Rounded(StarsAfter(t), RemovedAfter(t))
  PROVE  ReviewInv'
<1>1. TypeOK' BY DEF ReviewInv, TypeOK, Become
<1>2. \A g \in Handlers : task'[g] = IF g = h THEN t ELSE task[g]
  BY DEF ReviewInv, TypeOK, Become
<1>3. \A g \in Handlers :
        /\ StarsAfter(task[g])' = StarsAfter(task'[g])
        /\ RemovedAfter(task[g])' = RemovedAfter(task'[g])
  BY DEF StarsAfter, RemovedAfter
<1>4. /\ \A u : (Rounded(StarsAfter(u), RemovedAfter(u)))' = Rounded(StarsAfter(u), RemovedAfter(u))
      /\ Rounded(stars, removed)' = Rounded(stars, removed)
  BY DEF StarsAfter, RemovedAfter
<1>. QED BY <1>1, <1>2, <1>3, <1>4 DEF ReviewInv, At

\* A transaction that has written holds what it is going to leave.
LEMMA WhatItLeaves ==
  ASSUME ReviewInv, NEW t \in Tasks, t.kind # "create" => stars[t.author] # 0
  PROVE  /\ StarsAfter(t) \in [Authors -> Ratings \cup {0}]
         /\ StarsAfter(t)[t.author] # 0
         /\ \A a \in Authors : stars[a] # 0 => StarsAfter(t)[a] # 0
         /\ RemovedAfter(t) \subseteq {a \in Authors : StarsAfter(t)[a] # 0}
         /\ Rounded(StarsAfter(t), RemovedAfter(t)) \in 0..50
<1>0. stars \in [Authors -> Ratings \cup {0}] /\ removed \subseteq {a \in Authors : stars[a] # 0}
  BY DEF ReviewInv, TypeOK
<1>1. t.author \in Authors /\ t.stars \in Ratings /\ t.stars # 0 /\ t.kind \in Kinds
  BY RatingsAreStars DEF Tasks
<1>2. /\ StarsAfter(t) \in [Authors -> Ratings \cup {0}]
      /\ StarsAfter(t)[t.author] # 0
      /\ \A a \in Authors : stars[a] # 0 => StarsAfter(t)[a] # 0
  BY <1>0, <1>1 DEF StarsAfter, Kinds
<1>3. RemovedAfter(t) \subseteq {a \in Authors : StarsAfter(t)[a] # 0}
  BY <1>0, <1>1, <1>2 DEF RemovedAfter
<1>4. \A a \in Authors : StarsAfter(t)[a] \in 0..5
  BY <1>2, RatingsAreStars
<1>5. Rounded(StarsAfter(t), RemovedAfter(t)) \in 0..50
  BY <1>4, RoundedIsMean
<1>. QED BY <1>2, <1>3, <1>5

LEMMA CheckSafe ==
  ASSUME ReviewInv, NEW h \in Handlers, NEW kind \in Kinds, NEW a \in Authors,
         NEW s \in Ratings, Check(h, kind, a, s)
  PROVE  ReviewInv'
<1>. DEFINE t == [pc |-> "write", kind |-> kind, author |-> a, stars |-> s,
                  average |-> 0, overlap |-> FALSE]
<1>1. t \in Tasks BY DEF Tasks, Labels
<1>2. Become(h, t) /\ UNCHANGED <<listed, stars, removed, average, outdated>>
  BY DEF Check
<1>3. kind # "create" => stars[a] # 0 BY DEF Check
<1>4. t.pc = "write" /\ t.kind = kind /\ t.author = a OBVIOUS
<1>. HIDE DEF t
<1>. QED BY <1>1, <1>2, <1>3, <1>4, RequestKeeps

\* A request that ends leaves nothing behind.
LEMMA DoneSafe ==
  ASSUME ReviewInv, NEW h \in Handlers, Done(h),
         UNCHANGED <<listed, stars, removed, average, outdated>>
  PROVE  ReviewInv'
<1>1. IdleTask \in Tasks BY RatingsAreStars DEF IdleTask, Tasks, Labels, Kinds
<1>2. IdleTask.pc = "idle" BY DEF IdleTask
<1>. QED BY <1>1, <1>2, RequestKeeps DEF Done

LEMMA WriteAndAggregateSafe ==
  ASSUME ReviewInv, NEW h \in Handlers, WriteAndAggregate(h)
  PROVE  ReviewInv'
<1>. DEFINE t == task[h]
            mean == Rounded(StarsAfter(t), RemovedAfter(t))
            u == [t EXCEPT !.pc = "commit", !.average = mean]
<1>1. t \in Tasks BY DEF ReviewInv, TypeOK
<1>2. t.kind # "create" => stars[t.author] # 0
  BY DEF WriteAndAggregate, ReviewInv, At
<1>3. mean \in 0..50 BY <1>1, <1>2, WhatItLeaves
<1>4. Become(h, u) /\ UNCHANGED <<listed, stars, removed, average, outdated>>
  BY DEF WriteAndAggregate
<1>. HIDE DEF mean
<1>5. /\ u \in Tasks /\ u.kind = t.kind /\ u.author = t.author /\ u.stars = t.stars
      /\ u.average = mean
  BY <1>1, <1>3 DEF Tasks, Labels
<1>6. StarsAfter(u) = StarsAfter(t) /\ RemovedAfter(u) = RemovedAfter(t)
  BY <1>5 DEF StarsAfter, RemovedAfter
<1>7. u.average = Rounded(StarsAfter(u), RemovedAfter(u)) BY <1>5, <1>6 DEF mean
<1>. HIDE DEF u
<1>. QED BY <1>2, <1>4, <1>5, <1>7, RequestKeeps

\* The commit is the only step that changes the reviews and the average; who
\* has aggregated by then is overlapped.
LEMMA CommitSafe ==
  ASSUME ReviewInv, NEW h \in Handlers, Commit(h)
  PROVE  ReviewInv'
<1>. DEFINE t == task[h]
<1>0. /\ task \in [Handlers -> Tasks] /\ t \in Tasks /\ listed \in BOOLEAN
      /\ IdleTask \in Tasks /\ IdleTask.pc = "idle"
  BY RatingsAreStars DEF ReviewInv, TypeOK, IdleTask, Tasks, Labels, Kinds
<1>1. t.kind # "create" => stars[t.author] # 0
  BY DEF Commit, ReviewInv, At
<1>2. /\ stars' \in [Authors -> Ratings \cup {0}]
      /\ \A a \in Authors : stars[a] # 0 => stars'[a] # 0
      /\ removed' \subseteq {a \in Authors : stars'[a] # 0}
  BY <1>0, <1>1, WhatItLeaves DEF Commit
<1>3. \A k \in Handlers :
        task'[k] = IF k = h THEN IdleTask
                   ELSE IF At(k, "commit") THEN [task[k] EXCEPT !.overlap = TRUE]
                   ELSE task[k]
  BY DEF Commit
<1>4. ASSUME NEW k \in Handlers
      PROVE  /\ task'[k] \in Tasks
             /\ task'[k].pc = "commit" => task'[k].overlap
             /\ task'[k].pc # "idle" =>
                  /\ task'[k].kind = task[k].kind /\ task'[k].author = task[k].author
                  /\ task[k].pc # "idle" /\ task[k].author \in Authors
  BY <1>0, <1>3 DEF At, Tasks
<1>5. TypeOK'
  <2>1. task' \in [Handlers -> Tasks] BY <1>4 DEF Commit
  <2>2. average' \in 0..50 /\ outdated' \in BOOLEAN /\ listed' \in BOOLEAN
    BY <1>0 DEF Commit, Tasks
  <2>. QED BY <1>2, <2>1, <2>2 DEF TypeOK
<1>6. \A k \in Handlers :
        task'[k].pc # "idle" /\ task'[k].kind # "create" => stars'[task'[k].author] # 0
  BY <1>2, <1>4 DEF ReviewInv, At
<1>7. ~outdated' => average' = Rounded(stars', removed')
  BY DEF Commit, ReviewInv, At
<1>8. Rounded(stars, removed)' = Rounded(stars', removed') OBVIOUS
<1>. QED BY <1>4, <1>5, <1>6, <1>7, <1>8 DEF ReviewInv, At

LEMMA ReviewNextSafe == ReviewInv /\ [Next]_vars => ReviewInv'
<1>. SUFFICES ASSUME ReviewInv, [Next]_vars PROVE ReviewInv' OBVIOUS
<1>1. ASSUME NEW h \in Handlers, NEW kind \in Kinds, NEW a \in Authors, NEW s \in Ratings,
             Check(h, kind, a, s)
      PROVE  ReviewInv'
  BY <1>1, CheckSafe
<1>2. ASSUME NEW h \in Handlers, WriteRefused(h) \/ Abort(h) PROVE ReviewInv'
  BY <1>2, DoneSafe DEF WriteRefused, Abort
<1>3. ASSUME NEW h \in Handlers, WriteAndAggregate(h) PROVE ReviewInv'
  BY <1>3, WriteAndAggregateSafe
<1>4. ASSUME NEW h \in Handlers, Commit(h) PROVE ReviewInv' BY <1>4, CommitSafe
<1>5. CASE Relist \/ UNCHANGED vars
  <2>1. UNCHANGED <<stars, removed, average, outdated, task>> /\ listed' \in BOOLEAN
    BY <1>5 DEF Relist, vars, ReviewInv, TypeOK
  <2>. QED BY <2>1 DEF ReviewInv, TypeOK, At, StarsAfter, RemovedAfter
<1>. QED BY <1>1, <1>2, <1>3, <1>4, <1>5 DEF Next

-----------------------------------------------------------------------------

\* review.service.ts: what every transaction leaves, however many run at the
\* same time and wherever they fail.
THEOREM ReviewInvariant == Spec => []ReviewInv
<1>. QED BY ReviewInitSafe, ReviewNextSafe, PTL DEF Spec

\* Every column and every local has a value of its declaration; in particular
\* the average of any number of reviews is between 0 and 5.0.
THEOREM ReviewTypeSafe == Spec => []TypeOK
<1>1. ReviewInv => TypeOK BY DEF ReviewInv
<1>. QED BY <1>1, ReviewInvariant, PTL

\* recomputePackageRating: after a write that nobody overlapped the average is
\* the mean of the reviews that are there to the nearest tenth, for any number
\* of reviews and whatever overlaps came before.
THEOREM UndisturbedWriteRepairsSafe == Spec => []UndisturbedWriteRepairs
<1>1. ASSUME ReviewInv, ~outdated PROVE AverageIsRight
  <2>. DEFINE live == {a \in Authors : stars[a] # 0} \ removed
  <2>1. average = Rounded(stars, removed) BY <1>1 DEF ReviewInv
  <2>2. live = Counted(stars, removed) BY DEF Counted
  <2>3. stars \in [Authors -> Ratings \cup {0}] /\ Ratings \cup {0} \subseteq 0..5
    BY <1>1, RatingsAreStars DEF ReviewInv, TypeOK
  <2>4. \A a \in Authors : stars[a] \in 0..5 BY <2>3
  <2>. QED BY <2>1, <2>2, <2>4, RoundedIsMean DEF AverageIsRight
<1>2. ReviewInv => UndisturbedWriteRepairs BY <1>1 DEF UndisturbedWriteRepairs
<1>. QED BY <1>2, ReviewInvariant, PTL

=============================================================================
