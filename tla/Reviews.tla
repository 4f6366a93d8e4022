------------------------------- MODULE Reviews ------------------------------
(***************************************************************************)
(* The reviews of ONE package and the average kept on its row              *)
(* (review.service.ts).  Every operation is one interactive transaction at *)
(* read committed: it sees its own writes and what others have committed,  *)
(* and it waits for a review row or the package row another transaction    *)
(* has written.                                                            *)
(***************************************************************************)
EXTENDS Integers, FiniteSets, FiniteSetsExt

CONSTANTS
    Authors,    \* customers with a COMPLETED booking of the package
    Ratings,    \* ratings they give
    Handlers    \* requests the server may be serving at the same time

ASSUME RatingsAreStars == Ratings \subseteq 1..5 /\ Ratings # {} /\ Authors # {}
ASSUME AuthorsAreFinite == IsFiniteSet(Authors)

VARIABLES
    listed,     \* the package is APPROVED and not deleted
    stars,      \* committed rating of each author's review, 0 for no row
    removed,    \* authors whose review is soft-deleted
    average,    \* TourPackage.rating, in tenths
    outdated,   \* history: another write committed between the aggregate and
                \* the commit of the last writer
    task        \* per handler: the transaction it runs

vars == <<listed, stars, removed, average, outdated, task>>

Kinds == {"create", "update", "delete"}
Labels == {"idle", "write", "commit"}

Tasks == [pc      : Labels,
          kind    : Kinds,
          author  : Authors,
          stars   : Ratings,
          average : 0..50,       \* aggregate of the transaction, rounded
          overlap : BOOLEAN]     \* history: somebody committed since

At(h, label) == task[h].pc = label
Become(h, t) == task' = [task EXCEPT ![h] = t]

\* No transaction: the other fields are blank.
IdleTask == [pc |-> "idle", kind |-> "create",
             author |-> CHOOSE a \in Authors : TRUE,
             stars |-> CHOOSE s \in Ratings : TRUE,
             average |-> 0, overlap |-> FALSE]
Done(h) == Become(h, IdleTask)

\* A transaction that has written the author's row holds its lock.
Locked(a) == \E h \in Handlers : At(h, "commit") /\ task[h].author = a

\* Mutant: a removed review still counts.
CountsAlways(given, gone) == {a \in Authors : given[a] # 0}

\* where: { packageId, isDeleted: false }
Counted(given, gone) == {a \in Authors : given[a] # 0 /\ a \notin gone}

Total(given, in) == MapThenSumSet(LAMBDA a : given[a], in)

\* Mutant: the aggregate adds up instead of averaging.
SumInstead(given, gone) == 10 * Total(given, Counted(given, gone))

\* recomputePackageRating: Math.round(avg * 10) / 10, in tenths; 0 without
\* reviews.
Rounded(given, gone) ==
    LET in  == Counted(given, gone)
        n   == Cardinality(in)
        sum == Total(given, in)
    IN  IF n = 0 THEN 0 ELSE (20 * sum + n) \div (2 * n)

Init ==
    /\ listed = TRUE
    /\ stars = [a \in Authors |-> 0]
    /\ removed = {}
    /\ average = 0
    /\ outdated = FALSE
    /\ task = [h \in Handlers |-> IdleTask]

-----------------------------------------------------------------------------

\* The reads that open the transaction.  createReview: listed package, no row
\* of this author, deleted or not; updateReview, deleteReview: a row that is
\* not deleted.
Check(h, kind, a, s) ==
    /\ At(h, "idle")
    /\ IF kind = "create" THEN listed /\ stars[a] = 0
                          ELSE stars[a] # 0 /\ a \notin removed
    /\ Become(h, [pc |-> "write", kind |-> kind, author |-> a, stars |-> s,
                  average |-> 0, overlap |-> FALSE])
    /\ UNCHANGED <<listed, stars, removed, average, outdated>>

\* What the transaction leaves of the review.
StarsAfter(t) == IF t.kind = "delete" THEN stars ELSE [stars EXCEPT ![t.author] = t.stars]
RemovedAfter(t) == IF t.kind = "delete" THEN removed \cup {t.author} ELSE removed

\* The write finds the row gone: the unique index refuses a second review of
\* the author, and deleteReview's updateMany matches no row.  Rolled back.
WriteRefused(h) ==
    /\ At(h, "write")
    /\ ~Locked(task[h].author)
    /\ \/ task[h].kind = "create" /\ stars[task[h].author] # 0
       \/ task[h].kind = "delete" /\ task[h].author \in removed
    /\ Done(h)
    /\ UNCHANGED <<listed, stars, removed, average, outdated>>

\* The write, not committed yet, and the aggregate over it and what the others
\* have committed by now.  updateReview writes by id, deleted or not.
WriteAndAggregate(h) ==
    LET t == task[h] IN
    /\ At(h, "write")
    /\ ~Locked(t.author)
    /\ t.kind = "create" => stars[t.author] = 0
    /\ t.kind = "delete" => t.author \notin removed
    /\ Become(h, [t EXCEPT !.pc = "commit",
                           !.average = Rounded(StarsAfter(t), RemovedAfter(t))])
    /\ UNCHANGED <<listed, stars, removed, average, outdated>>

\* The update of the package row waits for the others' and is followed by the
\* commit; the average it writes is the one computed before it waited.
Commit(h) ==
    LET t == task[h] IN
    /\ At(h, "commit")
    /\ stars' = StarsAfter(t)
    /\ removed' = RemovedAfter(t)
    /\ average' = t.average
    /\ outdated' = t.overlap
    /\ task' = [k \in Handlers |->
                  IF k = h THEN IdleTask
                  ELSE IF At(k, "commit") THEN [task[k] EXCEPT !.overlap = TRUE]
                  ELSE task[k]]
    /\ UNCHANGED listed

\* A failure rolls the transaction back.
Abort(h) ==
    /\ ~At(h, "idle")
    /\ Done(h)
    /\ UNCHANGED <<listed, stars, removed, average, outdated>>

\* An agent's edit takes the package off the list, an approval puts it back.
Relist ==
    /\ listed' = ~listed
    /\ UNCHANGED <<stars, removed, average, outdated, task>>

Next ==
    \/ \E h \in Handlers :
        \/ \E kind \in Kinds, a \in Authors, s \in Ratings : Check(h, kind, a, s)
        \/ WriteRefused(h) \/ WriteAndAggregate(h) \/ Commit(h) \/ Abort(h)
    \/ Relist

Spec == Init /\ [][Next]_vars

-----------------------------------------------------------------------------

\* Every column and every local has a value of its declaration.
TypeOK ==
    /\ listed \in BOOLEAN
    /\ stars \in [Authors -> Ratings \cup {0}]
    /\ removed \subseteq {a \in Authors : stars[a] # 0}
    /\ average \in 0..50
    /\ outdated \in BOOLEAN
    /\ task \in [Handlers -> Tasks]

\* The average on the row is the mean of the reviews that are not removed, to
\* the nearest tenth, halves up.
AverageIsRight ==
    LET live == {a \in Authors : stars[a] # 0} \ removed
        n    == Cardinality(live)
        sum  == Total(stars, live)
    IN  IF live = {} THEN average = 0
        ELSE 2 * (n * average - 10 * sum) \in (1 - n) .. n

\* recomputePackageRating: a write that nobody overlapped leaves the average of
\* exactly the reviews that are there, so it also repairs an average that an
\* earlier overlap had left wrong.
UndisturbedWriteRepairs == ~outdated => AverageIsRight

\* What both rest on: a review that is edited or removed has a row, and a
\* transaction that nobody overlapped has aggregated what it is about to leave.
ReviewInv ==
    /\ TypeOK
    /\ \A h \in Handlers :
         ~At(h, "idle") /\ task[h].kind # "create" => stars[task[h].author] # 0
    /\ \A h \in Handlers :
         At(h, "commit") /\ ~task[h].overlap =>
            task[h].average = Rounded(StarsAfter(task[h]), RemovedAfter(task[h]))
    /\ ~outdated => average = Rounded(stars, removed)

\* review.service.ts:188 "the client's displayed average is never stale",
\* review.service.ts:11 "the single source of truth for the package average":
\* with no write under way the average is that of the reviews.
AverageIsCurrent ==
    (\A h \in Handlers : At(h, "idle")) => AverageIsRight

=============================================================================
