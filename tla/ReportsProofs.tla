---------------------------- MODULE ReportsProofs ----------------------------
(***************************************************************************)
(* What BookingSlots and Reports keep, for any number of requests and      *)
(* bookings and every set of viewers and page sizes.  Reading changes no   *)
(* booking, so every behaviour of Reports is one of BookingSlots; on top   *)
(* of that a report's figures are off by the bookings that have changed at *)
(* most, and a walk leaves behind only rows it has listed.                 *)
(***************************************************************************)
EXTENDS Reports, FiniteSetTheorems, TLAPS

(* The bookings. *)

\* A request writes one new row, the row it found, and its own locals.
LEMMA RequestTyped ==
    ASSUME TypeOK, NEW h \in Handlers, Request(h)
    PROVE  TypeOK'
  <1> USE SlotBounds DEF TypeOK, Bookings, Existing, BookingStatus, None
  <1>1. CASE CreateRead(h)
    BY <1>1 DEF CreateRead, Become, Task
  <1>2. CASE FindNone(h)
    BY <1>2 DEF FindNone, Become, Task
  <1>3. CASE FindRecent(h)
    BY <1>3 DEF FindRecent, Become, Task, Idle
  <1>4. CASE FindAbandoned(h)
    BY <1>4 DEF FindAbandoned, Become, Task, Abandoned
  <1>5. CASE InsertBooking(h)
    BY <1>5 DEF InsertBooking, CancelFound, Become, Task, Idle
  <1>6. CASE Crash(h)
    BY <1>6 DEF Crash, Become, Task, Idle
  <1> QED
    BY <1>1, <1>2, <1>3, <1>4, <1>5, <1>6 DEF Request

\* What else happens to a booking moves an existing row on.
LEMMA EventTyped ==
    ASSUME TypeOK, NEW b \in Bookings,
           Age(b) \/ Pay(b) \/ Cancel(b) \/ Confirm(b) \/ Revert(b) \/ Complete(b)
    PROVE  TypeOK' /\ task' = task
  <1> USE DEF TypeOK, Existing, BookingStatus, None
  <1>1. CASE Age(b)
    BY <1>1 DEF Age
  <1>2. CASE Pay(b)
    BY <1>2 DEF Pay
  <1>3. CASE Cancel(b) \/ Confirm(b) \/ Complete(b)
    BY <1>3 DEF Cancel, Confirm, Complete, Moves
  <1>4. CASE Revert(b)
    BY <1>4 DEF Revert, Moves
  <1> QED
    BY <1>1, <1>2, <1>3, <1>4

\* Every step of the bookings keeps the types.
LEMMA SlotStepTyped == TypeOK /\ [Next]_vars => TypeOK'
  <1> SUFFICES ASSUME TypeOK, [Next]_vars PROVE TypeOK'
    OBVIOUS
  <1>1. CASE Relist
    BY <1>1 DEF Relist, TypeOK, Existing
  <1>2. CASE UNCHANGED vars
    BY <1>2 DEF vars, TypeOK, Existing
  <1> QED
    BY <1>1, <1>2, RequestTyped, EventTyped DEF Next

\* The types hold at the start.
LEMMA InitTyped == Init => TypeOK
  BY DEF Init, TypeOK, Existing, BookingStatus, Task, Idle, None

\* TypeOK: columns and locals of BookingSlots have values of their
\* declarations, and the booking a request is about to cancel is an abandoned
\* one.
THEOREM SlotsTypeSafe == Spec => []TypeOK
  BY InitTyped, SlotStepTyped, PTL DEF Spec

\* A request changes no booking made less than a day ago.
LEMMA RecentUntouched ==
    ASSUME TypeOK, [Next]_vars, NEW h \in Handlers, task'[h] # task[h],
           NEW b \in Existing \ stale
    PROVE  booking'[b] = booking[b]
  <1>1. b \in Bookings /\ b # 0 /\ booking[b] # None
    BY SlotBounds DEF Existing, Bookings
  <1>2. PICK k \in Handlers : Request(k)
    BY EventTyped DEF Next, Relist, vars
  <1>3. CASE InsertBooking(k)
    <2>1. task[k].found # b
      BY <1>1 DEF TypeOK
    <2> QED
      BY <1>1, <1>3, <2>1 DEF InsertBooking, CancelFound, Existing
  <1>4. CASE ~InsertBooking(k)
    BY <1>2, <1>4 DEF Request, CreateRead, FindNone, FindRecent, FindAbandoned, Crash
  <1> QED
    BY <1>3, <1>4

\* createBooking: no rebooking ever cancels an active checkout.
THEOREM RecentCheckoutSafe == Spec => RecentCheckoutSurvives
  <1>1. TypeOK /\ [Next]_vars =>
          [\A h \in Handlers :
             task'[h] # task[h] =>
               \A b \in Existing \ stale : booking'[b] = booking[b]]_vars
    BY RecentUntouched
  <1> QED
    BY <1>1, SlotsTypeSafe, PTL DEF Spec, RecentCheckoutSurvives

(* Reading changes nothing. *)

\* A step of Reports is a step of the bookings or leaves them alone.
LEMMA ReportsStepIsSlotStep == TypeOK /\ [ReportsNext]_everything => [Next]_vars
  <1> SUFFICES ASSUME TypeOK, [ReportsNext]_everything PROVE [Next]_vars
    OBVIOUS
  <1>1. CASE SlotStep
    BY <1>1 DEF SlotStep, Next
  <1>2. CASE DeletePackage
    <2>1. UNCHANGED <<booking, stale, paid, task>> /\ listed' = FALSE /\ "list" \in Ops
      BY <1>2 DEF DeletePackage
    <2>2. CASE listed = TRUE
      BY <2>1, <2>2 DEF Next, Relist
    <2>3. CASE listed = FALSE
      BY <2>1, <2>3 DEF vars
    <2> QED
      BY <2>2, <2>3 DEF TypeOK
  <1>3. CASE OpenDashboard \/ ReadBreakdown \/ ReadOwned \/ ReadFigure \/ ReadOn \/ CloseDashboard
    BY <1>3 DEF OpenDashboard, ReadBreakdown, ReadOwned, ReadFigure, ReadOn, CloseDashboard
  <1>4. CASE OpenList \/ NextPage \/ CloseList \/ Depart \/ \E b \in Bookings : Fade(b)
    BY <1>4 DEF OpenList, NextPage, CloseList, Depart, Fade
  <1>5. CASE UNCHANGED everything
    BY <1>5 DEF everything, vars
  <1> QED
    BY <1>1, <1>2, <1>3, <1>4, <1>5 DEF ReportsNext

\* Reports implements BookingSlots: what is read, by whom and when, shows in no
\* booking.
THEOREM ReadingChangesNothing == ReportsSpec => Spec /\ []TypeOK
  <1>1. ReportsInit => Init /\ TypeOK
    BY InitTyped DEF ReportsInit
  <1>2. TypeOK /\ [ReportsNext]_everything => TypeOK' /\ [Next]_vars
    BY ReportsStepIsSlotStep, SlotStepTyped
  <1> QED
    BY <1>1, <1>2, PTL DEF ReportsSpec, Spec

(* The figures of a report. *)

\* Sets of bookings are finite, and so are the bookings that have changed.
LEMMA Countable ==
    ASSUME NEW S \in SUBSET Bookings
    PROVE  IsFiniteSet(S) /\ Cardinality(S) \in Nat
  <1>1. IsFiniteSet(Bookings)
    BY SlotBounds, FS_Interval DEF Bookings
  <1>2. IsFiniteSet(S)
    BY <1>1, FS_Subset
  <1> QED BY <1>2, FS_CardinalityType

\* A part is not more than the whole.
LEMMA PartIsLess ==
    ASSUME NEW S \in SUBSET Bookings, NEW T \in SUBSET S
    PROVE  Cardinality(T) <= Cardinality(S)
  BY Countable, FS_Subset

\* Sets of bookings that have nothing in common are counted one by one.
LEMMA CountedApart ==
    ASSUME NEW S \in SUBSET Bookings, NEW T \in SUBSET Bookings, S \cap T = {}
    PROVE  Cardinality(S \cup T) = Cardinality(S) + Cardinality(T)
  <1>1. IsFiniteSet(S) /\ IsFiniteSet(T) /\ Cardinality(S) \in Nat /\ Cardinality(T) \in Nat
    BY Countable
  <1>2. Cardinality(S \cup T) = Cardinality(S) + Cardinality(T) - Cardinality(S \cap T)
    BY <1>1, FS_Union, Zenon
  <1>3. Cardinality(S \cap T) = 0
    BY FS_EmptySet
  <1> QED BY <1>1, <1>2, <1>3

\* The bookings of a set with one of the statuses.
LEMMA InStatusFacts ==
    ASSUME NEW S \in SUBSET Bookings, NEW A, NEW B
    PROVE  /\ InStatus(S, A) \in SUBSET S
           /\ InStatus(S, A) \in SUBSET Bookings
           /\ A \cap B = {} => Cardinality(InStatus(S, A \cup B)) =
                                 Cardinality(InStatus(S, A)) + Cardinality(InStatus(S, B))
  <1>1. \A T : InStatus(S, T) \in SUBSET S /\ InStatus(S, T) \in SUBSET Bookings
    BY DEF InStatus
  <1>2. ASSUME A \cap B = {}
        PROVE  Cardinality(InStatus(S, A \cup B)) =
                 Cardinality(InStatus(S, A)) + Cardinality(InStatus(S, B))
    <2>1. InStatus(S, A) \cap InStatus(S, B) = {}
      BY <1>2 DEF InStatus
    <2>2. InStatus(S, A \cup B) = InStatus(S, A) \cup InStatus(S, B)
      BY DEF InStatus
    <2> QED BY <1>1, <2>1, <2>2, CountedApart
  <1> QED BY <1>1, <1>2

\* The bookings of a set, one status at a time.
LEMMA StatusesAddUp ==
    ASSUME TypeOK, NEW S \in SUBSET Existing
    PROVE  LET counts == [s \in BookingStatus |-> Cardinality(InStatus(S, {s}))]
           IN  /\ Sum(counts) = Cardinality(S)
               /\ ToTravel(counts) = Cardinality(InStatus(S, {"PENDING", "PAID", "CONFIRMED"}))
  <1> DEFINE n(A) == Cardinality(InStatus(S, A))
             counts == [s \in BookingStatus |-> n({s})]
  <1>1. S \in SUBSET Bookings
    BY DEF Existing
  <1>2. \A A, B : A \cap B = {} => n(A \cup B) = n(A) + n(B)
    BY <1>1, InStatusFacts, Zenon
  <1>3. \A A : n(A) \in Nat
    BY <1>1, InStatusFacts, Countable
  <1>4. Cardinality(S) = n(BookingStatus)
    <2>1. S = InStatus(S, BookingStatus)
      BY DEF TypeOK, Existing, InStatus
    <2> QED BY <2>1
  <1>5. \A s \in BookingStatus : counts[s] = n({s})
    OBVIOUS
  <1> HIDE DEF n, counts
  <1>6. n({"PENDING", "PAID", "CONFIRMED"}) = n({"PENDING"}) + n({"PAID"}) + n({"CONFIRMED"})
    <2>1. /\ {"PENDING", "PAID", "CONFIRMED"} = {"PENDING"} \cup {"PAID", "CONFIRMED"}
          /\ {"PENDING"} \cap {"PAID", "CONFIRMED"} = {}
      OBVIOUS
    <2>2. {"PAID", "CONFIRMED"} = {"PAID"} \cup {"CONFIRMED"} /\ {"PAID"} \cap {"CONFIRMED"} = {}
      OBVIOUS
    <2>3. n({"PENDING", "PAID", "CONFIRMED"}) = n({"PENDING"}) + n({"PAID", "CONFIRMED"})
      BY <1>2, <2>1, Zenon
    <2>4. n({"PAID", "CONFIRMED"}) = n({"PAID"}) + n({"CONFIRMED"})
      BY <1>2, <2>2, Zenon
    <2> QED BY <1>3, <2>3, <2>4
  <1>7. n(BookingStatus) =
          n({"PENDING", "PAID", "CONFIRMED"}) + n({"COMPLETED"}) + n({"CANCELLED"})
    <2>1. /\ BookingStatus = {"PENDING", "PAID", "CONFIRMED"} \cup {"COMPLETED", "CANCELLED"}
          /\ {"PENDING", "PAID", "CONFIRMED"} \cap {"COMPLETED", "CANCELLED"} = {}
      BY DEF BookingStatus
    <2>2. /\ {"COMPLETED", "CANCELLED"} = {"COMPLETED"} \cup {"CANCELLED"}
          /\ {"COMPLETED"} \cap {"CANCELLED"} = {}
      OBVIOUS
    <2>3. n(BookingStatus) =
            n({"PENDING", "PAID", "CONFIRMED"}) + n({"COMPLETED", "CANCELLED"})
      BY <1>2, <2>1, Zenon
    <2>4. n({"COMPLETED", "CANCELLED"}) = n({"COMPLETED"}) + n({"CANCELLED"})
      BY <1>2, <2>2, Zenon
    <2> QED BY <1>3, <2>3, <2>4
  <1>8. Sum(counts) = n(BookingStatus) /\ ToTravel(counts) = n({"PENDING", "PAID", "CONFIRMED"})
    BY <1>3, <1>5, <1>6, <1>7 DEF Sum, ToTravel, BookingStatus
  <1> QED BY <1>4, <1>8 DEF n, counts

(* Counts that are near. *)

\* A count made now is near.
LEMMA NowIsNear ==
    ASSUME NEW S \in SUBSET Bookings, moved \in SUBSET Bookings
    PROVE  Near(Cardinality(S), S)
  <1>1. S \ moved \in SUBSET S /\ S \in SUBSET (S \cup moved) /\ S \cup moved \in SUBSET Bookings
    OBVIOUS
  <1> QED BY <1>1, PartIsLess DEF Near

\* It is near whatever differs only in bookings that have changed,
LEMMA NearOutside ==
    ASSUME NEW S \in SUBSET Bookings, NEW T \in SUBSET Bookings,
           S \ moved = T \ moved, NEW n, Near(n, S)
    PROVE  Near(n, T)
  <1>1. S \cup moved = T \cup moved
    OBVIOUS
  <1> QED BY <1>1 DEF Near

\* and stays so as long as what changes is counted as changed.
LEMMA NearStays ==
    ASSUME NEW S \in SUBSET Bookings, NEW T \in SUBSET Bookings,
           NEW D \in SUBSET Bookings, NEW E \in SUBSET Bookings,
           D \subseteq E, T \ E = S \ E, NEW n \in Int,
           Cardinality(S \ D) <= n, n <= Cardinality(S \cup D)
    PROVE  Cardinality(T \ E) <= n /\ n <= Cardinality(T \cup E)
  <1>1. T \ E \in SUBSET (S \ D) /\ S \ D \in SUBSET Bookings
    OBVIOUS
  <1>2. S \cup D \in SUBSET (T \cup E) /\ T \cup E \in SUBSET Bookings
    OBVIOUS
  <1>3. Cardinality(T \ E) <= Cardinality(S \ D) /\ Cardinality(S \cup D) <= Cardinality(T \cup E)
    BY <1>1, <1>2, PartIsLess
  <1>4. \A Q \in SUBSET Bookings : Cardinality(Q) \in Nat
    BY Countable
  <1>5. /\ Cardinality(T \ E) \in Nat /\ Cardinality(S \ D) \in Nat
        /\ Cardinality(T \cup E) \in Nat /\ Cardinality(S \cup D) \in Nat
    BY <1>1, <1>2, <1>4
  <1> QED BY <1>3, <1>5

\* Two counts of the same bookings are no further apart than what has changed.
LEMMA BothNear ==
    ASSUME NEW S \in SUBSET Bookings, moved \in SUBSET Bookings,
           NEW m \in Int, NEW n \in Int, Near(m, S), Near(n, S)
    PROVE  Apart(m, n)
  <1>1. S \cup moved = (S \ moved) \cup moved /\ (S \ moved) \cap moved = {}
        /\ S \ moved \in SUBSET Bookings
    OBVIOUS
  <1>2. Cardinality(S \cup moved) = Cardinality(S \ moved) + Cardinality(moved)
    BY <1>1, CountedApart
  <1>3. Cardinality(S \ moved) \in Nat /\ Cardinality(moved) \in Nat
    BY <1>1, Countable
  <1> QED BY <1>2, <1>3 DEF Near, Apart

\* What a count leaves out and has not changed is made up for.
LEMMA NearWithout ==
    ASSUME NEW S \in SUBSET Bookings, moved \in SUBSET Bookings, NEW F \in SUBSET S,
           NEW n \in Int, Near(n, S \ F)
    PROVE  Near(n + Cardinality(F \ moved), S)
  <1> DEFINE rest == S \ F
             left == F \ moved
  <1>1. /\ rest \ moved \in SUBSET Bookings /\ left \in SUBSET Bookings
        /\ rest \cup moved \in SUBSET Bookings
    OBVIOUS
  <1>2. S \ moved = (rest \ moved) \cup left /\ (rest \ moved) \cap left = {}
    OBVIOUS
  <1>3. S \cup moved = (rest \cup moved) \cup left /\ (rest \cup moved) \cap left = {}
    OBVIOUS
  <1>4. Cardinality(rest \ moved) <= n /\ n <= Cardinality(rest \cup moved)
    BY DEF Near
  <1> HIDE DEF rest, left
  <1>5. /\ Cardinality(S \ moved) = Cardinality(rest \ moved) + Cardinality(left)
        /\ Cardinality(S \cup moved) = Cardinality(rest \cup moved) + Cardinality(left)
    BY <1>1, <1>2, <1>3, CountedApart
  <1>6. /\ Cardinality(rest \ moved) \in Nat /\ Cardinality(left) \in Nat
        /\ Cardinality(rest \cup moved) \in Nat
    BY <1>1, Countable
  <1>7. /\ Cardinality(S \ moved) <= n + Cardinality(left)
        /\ n + Cardinality(left) <= Cardinality(S \cup moved)
    BY <1>4, <1>5, <1>6
  <1> QED BY <1>7 DEF Near, left

\* What is selected are bookings.
LEMMA PicksAreBookings ==
    /\ Existing \in SUBSET Bookings /\ Scope \in SUBSET Existing /\ Counted \in SUBSET Existing
    /\ \A f \in {"total", "revenue", "trend", "upcoming"} : Picked(f) \in SUBSET Bookings
  <1>1. /\ Existing \in SUBSET Bookings
        /\ Scope \in SUBSET Existing /\ Counted \in SUBSET Existing /\ Upcoming \in SUBSET Existing
    BY DEF Existing, Scope, Counted, Upcoming, ShortCircuit
  <1> QED BY <1>1 DEF Picked, InStatus

\* What is not counted for an agent whose packages nobody has booked.
LEMMA RivalReadsZero ==
    ASSUME report.who = "rival"
    PROVE  /\ \A f \in {"total", "revenue", "trend"} : Cardinality(Picked(f)) = 0
           /\ \A A : Cardinality(InStatus(Scope, A)) = 0
  <1>1. Scope = {} /\ Counted = {}
    BY DEF Scope, Counted, ShortCircuit
  <1>2. \A f \in {"total", "revenue", "trend"} : Picked(f) = {}
    BY <1>1 DEF Picked, InStatus
  <1>3. \A A : InStatus(Scope, A) = {}
    BY <1>1 DEF InStatus
  <1> QED BY <1>2, <1>3, FS_EmptySet

(* The steps of a report. *)

\* A new report has read nothing.
LEMMA OpenKeeps == TypeOK /\ ReportInv /\ OpenDashboard => ReportInv'
  <1> SUFFICES ASSUME TypeOK, ReportInv, OpenDashboard PROVE ReportInv'
    OBVIOUS
  <1> USE DEF ReportInv
  <1>1. PICK who \in Viewers :
          report' = IF who \in {"agent", "rival"}
                     THEN Report("first", who, {"owned", "byStatus"})
                     ELSE Report("read", who, {"total", "revenue", "trend", "byStatus"} \cup
                                              IF who = "user" THEN {"upcoming"} ELSE {})
    BY DEF OpenDashboard
  <1>2. report'.who = who /\ UNCHANGED <<booking, faded, moved>>
    BY <1>1 DEF OpenDashboard, Report, vars
  <1>3. ReportTyped'
    BY <1>1, <1>2 DEF ReportTyped, Statements, Report, Figures, Unread, InStatus, Existing,
                      OpenDashboard, NobodyReads
  <1>4. AsRead'
    BY <1>1, <1>2 DEF AsRead, Statements, Report
  <1>5. OwnedAsRead'
    BY <1>1, <1>2 DEF OwnedAsRead, Report
  <1>6. NothingOfOthers'
    BY <1>1, <1>2 DEF NothingOfOthers, Report, Figures, BookingStatus, Unread
  <1> QED BY <1>3, <1>4, <1>5, <1>6

\* The breakdown by status.
LEMMA BreakdownKeeps == TypeOK /\ ReportInv /\ ReadBreakdown => ReportInv'
  <1> SUFFICES ASSUME TypeOK, ReportInv, ReadBreakdown PROVE ReportInv'
    OBVIOUS
  <1> USE DEF ReportInv
  <1> DEFINE c == [s \in BookingStatus |-> Cardinality(InStatus(Scope, {s}))]
  <1>1. /\ report' = [report EXCEPT !.todo = @ \ {"byStatus"}, !.counts = c]
        /\ UNCHANGED <<booking, deleted, departed, faded, moved>>
        /\ "byStatus" \in report.todo
    BY DEF ReadBreakdown, vars
  <1>2. Scope \in SUBSET Bookings /\ moved \in SUBSET Bookings /\ Scope \in SUBSET Existing
    BY PicksAreBookings DEF ReportTyped
  <1>3. \A A : InStatus(Scope, A) \in SUBSET Bookings
    BY <1>2 DEF InStatus
  <1>4. c \in [BookingStatus -> Int]
    BY <1>3, Countable
  <1>5. report.who = "rival" => \A s \in BookingStatus : c[s] = 0
    BY RivalReadsZero
  <1>6. /\ Sum(c) = Cardinality(Scope)
        /\ ToTravel(c) = Cardinality(InStatus(Scope, {"PENDING", "PAID", "CONFIRMED"}))
        /\ c["COMPLETED"] = Cardinality(InStatus(Scope, {"COMPLETED"}))
    BY <1>2, StatusesAddUp DEF BookingStatus
  <1> HIDE DEF c
  <1>7. /\ report'.pc = report.pc /\ report'.who = report.who /\ report'.fig = report.fig
        /\ report'.todo = report.todo \ {"byStatus"} /\ report'.counts = c
    BY <1>1 DEF ReportTyped
  <1>8. ReportTyped'
    BY <1>1, <1>4, <1>7 DEF ReportTyped, Statements, InStatus, Existing
  <1>9. AsRead'
    <2>1. /\ Scope' = Scope /\ Statements' = Statements
          /\ \A f \in Statements \ {"owned"} : Picked(f)' = Picked(f)
      BY <1>1, <1>7 DEF Scope, Existing, Picked, Counted, ShortCircuit, Upcoming, InStatus, Statements
    <2>2. \A A : InStatus(Scope, A)' = InStatus(Scope, A)
      BY <1>1, <2>1 DEF InStatus
    <2>3. /\ Near(Sum(c), Scope)
          /\ Near(c["COMPLETED"], InStatus(Scope, {"COMPLETED"}))
          /\ Near(ToTravel(c), InStatus(Scope, {"PENDING", "PAID", "CONFIRMED"}))
      BY <1>2, <1>3, <1>6, NowIsNear
    <2>4. ASSUME report.pc # "idle", NEW f \in Statements \ ({"owned"} \cup report.todo),
                 f = "upcoming" => ~departed
          PROVE  Near(report.fig[f], Picked(f))
      BY <2>4 DEF AsRead
    <2>5. "byStatus" \notin Statements
      BY DEF Statements
    <2> QED BY <1>1, <1>7, <2>1, <2>2, <2>3, <2>4, <2>5 DEF AsRead, Near
  <1>10. OwnedAsRead' /\ NothingOfOthers'
    BY <1>1, <1>5, <1>7 DEF OwnedAsRead, NothingOfOthers, ReportTyped, Existing
  <1> QED BY <1>8, <1>9, <1>10

\* The agent's package ids, while nothing else but the breakdown is read.
LEMMA OwnedKeeps == TypeOK /\ ReportInv /\ ReadOwned => ReportInv'
  <1> SUFFICES ASSUME TypeOK, ReportInv, ReadOwned PROVE ReportInv'
    OBVIOUS
  <1> USE DEF ReportInv
  <1>1. PICK n \in Owned :
          report' = [report EXCEPT !.todo = @ \ {"owned"}, !.fig["owned"] = n]
    BY DEF ReadOwned
  <1>2. UNCHANGED <<booking, deleted, departed, faded, moved>> /\ report.pc = "first"
    BY DEF ReadOwned, vars, ReportTyped
  <1>3. n \in Int /\ (report.who = "agent" => n = IF deleted THEN 0 ELSE 1)
    BY DEF Owned
  <1>4. /\ report'.pc = report.pc /\ report'.who = report.who
        /\ report'.counts = report.counts /\ report'.todo = report.todo \ {"owned"}
        /\ report'.fig = [report.fig EXCEPT !["owned"] = n]
        /\ report'.fig["owned"] = n
        /\ \A f \in Figures \ {"owned"} : report'.fig[f] = report.fig[f]
    BY <1>1 DEF ReportTyped, Figures
  <1>5. ReportTyped'
    <2>1. report' \in [pc : {"idle", "first", "read"}, who : Viewers \cup {None},
                       todo : SUBSET (Figures \cup {"byStatus"}),
                       fig : [Figures -> Int], counts : [BookingStatus -> Int]]
      BY <1>1, <1>3 DEF ReportTyped
    <2> QED BY <1>2, <1>4, <2>1 DEF ReportTyped, Statements, InStatus, Existing
  <1>6. AsRead'
    <2>1. Scope' = Scope /\ Statements' = {"owned"}
      BY <1>2, <1>4 DEF Scope, Existing, Statements
    <2>2. \A A : InStatus(Scope, A)' = InStatus(Scope, A)
      BY <1>2, <2>1 DEF InStatus
    <2> QED BY <1>2, <1>4, <2>1, <2>2 DEF AsRead, Near
  <1>7. OwnedAsRead' /\ NothingOfOthers'
    BY <1>2, <1>3, <1>4 DEF OwnedAsRead, NothingOfOthers
  <1> QED BY <1>5, <1>6, <1>7

\* One more figure.
LEMMA FigureKeeps == TypeOK /\ ReportInv /\ ReadFigure => ReportInv'
  <1> SUFFICES ASSUME TypeOK, ReportInv, ReadFigure PROVE ReportInv'
    OBVIOUS
  <1> USE DEF ReportInv
  <1> DEFINE count(f) == Cardinality(Picked(f))
  <1>1. PICK f \in report.todo \ {"owned", "byStatus"} :
          report' = [report EXCEPT !.todo = @ \ {f}, !.fig[f] = count(f)]
    BY DEF ReadFigure
  <1>2. UNCHANGED <<booking, deleted, departed, faded, moved>>
    BY DEF ReadFigure, vars
  <1>3. f \in Figures \ {"owned"} /\ f \in Statements /\ report.pc = "read"
    BY DEF ReportTyped, Statements
  <1>4. Picked(f) \in SUBSET Bookings /\ moved \in SUBSET Bookings
    BY <1>3, PicksAreBookings DEF Figures, ReportTyped
  <1>5. count(f) \in Int /\ Near(count(f), Picked(f))
    BY <1>4, Countable, NowIsNear
  <1>6. report.who = "rival" => count(f) = 0
    BY <1>3, RivalReadsZero DEF Statements
  <1> HIDE DEF count
  <1>7. /\ report'.pc = report.pc /\ report'.who = report.who
        /\ report'.counts = report.counts /\ report'.todo = report.todo \ {f}
        /\ report'.fig = [report.fig EXCEPT ![f] = count(f)]
        /\ \A g \in Figures : report'.fig[g] = IF g = f THEN count(f) ELSE report.fig[g]
    BY <1>1, <1>3 DEF ReportTyped
  <1>8. ReportTyped'
    <2>1. report' \in [pc : {"idle", "first", "read"}, who : Viewers \cup {None},
                       todo : SUBSET (Figures \cup {"byStatus"}),
                       fig : [Figures -> Int], counts : [BookingStatus -> Int]]
      BY <1>1, <1>3, <1>5 DEF ReportTyped
    <2> QED BY <1>2, <1>7, <2>1 DEF ReportTyped, Statements, InStatus, Existing
  <1>9. AsRead'
    <2>1. report'.fig["owned"] = report.fig["owned"]
      BY <1>3, <1>7 DEF Figures
    <2>2. /\ Scope' = Scope /\ Statements' = Statements /\ Statements \subseteq Figures
          /\ \A g \in Statements \ {"owned"} : Picked(g)' = Picked(g)
      BY <1>2, <1>7, <2>1
      DEF Scope, Existing, Picked, Counted, ShortCircuit, Upcoming, InStatus, Statements, Figures
    <2>3. \A A : InStatus(Scope, A)' = InStatus(Scope, A)
      BY <1>2, <2>2 DEF InStatus
    <2>4. ASSUME NEW g \in Statements \ ({"owned"} \cup report.todo), g = "upcoming" => ~departed
          PROVE  Near(report.fig[g], Picked(g))
      BY <1>3, <2>4 DEF AsRead
    <2>5. ASSUME NEW g \in Statements' \ ({"owned"} \cup report'.todo),
                 g = "upcoming" => ~departed'
          PROVE  Near(report.fig[g], Picked(g))'
      <3>1. CASE g = f
        BY <1>2, <1>5, <1>7, <2>2, <2>5, <3>1 DEF Near
      <3>2. CASE g # f
        BY <1>2, <1>7, <2>2, <2>4, <2>5, <3>2 DEF Near
      <3> QED BY <3>1, <3>2
    <2>6. "byStatus" \notin report'.todo =>
            /\ Near(Sum(report.counts), Scope)'
            /\ Near(report.counts["COMPLETED"], InStatus(Scope, {"COMPLETED"}))'
            /\ Near(ToTravel(report.counts),
                    InStatus(Scope, {"PENDING", "PAID", "CONFIRMED"}))'
      BY <1>1, <1>2, <1>3, <1>7, <2>2, <2>3 DEF AsRead, Near
    <2> QED BY <2>5, <2>6 DEF AsRead
  <1>10. OwnedAsRead'
    BY <1>2, <1>3, <1>7 DEF OwnedAsRead, Existing, Figures
  <1>11. NothingOfOthers'
    BY <1>6, <1>7 DEF NothingOfOthers
  <1> QED BY <1>8, <1>9, <1>10, <1>11

\* The agent's package ids are there, or the answer goes out.
LEMMA ReadOnKeeps == TypeOK /\ ReportInv /\ (ReadOn \/ CloseDashboard) => ReportInv'
  <1> SUFFICES ASSUME TypeOK, ReportInv, ReadOn \/ CloseDashboard PROVE ReportInv'
    OBVIOUS
  <1> USE DEF ReportInv
  <1>1. CASE ReadOn
    <2>1. /\ report' = [report EXCEPT !.pc = "read", !.todo = {"total", "revenue", "trend"}]
          /\ UNCHANGED <<booking, deleted, departed, faded, moved>>
          /\ report.pc = "first" /\ report.todo = {}
      BY <1>1 DEF ReadOn, vars
    <2>2. /\ report'.pc = "read" /\ report'.who = report.who
          /\ report'.counts = report.counts /\ report'.fig = report.fig
          /\ report'.todo = {"total", "revenue", "trend"}
      BY <2>1 DEF ReportTyped
    <2>3. ReportTyped'
      BY <2>1, <2>2 DEF ReportTyped, Statements, Figures, InStatus, Existing
    <2>4. AsRead'
      <3>1. Scope' = Scope
        BY <2>1, <2>2 DEF Scope, Existing
      <3>2. \A A : InStatus(Scope, A)' = InStatus(Scope, A)
        BY <2>1, <3>1 DEF InStatus
      <3>3. Statements' \ ({"owned"} \cup report'.todo) = {}
        BY <2>1, <2>2 DEF Statements, ReportTyped
      <3> QED BY <2>1, <2>2, <3>1, <3>2, <3>3 DEF AsRead, Near
    <2>5. OwnedAsRead' /\ NothingOfOthers'
      BY <2>1, <2>2 DEF OwnedAsRead, NothingOfOthers, Existing
    <2> QED BY <2>3, <2>4, <2>5
  <1>2. CASE CloseDashboard
    <2>1. report' = NoReport /\ moved' = {} /\ faded' = faded /\ booking' = booking
      BY <1>2 DEF CloseDashboard, vars
    <2>2. ReportTyped'
      BY <2>1
      DEF ReportTyped, NoReport, Report, Statements, Figures, Unread, InStatus, Existing
    <2>3. AsRead' /\ OwnedAsRead' /\ NothingOfOthers'
      BY <2>1 DEF AsRead, OwnedAsRead, NothingOfOthers, NoReport, Report, None
    <2> QED BY <2>2, <2>3
  <1> QED BY <1>1, <1>2

(* The steps of the others. *)

\* A booking that exists goes on existing.
LEMMA BookingsStay ==
    ASSUME TypeOK, [Next]_vars
    PROVE  Existing \subseteq Existing'
  <1>1. ASSUME NEW h \in Handlers, Request(h) PROVE Existing \subseteq Existing'
    <2>1. CASE InsertBooking(h)
      <3>1. PICK new \in Bookings \ Existing :
              booking' = [b \in Bookings |-> IF b = new THEN "PENDING" ELSE CancelFound(h, b)]
        BY <2>1 DEF InsertBooking
      <3> QED BY <3>1 DEF CancelFound, Existing, None
    <2>2. CASE ~InsertBooking(h)
      BY <1>1, <2>2
      DEF Request, CreateRead, FindNone, FindRecent, FindAbandoned, Crash, Existing
    <2> QED BY <2>1, <2>2
  <1>2. ASSUME NEW b \in Bookings,
               Age(b) \/ Pay(b) \/ Cancel(b) \/ Confirm(b) \/ Revert(b) \/ Complete(b)
        PROVE  Existing \subseteq Existing'
    BY <1>2 DEF Age, Pay, Cancel, Confirm, Revert, Complete, Moves, TypeOK, Existing, None
  <1>3. CASE Relist \/ UNCHANGED vars
    BY <1>3 DEF Relist, vars, Existing
  <1> QED BY <1>1, <1>2, <1>3 DEF Next

\* A step of somebody else counts as changed whatever it changes for the report.
Noticed ==
    /\ report' = report
    /\ faded' \subseteq InStatus(Existing, {"COMPLETED"})'
    /\ moved' \subseteq Existing'
    /\ report.pc = "idle" => moved' = {}
    /\ report.pc # "idle" =>
         /\ moved \subseteq moved'
         /\ \A b \in Bookings \ moved' : booking'[b] = booking[b] /\ (b \in faded' <=> b \in faded)
    /\ deleted => deleted'
    /\ departed => departed'
    /\ report.who = "agent" /\ ~deleted /\ deleted' => Existing' \subseteq moved'

\* Outside of what has changed the same bookings are selected.
LEMMA SameOutside ==
    ASSUME Noticed, report.pc # "idle"
    PROVE  /\ Scope' \ moved' = Scope \ moved'
           /\ \A A : InStatus(Scope, A)' \ moved' = InStatus(Scope, A) \ moved'
           /\ \A f \in {"total", "revenue", "trend"} : Picked(f)' \ moved' = Picked(f) \ moved'
           /\ ~departed' => Picked("upcoming")' \ moved' = Picked("upcoming") \ moved'
  <1>1. Existing' \ moved' = Existing \ moved'
    BY DEF Noticed, Existing
  <1>2. Scope' \ moved' = Scope \ moved'
    BY <1>1 DEF Noticed, Scope
  <1>3. Counted' \ moved' = Counted \ moved'
    BY <1>1 DEF Noticed, Counted, ShortCircuit
  <1>4. ~departed' => Upcoming' \ moved' = Upcoming \ moved'
    BY <1>1 DEF Noticed, Upcoming
  <1>5. ASSUME NEW A PROVE InStatus(Scope, A)' \ moved' = InStatus(Scope, A) \ moved'
    BY <1>2, PicksAreBookings DEF Noticed, InStatus, Scope, Existing
  <1>6. ASSUME NEW A PROVE InStatus(Counted, A)' \ moved' = InStatus(Counted, A) \ moved'
    BY <1>3 DEF Noticed, InStatus, Counted, ShortCircuit, Existing
  <1>7. ASSUME NEW A, ~departed'
        PROVE  InStatus(Upcoming, A)' \ moved' = InStatus(Upcoming, A) \ moved'
    BY <1>4, <1>7 DEF Noticed, InStatus, Upcoming, Existing
  <1>8. Picked("trend")' \ moved' = Picked("trend") \ moved'
    BY <1>5 DEF Noticed, Picked, InStatus, Scope, Existing
  <1> QED BY <1>2, <1>3, <1>5, <1>6, <1>7, <1>8 DEF Picked

\* So the report's invariant stays.
LEMMA ReportBystands == TypeOK /\ ReportInv /\ Noticed => ReportInv'
  <1> SUFFICES ASSUME TypeOK, ReportInv, Noticed PROVE ReportInv'
    OBVIOUS
  <1> USE DEF ReportInv
  <1>1. ReportTyped'
    BY DEF ReportTyped, Statements, Noticed
  <1>2. NothingOfOthers'
    BY DEF NothingOfOthers, Noticed
  <1>3. OwnedAsRead'
    <2> SUFFICES ASSUME report.who = "agent", "owned" \notin report.todo
                 PROVE  \/ report.fig["owned"] = 0 /\ deleted'
                        \/ report.fig["owned"] = 1 /\ (deleted' => Existing' \subseteq moved')
      BY DEF OwnedAsRead, Noticed
    <2>1. report.pc # "idle"
      BY DEF ReportTyped, None
    <2>2. CASE report.fig["owned"] = 0 /\ deleted
      BY <2>2 DEF Noticed
    <2>3. CASE report.fig["owned"] = 1 /\ (deleted => Existing \subseteq moved)
      BY <2>1, <2>3 DEF Noticed, Existing
    <2> QED BY <2>2, <2>3 DEF OwnedAsRead
  <1>4. AsRead'
    <2> SUFFICES ASSUME report.pc # "idle" PROVE AsRead'
      BY DEF AsRead, Noticed
    <2>1. /\ moved \in SUBSET Bookings /\ moved' \in SUBSET Bookings /\ moved \subseteq moved'
          /\ Statements' = Statements /\ report' = report
      BY DEF ReportTyped, Noticed, Existing, Statements
    <2>2. /\ Scope \in SUBSET Bookings /\ Scope' \in SUBSET Bookings
          /\ \A A : InStatus(Scope, A) \in SUBSET Bookings
          /\ \A A : InStatus(Scope, A)' \in SUBSET Bookings
      BY DEF Scope, Existing, InStatus
    <2>3. ASSUME NEW f \in Statements \ ({"owned"} \cup report.todo), f = "upcoming" => ~departed'
          PROVE  Near(report.fig[f], Picked(f))'
      <3>1. Near(report.fig[f], Picked(f)) /\ report.fig[f] \in Int
        BY <2>3 DEF AsRead, Noticed, ReportTyped, Statements, Figures
      <3>2. Picked(f) \in SUBSET Bookings /\ Picked(f)' \in SUBSET Bookings
        BY <2>3
        DEF Picked, Counted, ShortCircuit, Scope, Upcoming, InStatus, Existing, Statements
      <3>3. Picked(f)' \ moved' = Picked(f) \ moved'
        BY <2>3, SameOutside DEF Statements
      <3> QED BY <2>1, <3>1, <3>2, <3>3, NearStays DEF Near
    <2>4. ASSUME "byStatus" \notin report.todo
          PROVE  /\ Near(Sum(report.counts), Scope)'
                 /\ Near(report.counts["COMPLETED"], InStatus(Scope, {"COMPLETED"}))'
                 /\ Near(ToTravel(report.counts),
                         InStatus(Scope, {"PENDING", "PAID", "CONFIRMED"}))'
      <3>1. /\ Near(Sum(report.counts), Scope)
            /\ Near(report.counts["COMPLETED"], InStatus(Scope, {"COMPLETED"}))
            /\ Near(ToTravel(report.counts), InStatus(Scope, {"PENDING", "PAID", "CONFIRMED"}))
        BY <2>4 DEF AsRead
      <3>2. /\ Sum(report.counts) \in Int /\ report.counts["COMPLETED"] \in Int
            /\ ToTravel(report.counts) \in Int
        BY DEF ReportTyped, Sum, ToTravel, BookingStatus
      <3>3. Near(Sum(report.counts), Scope)'
        BY <2>1, <2>2, <3>1, <3>2, SameOutside, NearStays DEF Near
      <3>4. ASSUME NEW A, NEW n \in Int, Near(n, InStatus(Scope, A))
            PROVE  /\ Cardinality(InStatus(Scope, A)' \ moved') <= n
                   /\ n <= Cardinality(InStatus(Scope, A)' \cup moved')
        <4>1. /\ InStatus(Scope, A) \in SUBSET Bookings /\ InStatus(Scope, A)' \in SUBSET Bookings
              /\ InStatus(Scope, A)' \ moved' = InStatus(Scope, A) \ moved'
          BY <2>2, SameOutside
        <4> QED BY <2>1, <3>4, <4>1, NearStays DEF Near
      <3>5. Near(report.counts["COMPLETED"], InStatus(Scope, {"COMPLETED"}))'
        BY <2>1, <3>1, <3>2, <3>4 DEF Near
      <3>6. Near(ToTravel(report.counts), InStatus(Scope, {"PENDING", "PAID", "CONFIRMED"}))'
        <4>1. ToTravel(report.counts)' = ToTravel(report.counts)
          BY <2>1 DEF ToTravel
        <4> QED BY <3>1, <3>2, <3>4, <4>1 DEF Near
      <3> QED BY <3>3, <3>5, <3>6
    <2> QED BY <2>1, <2>3, <2>4 DEF AsRead
  <1> QED BY <1>1, <1>2, <1>3, <1>4

\* Nobody else touches the report, and every step of theirs is noticed.
LEMMA OthersAreNoticed ==
    ASSUME TypeOK, ReportInv,
           \/ SlotStep \/ DeletePackage \/ Depart \/ \E b \in Bookings : Fade(b)
           \/ OpenList \/ NextPage \/ CloseList \/ UNCHANGED everything
    PROVE  Noticed
  <1> USE DEF ReportInv
  <1>0. /\ faded \subseteq InStatus(Existing, {"COMPLETED"}) /\ moved \subseteq Existing
        /\ report.pc = "idle" => moved = {}
    BY DEF ReportTyped
  <1>1. CASE SlotStep
    <2>1. Existing \subseteq Existing'
      BY <1>1, ReportsStepIsSlotStep, BookingsStay DEF ReportsNext
    <2>2. /\ report' = report /\ deleted' = deleted /\ departed' = departed
          /\ faded' = {b \in faded : booking'[b] = booking[b]}
          /\ moved' = IF report.pc = "idle" THEN {}
                      ELSE moved \cup {b \in Bookings : booking'[b] # booking[b]}
      BY <1>1 DEF SlotStep, Change
    <2>3. \A b \in Bookings : booking'[b] # booking[b] => b \in Existing'
      BY <2>1 DEF Existing
    <2>4. faded' \subseteq InStatus(Existing, {"COMPLETED"})'
      BY <1>0, <2>1, <2>2 DEF InStatus
    <2> QED BY <1>0, <2>1, <2>2, <2>3, <2>4 DEF Noticed
  <1>2. CASE DeletePackage
    <2>1. report.pc = "idle" => report.who # "agent"
      BY DEF ReportTyped, None
    <2>2. /\ report' = report /\ booking' = booking /\ faded' = faded /\ deleted'
          /\ departed' = departed
          /\ moved' = IF report.pc = "idle" THEN {}
                      ELSE moved \cup (IF report.who = "agent" THEN Existing ELSE {})
      BY <1>2 DEF DeletePackage, Change
    <2>3. Existing' = Existing /\ InStatus(Existing, {"COMPLETED"})' = InStatus(Existing, {"COMPLETED"})
      BY <2>2 DEF Existing, InStatus
    <2> QED BY <1>0, <2>1, <2>2, <2>3 DEF Noticed
  <1>3. CASE Depart \/ OpenList \/ NextPage \/ CloseList \/ UNCHANGED everything
    BY <1>0, <1>3
    DEF Depart, OpenList, NextPage, CloseList, everything, reportVars, vars, Noticed, InStatus,
        Existing
  <1>4. ASSUME NEW b \in Bookings, Fade(b) PROVE Noticed
    <2>1. b \in Existing
      BY <1>4 DEF Fade, Existing, None
    <2> QED
      BY <1>0, <1>4, <2>1 DEF Fade, Change, Noticed, InStatus, Existing, vars
  <1> QED BY <1>1, <1>2, <1>3, <1>4

\* ReportInv is inductive.
LEMMA ReportInvInductive ==
    /\ ReportsInit => ReportInv
    /\ TypeOK /\ ReportInv /\ [ReportsNext]_everything => ReportInv'
  <1>1. ASSUME ReportsInit PROVE ReportInv
    <2>1. report = NoReport /\ faded = {} /\ moved = {}
      BY <1>1 DEF ReportsInit
    <2>2. ReportTyped
      BY <2>1 DEF ReportTyped, NoReport, Report, Statements, Figures, Unread
    <2>3. AsRead /\ OwnedAsRead /\ NothingOfOthers
      BY <2>1 DEF AsRead, OwnedAsRead, NothingOfOthers, NoReport, Report, None
    <2> QED BY <2>2, <2>3 DEF ReportInv
  <1>2. ASSUME TypeOK, ReportInv, [ReportsNext]_everything PROVE ReportInv'
    <2>1. CASE OpenDashboard \/ ReadBreakdown \/ ReadOwned \/ ReadFigure \/ ReadOn \/ CloseDashboard
      BY <1>2, <2>1, OpenKeeps, BreakdownKeeps, OwnedKeeps, FigureKeeps, ReadOnKeeps
    <2>2. CASE ~(OpenDashboard \/ ReadBreakdown \/ ReadOwned \/ ReadFigure \/ ReadOn
                   \/ CloseDashboard)
      BY <1>2, <2>2, OthersAreNoticed, ReportBystands DEF ReportsNext
    <2> QED BY <2>1, <2>2
  <1> QED BY <1>1, <1>2

\* The report being put together is one the services put together.
LEMMA ReportsKeep == ReportsSpec => [](TypeOK /\ ReportInv)
  <1>1. ReportsInit => ReportInv
    BY ReportInvInductive
  <1>2. TypeOK /\ ReportInv /\ [ReportsNext]_everything => ReportInv'
    BY ReportInvInductive
  <1> QED BY <1>1, <1>2, ReadingChangesNothing, PTL DEF ReportsSpec

\* dashboard.service.ts:180: an agent whose packages nobody has booked is shown
\* nothing of another agent's bookings, whatever happens between the statements
\* of the report.
THEOREM NothingOfOthersSafe == ReportsSpec => []NothingOfOthers
  <1>1. ReportInv => NothingOfOthers
    BY DEF ReportInv
  <1> QED BY <1>1, ReportsKeep, PTL

\* The statements select the same bookings, up to what has changed.
LEMMA AnswerAddsUp == TypeOK /\ ReportInv => FiguresAddUp
  <1> SUFFICES ASSUME TypeOK, ReportInv, Answered
               PROVE  /\ Apart(report.fig["total"], Sum(report.counts))
                      /\ Apart(report.fig["revenue"], report.counts["COMPLETED"])
                      /\ Apart(report.fig["trend"] + Cardinality((Scope \cap faded) \ moved),
                               report.fig["revenue"])
                      /\ report.who = "user" /\ ~departed =>
                           Apart(report.fig["upcoming"], ToTravel(report.counts))
    BY Zenon DEF FiguresAddUp
  <1> DEFINE done == InStatus(Scope, {"COMPLETED"})
  <1>1. report.pc = "read" /\ report.todo = {}
    BY DEF Answered
  <1>2. /\ Scope \in SUBSET Bookings /\ Counted \in SUBSET Bookings
        /\ moved \in SUBSET Bookings /\ done \in SUBSET Bookings
        /\ \A f \in Figures : report.fig[f] \in Int
        /\ \A s \in BookingStatus : report.counts[s] \in Int
    BY PicksAreBookings DEF ReportInv, ReportTyped, InStatus
  <1>3. /\ Near(report.fig["total"], Counted)
        /\ Near(report.fig["revenue"], InStatus(Counted, {"COMPLETED"}))
        /\ Near(report.fig["trend"], done \ faded)
    <2>1. \A f \in {"total", "revenue", "trend"} : Near(report.fig[f], Picked(f))
      BY <1>1 DEF ReportInv, AsRead, Statements
    <2> QED BY <2>1 DEF Picked
  <1>4. /\ Near(Sum(report.counts), Scope) /\ Near(report.counts["COMPLETED"], done)
        /\ Near(ToTravel(report.counts), InStatus(Scope, {"PENDING", "PAID", "CONFIRMED"}))
    BY <1>1 DEF ReportInv, AsRead
  <1>5. Sum(report.counts) \in Int /\ ToTravel(report.counts) \in Int
    BY <1>2 DEF Sum, ToTravel, BookingStatus
  <1>6. Counted \ moved = Scope \ moved
    <2>1. CASE report.who = "agent"
      <3>1. "owned" \notin report.todo
        BY <1>1
      <3>2. CASE report.fig["owned"] = 0 /\ deleted
        BY <2>1, <3>2 DEF Counted, ShortCircuit, Scope
      <3>3. CASE report.fig["owned"] = 1 /\ (deleted => Existing \subseteq moved)
        BY <2>1, <3>3 DEF Counted, ShortCircuit, Scope
      <3> QED BY <2>1, <3>1, <3>2, <3>3 DEF ReportInv, OwnedAsRead
    <2>2. CASE report.who # "agent"
      BY <2>2 DEF Counted, ShortCircuit, Scope
    <2> QED BY <2>1, <2>2
  <1>7. Near(report.fig["total"], Scope) /\ Near(report.fig["revenue"], done)
    <2>1. InStatus(Counted, {"COMPLETED"}) \ moved = done \ moved
      BY <1>6 DEF InStatus
    <2>2. InStatus(Counted, {"COMPLETED"}) \in SUBSET Bookings
      BY <1>2 DEF InStatus
    <2> HIDE DEF done
    <2> QED BY <1>2, <1>3, <1>6, <2>1, <2>2, NearOutside
  <1>8. Near(report.fig["trend"] + Cardinality((Scope \cap faded) \ moved), done)
    <2> DEFINE F == Scope \cap faded
    <2>1. F \in SUBSET done
      BY DEF ReportInv, ReportTyped, InStatus
    <2>2. done \ faded = done \ F
      BY DEF InStatus
    <2> HIDE DEF F, done
    <2>3. Near(report.fig["trend"], done \ F) /\ report.fig["trend"] \in Int
      BY <1>2, <1>3, <2>2 DEF Figures
    <2>4. Near(report.fig["trend"] + Cardinality(F \ moved), done)
      BY <1>2, <2>1, <2>3, NearWithout
    <2> QED BY <2>4 DEF F
  <1>9. report.fig["trend"] + Cardinality((Scope \cap faded) \ moved) \in Int
    <2>1. (Scope \cap faded) \ moved \in SUBSET Bookings
      BY <1>2
    <2>2. Cardinality((Scope \cap faded) \ moved) \in Nat
      BY <2>1, Countable
    <2> QED BY <1>2, <2>2 DEF Figures
  <1>10. ASSUME report.who = "user", ~departed
         PROVE  Apart(report.fig["upcoming"], ToTravel(report.counts))
    <2> DEFINE active == InStatus(Scope, {"PENDING", "PAID", "CONFIRMED"})
    <2>1. Near(report.fig["upcoming"], Picked("upcoming"))
      BY <1>1, <1>10 DEF ReportInv, AsRead, Statements
    <2>2. Picked("upcoming") = active
      BY <1>10 DEF Picked, Upcoming, Scope
    <2>3. active \in SUBSET Bookings
      BY <1>2 DEF InStatus
    <2>4. Near(ToTravel(report.counts), active)
      BY <1>4
    <2>5. report.fig["upcoming"] \in Int
      BY <1>2 DEF Figures
    <2> HIDE DEF active
    <2> QED BY <1>2, <1>5, <2>1, <2>2, <2>3, <2>4, <2>5, BothNear
  <1> HIDE DEF done
  <1>11. /\ report.fig["total"] \in Int /\ report.fig["revenue"] \in Int
         /\ report.counts["COMPLETED"] \in Int
    BY <1>2 DEF Figures, BookingStatus
  <1>12. Apart(report.fig["total"], Sum(report.counts))
    BY <1>2, <1>4, <1>5, <1>7, <1>11, BothNear
  <1>13. Apart(report.fig["revenue"], report.counts["COMPLETED"])
    BY <1>2, <1>4, <1>7, <1>11, BothNear
  <1>14. Apart(report.fig["trend"] + Cardinality((Scope \cap faded) \ moved),
               report.fig["revenue"])
    BY <1>2, <1>7, <1>8, <1>9, <1>11, BothNear
  <1> QED BY <1>10, <1>12, <1>13, <1>14

\* The dashboards: the figures of a report differ by the bookings that changed
\* while it was put together at most, and add up when none did, for every viewer,
\* however many bookings there are; the days of the trend miss what was completed
\* before them and nothing else.
THEOREM FiguresAddUpSafe == ReportsSpec => []FiguresAddUp
  BY ReportsKeep, AnswerAddsUp, PTL

(* The walk through a list. *)

\* Bookings are numbered as they are made, without a gap.
UpTo(n) == n \in Nat /\ Existing = 1..n

\* The same with the bound as a consequence: bookings are rows of the slot.
LEMMA NoGapIsUpTo ==
    /\ NoGap => \E n : UpTo(n)
    /\ \A n : UpTo(n) => NoGap
  <1>1. NoGap => \E n : UpTo(n)
    BY SlotBounds DEF NoGap, UpTo
  <1>2. ASSUME NEW n, UpTo(n) PROVE NoGap
    <2>1. 1..n \subseteq 1..MaxBookings
      BY <1>2 DEF UpTo, Existing, Bookings
    <2>2. n \in 0..MaxBookings
      BY <1>2, <2>1, SlotBounds DEF UpTo
    <2> QED BY <1>2, <2>2 DEF UpTo, NoGap
  <1> QED BY <1>1, <1>2

\* A step of the bookings makes at most the next one.
LEMMA BookingsGrow ==
    ASSUME TypeOK, [Next]_vars, NEW n, UpTo(n)
    PROVE  UpTo(n)' \/ UpTo(n + 1)'
  <1>1. n \in Nat /\ Existing = 1..n
    BY DEF UpTo
  <1>2. CASE booking' = booking
    BY <1>1, <1>2 DEF UpTo, Existing
  <1>3. ASSUME NEW h \in Handlers, Request(h) PROVE UpTo(n)' \/ UpTo(n + 1)'
    <2>1. CASE InsertBooking(h)
      <3>1. PICK new \in Bookings \ Existing :
              /\ \A b \in Bookings \ Existing : new <= b
              /\ booking' = [b \in Bookings |->
                               IF b = new THEN "PENDING" ELSE CancelFound(h, b)]
        BY <2>1 DEF InsertBooking
      <3>2. new = n + 1
        BY <1>1, <3>1, SlotBounds DEF Bookings
      <3>3. \A b \in Bookings : b # new => (CancelFound(h, b) = None <=> booking[b] = None)
        BY <1>3, SlotBounds DEF CancelFound, TypeOK, Existing, None, Bookings
      <3>4. Existing' = Existing \cup {new}
        BY <3>1, <3>3 DEF Existing, None
      <3> QED BY <1>1, <3>2, <3>4 DEF UpTo
    <2>2. CASE ~InsertBooking(h)
      <3>1. booking' = booking
        BY <1>3, <2>2 DEF Request, CreateRead, FindNone, FindRecent, FindAbandoned, Crash
      <3> QED BY <1>2, <3>1
    <2> QED BY <2>1, <2>2
  <1>4. ASSUME NEW b \in Bookings,
               Age(b) \/ Pay(b) \/ Cancel(b) \/ Confirm(b) \/ Revert(b) \/ Complete(b)
        PROVE  UpTo(n)' \/ UpTo(n + 1)'
    <2>1. Existing' = Existing
      BY <1>4 DEF Age, Pay, Cancel, Confirm, Revert, Complete, Moves, TypeOK, Existing, None
    <2> QED BY <1>1, <2>1 DEF UpTo
  <1>5. CASE Relist \/ UNCHANGED vars
    BY <1>2, <1>5 DEF Relist, vars
  <1> QED BY <1>3, <1>4, <1>5 DEF Next

\* The place of a booking is its distance from the newest one.
LEMMA PlaceIsDistance ==
    ASSUME NEW n, UpTo(n), walk.who # "rival", NEW b \in Listed
    PROVE  Listed = 1..n /\ Place(b) = n - b
  <1>1. Listed = 1..n /\ n \in Nat
    BY DEF UpTo, Listed
  <1>2. {c \in 1..n : c > b} = (b + 1)..n
    BY <1>1
  <1>3. Cardinality((b + 1)..n) = n - b
    BY <1>1, FS_Interval
  <1> QED BY <1>1, <1>2, <1>3 DEF Place

\* When the bookings change nobody is passed over.
LEMMA WalkBystands ==
    ASSUME TypeOK, WalkInv, [Next]_vars, walk' = walk
    PROVE  WalkInv'
  <1>1. PICK n : UpTo(n)
    BY NoGapIsUpTo DEF WalkInv
  <1>2. PICK m : UpTo(m)' /\ m >= n
    BY <1>1, BookingsGrow DEF UpTo
  <1>3. Listed \subseteq Listed'
    BY <1>1, <1>2 DEF Listed, UpTo
  <1>4. WalkTyped'
    BY <1>3 DEF WalkInv, WalkTyped
  <1>5. ASSUME NEW b \in Listed PROVE b \in 1..n /\ Place(b) = n - b /\ Place(b)' = m - b
    <2>1. walk.who # "rival"
      BY <1>5 DEF Listed
    <2>2. Listed = 1..n /\ Place(b) = n - b
      BY <1>1, <1>5, <2>1, PlaceIsDistance
    <2>3. Listed' = 1..m /\ m \in Nat /\ n \in Nat
      BY <1>1, <1>2, <2>1 DEF Listed, UpTo
    <2>4. b \in 1..n /\ b \in Int /\ b <= m
      BY <1>2, <1>5, <2>2, <2>3
    <2>5. {c \in Listed' : c > b} = (b + 1)..m
      BY <2>3, <2>4
    <2>6. Cardinality((b + 1)..m) = IF b + 1 > m THEN 0 ELSE m - (b + 1) + 1
      BY <2>3, <2>4, FS_Interval
    <2>7. Cardinality((b + 1)..m) = m - b
      BY <2>3, <2>4, <2>6
    <2> QED BY <2>2, <2>4, <2>5, <2>7 DEF Place
  <1>6. ASSUME walk.pc = "walk", NEW b \in walk.from \ walk.got
        PROVE  Place(b)' >= Skip(walk.page, walk.limit)
    <2>1. b \in Listed /\ Place(b) >= Skip(walk.page, walk.limit)
      BY <1>6 DEF WalkInv, WalkTyped, NotPassed
    <2>2. b \in 1..n /\ Place(b) = n - b /\ Place(b)' = m - b
      BY <1>5, <2>1
    <2>3. Skip(walk.page, walk.limit) \in Int
      BY DEF WalkInv, WalkTyped, Skip
    <2> QED BY <1>1, <1>2, <2>1, <2>2, <2>3 DEF UpTo
  <1>7. NotPassed'
    BY <1>6 DEF WalkInv, NotPassed, WalkMissesNothing, Skip
  <1>8. NoGap'
    <2>1. 1..m \subseteq 1..MaxBookings /\ m \in Nat
      BY <1>2 DEF UpTo, Existing, Bookings
    <2>2. m \in 0..MaxBookings
      BY <2>1, SlotBounds
    <2> QED BY <1>2, <2>2 DEF UpTo, NoGap
  <1> QED BY <1>4, <1>7, <1>8 DEF WalkInv

\* A page that is read holds every booking at its places; one that is not full
\* leaves none behind.
LEMMA NextPageKeeps == TypeOK /\ WalkInv /\ NextPage => WalkInv'
  <1> SUFFICES ASSUME TypeOK, WalkInv, NextPage PROVE WalkInv'
    OBVIOUS
  <1> DEFINE rows == Rows(walk.page)
             skip == Skip(walk.page, walk.limit)
             more == IF Cardinality(rows) < walk.limit THEN "end" ELSE "walk"
  <1>1. /\ walk' = [walk EXCEPT !.got = @ \cup rows, !.page = @ + 1, !.pc = more]
        /\ UNCHANGED booking
        /\ walk.pc = "walk"
    BY DEF NextPage, vars
  <1>2. PICK n : UpTo(n)
    BY NoGapIsUpTo DEF WalkInv
  <1>3. rows \in SUBSET Bookings
    BY DEF Rows, Listed, Existing
  <1>4. /\ walk'.who = walk.who /\ walk'.limit = walk.limit /\ walk'.from = walk.from
        /\ walk'.page = walk.page + 1 /\ walk'.got = walk.got \cup rows /\ walk'.pc = more
    BY <1>1 DEF WalkInv, WalkTyped
  <1>5. UpTo(n)' /\ Listed' = Listed
    BY <1>1, <1>2, <1>4 DEF UpTo, Existing, Listed
  <1>6. WalkTyped'
    <2>1. more \in {"end", "walk"}
      OBVIOUS
    <2> HIDE DEF rows, more
    <2>2. walk.got \cup rows \in SUBSET Bookings /\ walk.page + 1 \in Nat
      BY <1>3 DEF WalkInv, WalkTyped
    <2>3. walk' \in [pc : {"idle", "walk", "end"}, who : Viewers \cup {None}, page : Nat,
                     limit : Nat \ {0}, got : SUBSET Bookings, from : SUBSET Bookings]
      BY <1>1, <2>1, <2>2 DEF WalkInv, WalkTyped
    <2>4. walk'.page > 0
      BY <1>4 DEF WalkInv, WalkTyped
    <2> QED BY <1>4, <1>5, <2>3, <2>4 DEF WalkInv, WalkTyped
  <1>7. skip \in Int /\ skip >= 0 /\ skip + walk.limit = Skip(walk.page + 1, walk.limit)
    <2>1. walk.page \in Nat /\ walk.page > 0 /\ walk.limit \in Nat
      BY <1>1 DEF WalkInv, WalkTyped
    <2> QED BY <2>1 DEF Skip
  <1>8. ASSUME NEW b \in walk'.from \ walk'.got
        PROVE  /\ walk.who # "rival" /\ b \in Listed /\ Place(b) = n - b /\ Listed = 1..n
               /\ Place(b) >= skip + walk.limit
    <2>1. b \in walk.from \ walk.got /\ b \notin rows
      BY <1>4, <1>8
    <2>2. b \in Listed /\ Place(b) >= skip
      BY <1>1, <2>1 DEF WalkInv, WalkTyped, NotPassed
    <2>3. walk.who # "rival"
      BY <2>2 DEF Listed
    <2>4. Listed = 1..n /\ Place(b) = n - b
      BY <1>2, <2>2, <2>3, PlaceIsDistance
    <2>5. Place(b) \notin skip..(skip + walk.limit - 1)
      BY <2>1, <2>2 DEF Rows, Place
    <2> QED
      BY <1>2, <1>7, <2>2, <2>3, <2>4, <2>5 DEF UpTo, WalkInv, WalkTyped
  <1>9. ASSUME NEW b \in walk'.from \ walk'.got PROVE Cardinality(rows) = walk.limit
    <2>1. /\ Listed = 1..n /\ n \in Nat /\ b \in 1..n /\ walk.limit \in Nat \ {0}
          /\ b <= n - skip - walk.limit
      BY <1>2, <1>7, <1>8, <1>9 DEF UpTo, WalkInv, WalkTyped
    <2>2. \A c \in Listed : Place(c) = n - c
      BY <1>2, <1>8, <1>9, PlaceIsDistance
    <2>3. rows = {c \in 1..n : n - c \in skip..(skip + walk.limit - 1)}
      BY <2>1, <2>2 DEF Rows, Place
    <2>4. rows = (n - skip - walk.limit + 1)..(n - skip)
      BY <1>7, <2>1, <2>3
    <2>5. Cardinality((n - skip - walk.limit + 1)..(n - skip)) = walk.limit
      <3> DEFINE from == n - skip - walk.limit + 1
                 to == n - skip
      <3>1. from \in Int /\ to \in Int /\ from <= to /\ to - from + 1 = walk.limit
        BY <1>7, <2>1
      <3> HIDE DEF from, to
      <3>2. Cardinality(from..to) = to - from + 1
        BY <3>1, FS_Interval
      <3> QED BY <3>1, <3>2 DEF from, to
    <2> QED BY <2>4, <2>5
  <1>10. NotPassed'
    <2>1. ASSUME NEW b \in walk'.from \ walk'.got
          PROVE  Place(b)' >= Skip(walk'.page, walk'.limit)
      <3>1. Place(b)' = Place(b)
        BY <1>5 DEF Place
      <3> QED BY <1>4, <1>7, <1>8, <2>1, <3>1
    <2>2. walk'.pc = "end" => walk'.from \subseteq walk'.got
      <3>1. walk'.pc = "end" => Cardinality(rows) < walk.limit
        BY <1>4
      <3>2. walk.limit \in Nat
        BY DEF WalkInv, WalkTyped
      <3> HIDE DEF rows
      <3>3. ASSUME NEW b \in walk'.from \ walk'.got PROVE walk'.pc # "end"
        BY <1>9, <3>1, <3>2, <3>3
      <3> QED BY <3>3
    <2> QED BY <2>1, <2>2 DEF NotPassed, WalkMissesNothing
  <1>11. NoGap'
    BY <1>1 DEF WalkInv, NoGap, Existing
  <1> QED BY <1>6, <1>10, <1>11 DEF WalkInv

\* A walk begins with nothing listed and no page passed.
LEMMA OpenListKeeps == TypeOK /\ WalkInv /\ (OpenList \/ CloseList) => WalkInv'
  <1> SUFFICES ASSUME TypeOK, WalkInv, OpenList \/ CloseList PROVE WalkInv'
    OBVIOUS
  <1>1. booking' = booking /\ Existing' = Existing
    BY DEF OpenList, CloseList, vars, Existing
  <1>2. NoGap'
    BY <1>1 DEF WalkInv, NoGap
  <1>3. CASE CloseList
    <2>1. walk' = NoWalk
      BY <1>3 DEF CloseList
    <2> QED
      BY <1>2, <2>1 DEF WalkInv, WalkTyped, NotPassed, WalkMissesNothing, NoWalk, Walk
  <1>4. CASE OpenList
    <2>1. PICK who \in Viewers, limit \in PageSizes :
            walk' = Walk("walk", who, 1, limit, {}, IF who = "rival" THEN {} ELSE Existing)
      BY <1>4 DEF OpenList
    <2>2. limit \in Nat \ {0} /\ Existing \in SUBSET Bookings
      BY PageSizesPositive DEF Existing
    <2>3. WalkTyped'
      BY <1>1, <2>1, <2>2 DEF WalkTyped, Walk, Listed
    <2>4. \A b \in walk'.from : Place(b)' >= Skip(1, limit)
      <3>1. Skip(1, limit) = 0
        BY <2>2 DEF Skip
      <3>2. ASSUME NEW b \in walk'.from PROVE Place(b)' \in Nat
        <4>1. {c \in Listed' : c > b} \in SUBSET Bookings
          BY <1>1, <2>2 DEF Listed
        <4>2. IsFiniteSet(Bookings)
          BY SlotBounds, FS_Interval DEF Bookings
        <4>3. IsFiniteSet({c \in Listed' : c > b})
          BY <4>1, <4>2, FS_Subset
        <4> QED BY <4>3, FS_CardinalityType DEF Place
      <3> QED BY <3>1, <3>2
    <2>5. NotPassed'
      BY <2>1, <2>4 DEF NotPassed, WalkMissesNothing, Walk, Skip
    <2> QED BY <1>2, <2>3, <2>5 DEF WalkInv
  <1> QED BY <1>3, <1>4

\* WalkInv is inductive.
LEMMA WalkInvInductive ==
    /\ ReportsInit => WalkInv
    /\ TypeOK /\ WalkInv /\ [ReportsNext]_everything => WalkInv'
  <1>1. ASSUME ReportsInit PROVE WalkInv
    <2>1. walk = NoWalk /\ Existing = {}
      BY <1>1 DEF ReportsInit, Init, Existing
    <2>2. UpTo(0)
      BY <2>1 DEF UpTo
    <2>3. NoGap
      BY <2>2, NoGapIsUpTo
    <2> QED
      BY <2>1, <2>3 DEF WalkInv, WalkTyped, NotPassed, WalkMissesNothing, NoWalk, Walk
  <1>2. ASSUME TypeOK, WalkInv, [ReportsNext]_everything PROVE WalkInv'
    <2>1. CASE OpenList \/ CloseList \/ NextPage
      BY <1>2, <2>1, OpenListKeeps, NextPageKeeps
    <2>2. CASE ~(OpenList \/ CloseList \/ NextPage)
      <3>1. walk' = walk
        BY <1>2, <2>2 DEF ReportsNext, OpenDashboard, ReadBreakdown, ReadOwned, ReadFigure,
             ReadOn, CloseDashboard, SlotStep, DeletePackage, Depart, Fade, everything, reportVars
      <3> QED BY <1>2, <3>1, WalkBystands, ReportsStepIsSlotStep
    <2> QED BY <2>1, <2>2
  <1> QED BY <1>1, <1>2

\* What a report or a walk has read so far is as near as the changes allow, whatever
\* happens between two statements: ReadingInv is an invariant.
THEOREM ReadingInvariant == ReportsSpec => []ReadingInv
  <1>1. ReportsInit => WalkInv
    BY WalkInvInductive
  <1>2. TypeOK /\ WalkInv /\ [ReportsNext]_everything => WalkInv'
    BY WalkInvInductive
  <1>3. TypeOK /\ ReportInv /\ WalkInv => ReadingInv
    BY DEF ReadingInv
  <1> QED BY <1>1, <1>2, <1>3, ReportsKeep, ReadingChangesNothing, PTL DEF ReportsSpec

\* paginateBooking: a walk through an unfiltered list misses no booking that was
\* there when it began, for every page size and however many are made meanwhile.
THEOREM WalkMissesNothingSafe == ReportsSpec => []WalkMissesNothing
  <1>1. ReadingInv => WalkMissesNothing
    BY DEF ReadingInv, WalkInv, NotPassed
  <1> QED BY <1>1, ReadingInvariant, PTL

=============================================================================
