------------------------------- MODULE Reports -------------------------------
(***************************************************************************)
(* What is read of the bookings of BookingSlots: the three dashboards      *)
(* (dashboard.service.ts) and the paged lists (booking.service.ts).  A     *)
(* report is several statements outside any transaction, sent together     *)
(* (Promise.all) and answered in any order, and a list is walked page by   *)
(* page, while the bookings change.  Reading changes nothing, so one       *)
(* report or one walk at a time is enough.                                 *)
(*                                                                         *)
(* Every booking is of one package: "agent" is its agent.  "rival" is      *)
(* another agent, whose packages nobody has booked: he may have some or    *)
(* none at any moment.  A booking counts for one unit of revenue.          *)
(***************************************************************************)
EXTENDS BookingSlots

CONSTANTS
    Viewers,     \* who reads
    PageSizes    \* ?limit of the lists

ASSUME ViewersKnown == Viewers \subseteq {"user", "admin", "agent", "rival"}
ASSUME PageSizesPositive == PageSizes \subseteq Nat \ {0}

VARIABLES
    deleted,     \* TourPackage.isDeleted
    departed,    \* travelDate <= now
    report,      \* the dashboard being put together
    walk,        \* the list being read page by page
    faded,       \* bookings completed (updatedAt) before the days of the trend
    moved        \* history: bookings that have changed, for the report, since it began

reportVars == <<deleted, departed, report, walk, faded, moved>>
everything == <<vars, reportVars>>

Figures == {"owned", "total", "revenue", "trend", "upcoming"}
Unread == -1

\* todo: statements that have not answered; fig and counts: what the others said.
Report(label, who, todo) ==
    [pc |-> label, who |-> who, todo |-> todo,
     fig |-> [f \in Figures |-> Unread], counts |-> [s \in BookingStatus |-> Unread]]
NoReport == Report("idle", None, {})

\* got: bookings listed so far; from: history, those there at the beginning.
Walk(label, who, page, limit, got, from) ==
    [pc |-> label, who |-> who, page |-> page, limit |-> limit, got |-> got, from |-> from]
NoWalk == Walk("idle", None, 0, 1, {}, {})

ReportsInit ==
    /\ Init
    /\ deleted = FALSE
    /\ departed = FALSE
    /\ report = NoReport
    /\ walk = NoWalk
    /\ faded = {}
    /\ moved = {}

NobodyReads == report.pc = "idle" /\ walk.pc = "idle"

-----------------------------------------------------------------------------
(* What a statement counts.                                                *)

InStatus(scope, statuses) == {b \in scope : booking[b] \in statuses}

\* Mutant: the breakdowns keep the bookings of a deleted package.
ScopeWithDeleted == IF report.who = "rival" THEN {} ELSE Existing

\* getBookingsByStatus, getRevenueOverTime: {agentId, isDeleted: false},
\* {userId}, or everything.
Scope ==
    IF report.who = "rival" \/ (report.who = "agent" /\ deleted) THEN {} ELSE Existing

\* Mutant: an empty list of package ids becomes no condition at all.
PlatformWide == Existing

\* An agent without packages gets zeros, and no statement is sent.
ShortCircuit == {}

\* The counts of an agent go by the package ids read before, deleted since or not.
Counted ==
    IF report.who \in {"agent", "rival"} /\ report.fig["owned"] = 0 THEN ShortCircuit
    ELSE IF report.who = "rival" THEN {} ELSE Existing

\* travelDate > now.
Upcoming == IF departed THEN {} ELSE Existing

\* The bookings a figure counts; the trend goes by the day of completion.
Picked(f) ==
    CASE f = "total"    -> Counted
      [] f = "revenue"  -> InStatus(Counted, {"COMPLETED"})
      [] f = "trend"    -> InStatus(Scope, {"COMPLETED"}) \ faded
      [] f = "upcoming" -> InStatus(Upcoming, {"PENDING", "PAID", "CONFIRMED"})

\* How many packages of the agent are not deleted.
Owned == IF report.who = "rival" THEN {0, 1} ELSE {IF deleted THEN 0 ELSE 1}

-----------------------------------------------------------------------------
(* The dashboards.                                                         *)

OpenDashboard ==
    /\ NobodyReads
    /\ \E who \in Viewers :
         report' = IF who \in {"agent", "rival"}
                     THEN Report("first", who, {"owned", "byStatus"})
                     ELSE Report("read", who, {"total", "revenue", "trend", "byStatus"} \cup
                                              IF who = "user" THEN {"upcoming"} ELSE {})
    /\ UNCHANGED <<vars, deleted, departed, walk, faded, moved>>

ReadBreakdown ==
    /\ "byStatus" \in report.todo
    /\ report' = [report EXCEPT
                    !.todo = @ \ {"byStatus"},
                    !.counts = [s \in BookingStatus |-> Cardinality(InStatus(Scope, {s}))]]
    /\ UNCHANGED <<vars, deleted, departed, walk, faded, moved>>

ReadOwned ==
    /\ "owned" \in report.todo
    /\ \E n \in Owned :
         report' = [report EXCEPT !.todo = @ \ {"owned"}, !.fig["owned"] = n]
    /\ UNCHANGED <<vars, deleted, departed, walk, faded, moved>>

ReadFigure ==
    /\ \E f \in report.todo \ {"owned", "byStatus"} :
         report' = [report EXCEPT !.todo = @ \ {f}, !.fig[f] = Cardinality(Picked(f))]
    /\ UNCHANGED <<vars, deleted, departed, walk, faded, moved>>

\* getAgentDashboard: the package ids are there, the counts follow.
ReadOn ==
    /\ report.pc = "first"
    /\ report.todo = {}
    /\ report' = [report EXCEPT !.pc = "read", !.todo = {"total", "revenue", "trend"}]
    /\ UNCHANGED <<vars, deleted, departed, walk, faded, moved>>

Answered == report.pc = "read" /\ report.todo = {}

CloseDashboard ==
    /\ Answered
    /\ report' = NoReport
    /\ moved' = {}
    /\ UNCHANGED <<vars, deleted, departed, walk, faded>>

-----------------------------------------------------------------------------
(* The lists, newest first.                                                *)

\* getMyBookings, getAgentBookings (deleted packages too), getAllBookings,
\* without a filter on the status.
Listed == IF walk.who = "rival" THEN {} ELSE Existing

\* Mutant: pages are counted from zero.
SkipWhole(page, limit) == page * limit

Skip(page, limit) == (page - 1) * limit

\* skip, take, orderBy createdAt desc.
Rows(page) ==
    {b \in Listed :
        Cardinality({c \in Listed : c > b}) \in
            Skip(page, walk.limit)..(Skip(page, walk.limit) + walk.limit - 1)}

OpenList ==
    /\ NobodyReads
    /\ \E who \in Viewers, limit \in PageSizes :
         walk' = Walk("walk", who, 1, limit, {}, IF who = "rival" THEN {} ELSE Existing)
    /\ UNCHANGED <<vars, deleted, departed, report, faded, moved>>

\* A page that is not full is the last one.
NextPage ==
    /\ walk.pc = "walk"
    /\ walk' = [walk EXCEPT !.got = @ \cup Rows(walk.page),
                            !.page = @ + 1,
                            !.pc = IF Cardinality(Rows(walk.page)) < walk.limit
                                     THEN "end" ELSE "walk"]
    /\ UNCHANGED <<vars, deleted, departed, report, faded, moved>>

CloseList ==
    /\ walk.pc = "end"
    /\ walk' = NoWalk
    /\ UNCHANGED <<vars, deleted, departed, report, faded, moved>>

-----------------------------------------------------------------------------
(* What changes meanwhile.                                                 *)

\* History: these bookings are no longer what an open report began with.
Change(bs) == moved' = IF report.pc = "idle" THEN {} ELSE moved \cup bs

\* The bookings change as in BookingSlots; nobody books for a day that has
\* passed, completes a trip before it or reverts a confirmation after it.  Each
\* write sets updatedAt.
SlotStep ==
    /\ \/ \E h \in Handlers : Request(h) /\ (CreateRead(h) => ~departed)
       \/ \E b \in Bookings :
            \/ Age(b) \/ Pay(b) \/ Cancel(b) \/ Confirm(b)
            \/ ~departed /\ Revert(b)
            \/ departed /\ Complete(b)
       \/ ~deleted /\ Relist
    /\ faded' = {b \in faded : booking'[b] = booking[b]}
    /\ Change({b \in Bookings : booking'[b] # booking[b]})
    /\ UNCHANGED <<deleted, departed, report, walk>>

\* softDeletePackage, for good; its bookings leave what its agent is shown.
DeletePackage ==
    /\ "list" \in Ops
    /\ ~deleted
    /\ deleted' = TRUE
    /\ listed' = FALSE
    /\ Change(IF report.who = "agent" THEN Existing ELSE {})
    /\ UNCHANGED <<booking, stale, paid, task, departed, report, walk, faded>>

Depart ==
    /\ ~departed
    /\ departed' = TRUE
    /\ UNCHANGED <<vars, deleted, report, walk, faded, moved>>

\* The trip was completed more than ?days ago.
Fade(b) ==
    /\ booking[b] = "COMPLETED"
    /\ b \notin faded
    /\ faded' = faded \cup {b}
    /\ Change({b})
    /\ UNCHANGED <<vars, deleted, departed, report, walk>>

ReportsNext ==
    \/ OpenDashboard \/ ReadBreakdown \/ ReadOwned \/ ReadFigure \/ ReadOn \/ CloseDashboard
    \/ OpenList \/ NextPage \/ CloseList
    \/ SlotStep \/ DeletePackage \/ Depart \/ \E b \in Bookings : Fade(b)

ReportsSpec == ReportsInit /\ [][ReportsNext]_everything

-----------------------------------------------------------------------------

ToTravel(counts) == counts["PENDING"] + counts["PAID"] + counts["CONFIRMED"]
Sum(counts) == ToTravel(counts) + counts["COMPLETED"] + counts["CANCELLED"]

\* As far apart as the bookings that have changed since the report began.
Apart(m, n) == m <= n + Cardinality(moved) /\ n <= m + Cardinality(moved)

\* getAdminDashboard, getAgentDashboard, getUserDashboard: the statements of a
\* report select the same bookings, each in its own words and at its own moment:
\* its figures differ by the bookings that changed meanwhile at most, for every
\* viewer and also after a deletion, and add up when nothing changed.  The days of
\* the trend miss the revenue of what was completed before them and nothing else.
FiguresAddUp ==
    Answered =>
        /\ Apart(report.fig["total"], Sum(report.counts))
        /\ Apart(report.fig["revenue"], report.counts["COMPLETED"])
        /\ Apart(report.fig["trend"] + Cardinality((Scope \cap faded) \ moved),
                 report.fig["revenue"])
        /\ report.who = "user" /\ ~departed =>
             Apart(report.fig["upcoming"], ToTravel(report.counts))

\* dashboard.service.ts:180 "An agent with no packages must see zeros": whatever
\* is booked, deleted or completed between the statements, also his own last
\* package, an agent is never shown figures of another agent's bookings.
NothingOfOthers ==
    report.who = "rival" =>
        /\ \A f \in Figures \ {"owned"} : report.fig[f] \in {Unread, 0}
        /\ \A s \in BookingStatus : report.counts[s] \in {Unread, 0}

\* paginateBooking: rows only move to later pages, so a walk through an
\* unfiltered list misses no booking that was there when it began, however many
\* are made while it goes on.
WalkMissesNothing == walk.pc = "end" => walk.from \subseteq walk.got

-----------------------------------------------------------------------------
(* The inductive invariant.                                                *)

\* What has to be read for the report's figures; an agent's package ids first.
Statements ==
    IF report.pc = "first" THEN {"owned"}
    ELSE {"total", "revenue", "trend"}
           \cup (IF report.who = "user" THEN {"upcoming"} ELSE {})
           \cup (IF report.who \in {"agent", "rival"} THEN {"owned"} ELSE {})

\* The report being put together is one of those the service puts together.
ReportTyped ==
    /\ report \in [pc : {"idle", "first", "read"}, who : Viewers \cup {None},
                   todo : SUBSET (Figures \cup {"byStatus"}),
                   fig : [Figures -> Int], counts : [BookingStatus -> Int]]
    /\ report.todo \subseteq Statements \cup {"byStatus"}
    /\ report.pc = "idle" => report.who = None /\ report.todo = {} /\ moved = {}
    /\ report.pc = "first" => report.who \in {"agent", "rival"}
    /\ report.pc = "read" => "owned" \notin report.todo
    /\ faded \subseteq InStatus(Existing, {"COMPLETED"})
    /\ moved \subseteq Existing

\* A count of these bookings that was right at some moment since the report began.
Near(n, bs) == Cardinality(bs \ moved) <= n /\ n <= Cardinality(bs \cup moved)

\* What has been read is as near to what is there as the changes allow.
AsRead ==
    report.pc # "idle" =>
        /\ \A f \in Statements \ ({"owned"} \cup report.todo) :
             (f = "upcoming" => ~departed) => Near(report.fig[f], Picked(f))
        /\ "byStatus" \notin report.todo =>
             /\ Near(Sum(report.counts), Scope)
             /\ Near(report.counts["COMPLETED"], InStatus(Scope, {"COMPLETED"}))
             /\ Near(ToTravel(report.counts),
                     InStatus(Scope, {"PENDING", "PAID", "CONFIRMED"}))

\* The agent's package was there when its id was read, or is deleted.
OwnedAsRead ==
    report.who = "agent" /\ "owned" \notin report.todo =>
        \/ report.fig["owned"] = 0 /\ deleted
        \/ report.fig["owned"] = 1 /\ (deleted => Existing \subseteq moved)

ReportInv == ReportTyped /\ AsRead /\ OwnedAsRead /\ NothingOfOthers

\* The place of a booking in the list: how many newer ones there are.
Place(b) == Cardinality({c \in Listed : c > b})

\* The list being walked is one of those the service pages.
WalkTyped ==
    /\ walk \in [pc : {"idle", "walk", "end"}, who : Viewers \cup {None}, page : Nat,
                 limit : Nat \ {0}, got : SUBSET Bookings, from : SUBSET Bookings]
    /\ walk.from \subseteq Listed
    /\ walk.pc # "idle" => walk.page > 0

\* What has not been listed yet is not on a page that has been read.
NotPassed ==
    /\ walk.pc = "walk" =>
         \A b \in walk.from \ walk.got : Place(b) >= Skip(walk.page, walk.limit)
    /\ WalkMissesNothing

\* Bookings are numbered as they are made, without a gap.
NoGap == \E n \in 0..MaxBookings : Existing = 1..n

WalkInv == NoGap /\ WalkTyped /\ NotPassed

\* dashboard.service.ts, paginateBooking: what a report has read so far is off by
\* the bookings that changed since it began, and a walk leaves behind only what it
\* has listed, whatever is booked, cancelled or deleted between two statements.
ReadingInv == TypeOK /\ ReportInv /\ WalkInv

=============================================================================
