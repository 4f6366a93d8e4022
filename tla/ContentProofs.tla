---------------------------- MODULE ContentProofs ---------------------------
(***************************************************************************)
(* Theorems about Content: ContentInv holds for any number of listings,    *)
(* categories, comments and requests, and what follows from it.            *)
(***************************************************************************)
EXTENDS Content, FiniteSetTheorems, SequenceTheorems, TLAPS

-----------------------------------------------------------------------------
(* The slug that is chosen.                                                *)

\* A set of naturals that is not empty has its Min.
LEMMA MinIsThere ==
    ASSUME NEW S \in SUBSET Nat, S # {}
    PROVE  Min(S) \in S
<1> DEFINE Upto == {0 .. x : x \in S}
           below == StrictSubsetOrdering(Nat)
<1>1. Upto \subseteq FiniteSubsetsOf(Nat)
  <2>1. \A x \in S : 0 .. x \subseteq Nat /\ IsFiniteSet(0 .. x)
    BY FS_Interval
  <2> QED
    BY <2>1 DEF FiniteSubsetsOf
<1>2. PICK X \in Upto : \A Y \in Upto : ~(<<Y, X>> \in below)
  <2>1. IsWellFoundedOn(below, FiniteSubsetsOf(Nat))
    BY FS_StrictSubsetOrderingWellFounded
  <2>2. Upto # {}
    OBVIOUS
  <2> HIDE DEF Upto, below
  <2> QED
    BY <1>1, <2>1, <2>2, WFMin
<1>3. PICK x \in S : X = 0 .. x
  OBVIOUS
<1>4. \A y \in S : x =< y
  <2> SUFFICES ASSUME NEW y \in S, y < x
               PROVE  FALSE
    OBVIOUS
  <2>1. 0 .. y \in SUBSET Nat /\ 0 .. x \in SUBSET Nat
    OBVIOUS
  <2>2. 0 .. y \subseteq 0 .. x /\ 0 .. y # 0 .. x
    OBVIOUS
  <2>3. <<0 .. y, 0 .. x>> \in below
    BY <2>1, <2>2 DEF StrictSubsetOrdering
  <2> QED
    BY <1>2, <1>3, <2>3
<1> QED
  BY <1>4 DEF Min

\* Among one more number than there are slugs alike, one gives a new slug.
LEMMA SomeSuffixIsFree ==
    ASSUME NEW base \in Seq(Nat), NEW alike, IsFiniteSet(alike)
    PROVE  \E n \in 2 .. Cardinality(alike) + 2 : Append(base, n) \notin alike
<1> DEFINE N == 2 .. Cardinality(alike) + 2
           f == [n \in N |-> Append(base, n)]
<1>1. Cardinality(alike) \in Nat
  BY FS_CardinalityType
<1>2. IsFiniteSet(N) /\ Cardinality(alike) < Cardinality(N)
  <2>1. \A k \in Int : IsFiniteSet(2 .. k) /\ Cardinality(2 .. k) = IF 2 > k THEN 0 ELSE k - 1
    BY FS_Interval
  <2> QED
    BY <1>1, <2>1
<1> SUFFICES ASSUME \A n \in N : Append(base, n) \in alike
             PROVE  FALSE
  OBVIOUS
<1>3. f \in [N -> alike]
  OBVIOUS
<1>4. PICK x, y \in N : x # y /\ f[x] = f[y]
  <2> HIDE DEF f, N
  <2> QED
    BY <1>2, <1>3, FS_PigeonHole
<1>5. x \in Nat /\ y \in Nat /\ Append(base, x) = Append(base, y)
  BY <1>1, <1>4
<1> QED
  BY <1>4, <1>5, AppendInjective

\* generateUniqueSlug returns a slug that is not in use, however many are.
THEOREM SlugIsFree ==
    ASSUME NEW base \in Seq(Nat) \ {<<>>}, NEW used \in SUBSET Seq(Nat), IsFiniteSet(used)
    PROVE  /\ UniqueSlug(base, used) \in Seq(Nat) \ {<<>>}
           /\ UniqueSlug(base, used) \notin used
<1> DEFINE alike == {s \in used : IsPrefix(base, s)}
           free == {n \in 2 .. Cardinality(alike) + 2 : Append(base, n) \notin alike}
<1>1. IsFiniteSet(alike) /\ Cardinality(alike) \in Nat
  BY FS_Subset, FS_CardinalityType
<1>2. Min(free) \in free
  <2>1. free # {}
    BY <1>1, SomeSuffixIsFree
  <2>2. free \subseteq Nat
    BY <1>1
  <2> HIDE DEF free
  <2> QED
    BY <2>1, <2>2, MinIsThere
<1>3. CASE base \notin alike
  <2>1. UniqueSlug(base, used) = base
    BY <1>3 DEF UniqueSlug
  <2>2. IsPrefix(base, base)
    BY DEF IsPrefix
  <2> QED
    BY <1>3, <2>1, <2>2
<1>4. CASE base \in alike
  <2> DEFINE n == Min(free)
  <2>1. UniqueSlug(base, used) = Append(base, n)
    BY <1>4 DEF UniqueSlug
  <2>2. n \in Nat /\ Append(base, n) \notin alike
    BY <1>1, <1>2
  <2>3. /\ Append(base, n) \in Seq(Nat) /\ Append(base, n) # <<>>
        /\ Len(Append(base, n)) = Len(base) + 1
        /\ \A i \in 1 .. Len(base) : Append(base, n)[i] = base[i]
    BY <2>2, AppendProperties
  <2>4. IsPrefix(base, Append(base, n))
    <3> HIDE DEF n
    <3> QED
      BY <2>2, <2>3 DEF IsPrefix
  <2> QED
    BY <2>1, <2>2, <2>3, <2>4
<1> QED
  BY <1>3, <1>4

-----------------------------------------------------------------------------
(* Requests in flight.                                                     *)

\* A request that may be in flight in this state.
Sound(t) ==
    /\ t \in Tasks
    /\ ~t.overlap => MayWrite(t)
    /\ Grounded(t)

tables == <<kind, rowVars, name, commentVars>>

\* The slugs in use are finitely many sequences.
LEMMA SlugsAreFinite ==
    ASSUME RowTypes
    PROVE  SlugsInUse \in SUBSET Seq(Nat) /\ IsFiniteSet(SlugsInUse)
<1> DEFINE there == {k \in Rows : Exists(k)}
           used == {slug[r] : r \in there}
           f == [r \in there |-> slug[r]]
<1>1. IsFiniteSet(there)
  <2>1. IsFiniteSet(Rows)
    BY ListingConstants, FS_Interval DEF Rows
  <2> QED
    BY <2>1, FS_Subset
<1>2. f \in Surjection(there, used)
  BY DEF Surjection
<1>3. IsFiniteSet(used)
  <2> HIDE DEF f, used, there
  <2> QED
    BY <1>1, <1>2, FS_Surjection
<1>4. IsFiniteSet(OldSlugs \cup used)
  <2> HIDE DEF used
  <2> QED
    BY <1>3, ListingConstants, FS_Union
<1> QED
  BY <1>4, ListingConstants DEF SlugsInUse, RowTypes

\* Setting the history flag changes nothing else of a request.
LEMMA OverlapIsHistory ==
    ASSUME NEW t \in Tasks, Exposed(t)
    PROVE  LET u == [t EXCEPT !.overlap = TRUE] IN
           /\ u \in Tasks /\ u.overlap /\ u.pc = t.pc
           /\ t.pc \in {"slug", "insert"} => u.category = t.category
           /\ t.pc = "edit" => u.row = t.row
<1> DEFINE u == [t EXCEPT !.overlap = TRUE]
<1>1. CASE t.pc = "slug"
  <2>1. t \in [pc : {"slug"}, base : Bases, category : Categories \cup {None}, overlap : BOOLEAN]
    BY <1>1 DEF Tasks, Idle
  <2> QED
    BY <2>1 DEF Tasks
<1>2. CASE t.pc = "insert"
  <2>1. t \in [pc : {"insert"}, slug : Seq(Nat) \ {<<>>}, category : Categories \cup {None},
               overlap : BOOLEAN]
    BY <1>2 DEF Tasks, Idle
  <2> QED
    BY <2>1 DEF Tasks
<1>3. CASE t.pc = "edit"
  <2>1. t \in [pc : {"edit"}, row : Rows, category : Categories \cup {None}, agent : BOOLEAN,
               overlap : BOOLEAN]
    BY <1>3 DEF Tasks, Idle
  <2> QED
    BY <2>1 DEF Tasks
<1>4. CASE t.pc = "file"
  <2>1. t \in [pc : {"file"}, name : Names, overlap : BOOLEAN]
    BY <1>4 DEF Tasks, Idle
  <2> QED
    BY <2>1 DEF Tasks
<1>5. CASE t.pc = "rename"
  <2>1. t \in [pc : {"rename"}, category : Categories, name : Names, overlap : BOOLEAN]
    BY <1>5 DEF Tasks, Idle
  <2> QED
    BY <2>1 DEF Tasks
<1>6. CASE t.pc = "drop"
  <2>1. t \in [pc : {"drop"}, category : Categories, overlap : BOOLEAN]
    BY <1>6 DEF Tasks, Idle
  <2> QED
    BY <2>1 DEF Tasks
<1> QED
  BY <1>1, <1>2, <1>3, <1>4, <1>5, <1>6 DEF Exposed

\* The types depend on the table, which does not change.
LEMMA KindFixesTypes ==
    ASSUME kind' = kind
    PROVE  Tasks' = Tasks /\ Statuses' = Statuses
  BY DEF Tasks, Statuses, FirstStatus

\* A step that only moves one request to another sound place.
LEMMA QuietStep ==
    ASSUME ContentInv, NEW h \in Handlers, NEW t, Sound(t), Become(h, t), UNCHANGED tables
    PROVE  ContentInv'
<1> USE DEF tables, rowVars, commentVars
<1>1. RowTypes'
  BY DEF ContentInv, TypeOK, RowTypes, Exists, Statuses, FirstStatus
<1>2. PublicHasVerdict' /\ NoOrphans' /\ ThreadsAreFlat'
  BY DEF ContentInv, PublicHasVerdict, NoOrphans, ThreadsAreFlat, Public, PublicStatus, Exists, Filed
<1>3. /\ task' \in [Handlers -> Tasks]
      /\ \A k \in Handlers : Sound(task'[k])
  BY DEF ContentInv, TypeOK, UndisturbedWritesSucceed, Sound, Become
<1>4. UndisturbedWritesSucceed'
  <2> SUFFICES ASSUME NEW k \in Handlers, ~task'[k].overlap
               PROVE  MayWrite(task[k])'
    BY DEF UndisturbedWritesSucceed
  <2>1. MayWrite(task'[k])
    BY <1>3 DEF Sound
  <2>2. SlugsInUse' = SlugsInUse /\ \A c : Filed(c)' = Filed(c)
    BY DEF SlugsInUse, Exists, Filed
  <2> QED
    BY <2>1, <2>2 DEF MayWrite, MayInsert, MayEdit, NameFree, MayDrop, Referenced, Exists
<1>5. \A k \in Handlers : Grounded(task[k])'
  BY <1>3 DEF Sound, Grounded, Exists
<1>6. Tasks' = Tasks
  BY KindFixesTypes
<1> QED
  BY <1>1, <1>2, <1>3, <1>4, <1>5, <1>6 DEF ContentInv, TypeOK

\* A write by one request leaves the others sound: those whose write may be
\* refused are marked, and comments that are there do not move.
LEMMA OthersStaySound ==
    ASSUME ContentInv, NEW h \in Handlers, Committed(h), kind' = kind,
           \A r \in Rows : Exists(r) => Exists(r)',
           \A c \in Comments : post[c] # 0 => post'[c] = post[c] /\ parent'[c] = parent[c]
    PROVE  /\ task' \in [Handlers -> Tasks]'
           /\ UndisturbedWritesSucceed'
           /\ \A k \in Handlers : Grounded(task[k])'
<1>1. \A k \in Handlers :
         /\ task'[k] \in Tasks
         /\ Exposed(task[k]) /\ k # h =>
              /\ task'[k].overlap /\ task'[k].pc = task[k].pc
              /\ task[k].pc \in {"slug", "insert"} => task'[k].category = task[k].category
              /\ task[k].pc = "edit" => task'[k].row = task[k].row
         /\ ~Exposed(task[k]) /\ k # h => task'[k] = task[k]
         /\ k = h => task'[k] = Idle
  <2> TAKE k \in Handlers
  <2>1. task[k] \in Tasks /\ Idle \in Tasks
    BY DEF ContentInv, TypeOK, Tasks
  <2>2. CASE k = h
    BY <2>1, <2>2 DEF Committed
  <2>3. CASE k # h /\ Exposed(task[k])
    <3>1. task'[k] = [task[k] EXCEPT !.overlap = TRUE]
      BY <2>3 DEF Committed
    <3> QED
      BY <2>1, <2>3, <3>1, OverlapIsHistory
  <2>4. CASE k # h /\ ~Exposed(task[k])
    BY <2>1, <2>4 DEF Committed
  <2> QED
    BY <2>2, <2>3, <2>4
<1>2. task' \in [Handlers -> Tasks]'
  <2>1. task' \in [Handlers -> Tasks]
    BY <1>1 DEF Committed
  <2> QED
    BY <2>1, KindFixesTypes
<1>3. ASSUME NEW k \in Handlers, ~task'[k].overlap
      PROVE  MayWrite(task[k])'
  <2>1. task'[k].pc \notin {"slug", "insert", "file", "rename", "drop"}
    BY <1>1, <1>3 DEF Exposed, Idle
  <2>2. task'[k].pc = "edit" => task'[k].category = None
    BY <1>1, <1>3 DEF Exposed, Idle
  <2> QED
    BY <2>1, <2>2 DEF MayWrite, MayEdit
<1>4. ASSUME NEW k \in Handlers
      PROVE  Grounded(task[k])'
  <2>1. CASE k = h
    BY <1>1, <2>1 DEF Grounded, Idle
  <2>2. CASE k # h /\ Exposed(task[k])
    <3>1. task[k].pc = "edit" => task[k].row \in Rows
      BY DEF ContentInv, TypeOK, Tasks, Idle
    <3> QED
      BY <1>1, <2>2, <3>1 DEF ContentInv, Grounded, Exposed
  <2>3. CASE k # h /\ ~Exposed(task[k])
    <3>1. task'[k] = task[k] /\ Grounded(task[k])
      BY <1>1, <2>3 DEF ContentInv
    <3>2. /\ task[k].pc = "comment" => task[k].row \in Rows /\ task[k].parent \in 0..MaxComments
          /\ task[k].pc \in {"edit", "judge"} => task[k].row \in Rows
      BY DEF ContentInv, TypeOK, Tasks, Idle
    <3> QED
      BY <3>1, <3>2, ListingConstants DEF Grounded, Rows, Comments
  <2> QED
    BY <2>1, <2>2, <2>3
<1> QED
  BY <1>2, <1>3, <1>4 DEF UndisturbedWritesSucceed

-----------------------------------------------------------------------------
(* One lemma per operation.                                                *)

\* createPackage and createPost up to the insert; the slug chosen is free.
LEMMA CreateSteps ==
    ASSUME ContentInv, NEW h \in Handlers,
           \/ \E b \in Bases, c \in Categories \cup {None} : StartCreate(h, b, c)
           \/ ChooseSlug(h)
    PROVE  ContentInv'
<1>1. ASSUME NEW b \in Bases, NEW c \in Categories \cup {None}, StartCreate(h, b, c)
      PROVE  ContentInv'
  <2> DEFINE t == [pc |-> "slug", base |-> b, category |-> c, overlap |-> FALSE]
  <2>1. Sound(t)
    BY <1>1, ListingConstants DEF StartCreate, Sound, Tasks, MayWrite, Grounded
  <2> HIDE DEF t
  <2> QED
    BY <1>1, <2>1, QuietStep DEF StartCreate, t, tables
<1>2. CASE ChooseSlug(h)
  <2> DEFINE t == task[h]
             new == UniqueSlug(t.base, SlugsInUse)
             u == [pc |-> "insert", slug |-> new, category |-> t.category, overlap |-> t.overlap]
  <2>1. t \in [pc : {"slug"}, base : Bases, category : Categories \cup {None}, overlap : BOOLEAN]
    BY <1>2 DEF ChooseSlug, At, ContentInv, TypeOK, Tasks, Idle
  <2>2. new \in Seq(Nat) \ {<<>>} /\ new \notin SlugsInUse
    <3>1. t.base \in Seq(Nat) \ {<<>>}
      BY <2>1, ListingConstants
    <3> QED
      BY <3>1, SlugsAreFinite, SlugIsFree DEF ContentInv, TypeOK
  <2>3. u \in Tasks
    BY <2>1, <2>2 DEF Tasks
  <2>4. ~u.overlap => MayWrite(u)
    BY <1>2, <2>1, <2>2 DEF ChooseSlug, At, ContentInv, UndisturbedWritesSucceed, MayWrite, MayInsert
  <2>5. Grounded(u)
    BY <1>2 DEF ChooseSlug, At, ContentInv, Grounded
  <2> HIDE DEF u, t, new
  <2> QED
    BY <1>2, <2>3, <2>4, <2>5, QuietStep DEF ChooseSlug, u, t, new, tables, Sound
<1> QED
  BY <1>1, <1>2

\* The insert of the row.
LEMMA InsertRowStep ==
    ASSUME ContentInv, NEW h \in Handlers, InsertRow(h)
    PROVE  ContentInv'
<1> DEFINE t == task[h]
<1>1. t \in [pc : {"insert"}, slug : Seq(Nat) \ {<<>>}, category : Categories \cup {None},
             overlap : BOOLEAN]
  BY DEF InsertRow, At, ContentInv, TypeOK, Tasks, Idle
<1>2. PICK r \in Rows :
        /\ ~Exists(r)
        /\ slug' = [slug EXCEPT ![r] = t.slug]
        /\ status' = [status EXCEPT ![r] = FirstStatus]
        /\ category' = [category EXCEPT ![r] = t.category]
        /\ unseen' = unseen \cup {r}
  BY DEF InsertRow
<1>3. UNCHANGED <<kind, removed, name, post, parent, erased>> /\ Committed(h) /\ MayInsert(t)
  BY DEF InsertRow, commentVars
<1>4. RowTypes'
  <2>1. FirstStatus \in Statuses /\ FirstStatus # None /\ Statuses' = Statuses
    BY <1>3, KindFixesTypes DEF FirstStatus, Statuses, None
  <2>2. \A k \in Rows : Exists(k)' <=> (Exists(k) \/ k = r)
    BY <1>1, <1>2 DEF Exists, ContentInv, TypeOK, RowTypes
  <2> QED
    BY <1>1, <1>2, <1>3, <2>1, <2>2 DEF ContentInv, TypeOK, RowTypes
<1>5. PublicHasVerdict'
  <2>1. FirstStatus # PublicStatus
    BY DEF FirstStatus, PublicStatus
  <2> QED
    BY <1>2, <1>3, <2>1
    DEF ContentInv, TypeOK, RowTypes, PublicHasVerdict, Public, PublicStatus, FirstStatus
<1>6. NoOrphans'
  <2> SUFFICES ASSUME kind = "package", NEW k \in Rows, Exists(k)'
               PROVE  Filed(category'[k])
    BY <1>3 DEF NoOrphans, Filed
  <2>1. CASE k = r
    BY <1>2, <1>3, <2>1 DEF InsertRow, At, ContentInv, Grounded, MayInsert, TypeOK, RowTypes
  <2>2. CASE k # r
    BY <1>2, <2>2 DEF ContentInv, NoOrphans, Exists, TypeOK, RowTypes
  <2> QED
    BY <2>1, <2>2
<1>7. ThreadsAreFlat'
  BY <1>3 DEF ContentInv, ThreadsAreFlat
<1>8. \A k \in Rows : Exists(k) => Exists(k)'
  BY <1>1, <1>2 DEF Exists, ContentInv, TypeOK, RowTypes
<1> QED
  BY <1>3, <1>4, <1>5, <1>6, <1>7, <1>8, OthersStaySound DEF ContentInv, TypeOK

\* updatePackage, updatePost.
LEMMA EditSteps ==
    ASSUME ContentInv, NEW h \in Handlers,
           \/ \E r \in Rows, c \in Categories \cup {None}, agent \in BOOLEAN :
                StartEdit(h, r, c, agent)
           \/ EditRow(h)
    PROVE  ContentInv'
<1>1. ASSUME NEW r \in Rows, NEW c \in Categories \cup {None}, NEW agent \in BOOLEAN,
             StartEdit(h, r, c, agent)
      PROVE  ContentInv'
  <2> DEFINE t == [pc |-> "edit", row |-> r, category |-> c, agent |-> agent, overlap |-> FALSE]
  <2>1. Sound(t)
    BY <1>1 DEF StartEdit, Sound, Tasks, MayWrite, MayEdit, Grounded
  <2> HIDE DEF t
  <2> QED
    BY <1>1, <2>1, QuietStep DEF StartEdit, t, tables
<1>2. CASE EditRow(h)
  <2> DEFINE t == task[h]
             r == t.row
  <2>1. t \in [pc : {"edit"}, row : Rows, category : Categories \cup {None}, agent : BOOLEAN,
               overlap : BOOLEAN]
    BY <1>2 DEF EditRow, At, ContentInv, TypeOK, Tasks, Idle
  <2>2. /\ UNCHANGED <<kind, slug, removed, name, post, parent, erased>>
        /\ Committed(h) /\ MayEdit(t)
        /\ status' = [status EXCEPT ![r] = StatusAfterEdit(t)]
        /\ category' = IF t.category = None THEN category ELSE [category EXCEPT ![r] = t.category]
        /\ unseen' = IF t.agent THEN unseen \cup {r} ELSE unseen
    BY <1>2 DEF EditRow, commentVars
  <2>3. r \in Rows /\ Exists(r)
    BY <1>2, <2>1 DEF EditRow, At, ContentInv, Grounded
  <2>4. /\ StatusAfterEdit(t) = IF t.agent THEN FirstStatus ELSE status[r]
        /\ FirstStatus \in Statuses /\ None \notin Statuses /\ FirstStatus # PublicStatus
        /\ Statuses' = Statuses /\ PublicStatus' = PublicStatus
    BY <2>2 DEF StatusAfterEdit, FirstStatus, PublicStatus, Statuses, None
  <2>5. \A k \in Rows : Exists(k)' <=> Exists(k)
    BY <2>2 DEF Exists
  <2>6. RowTypes'
    BY <2>1, <2>2, <2>3, <2>4, <2>5 DEF ContentInv, TypeOK, RowTypes
  <2>7. PublicHasVerdict'
    BY <2>1, <2>2, <2>3, <2>4 DEF ContentInv, TypeOK, RowTypes, PublicHasVerdict, Public
  <2>8. NoOrphans'
    BY <2>1, <2>2, <2>3, <2>5 DEF ContentInv, TypeOK, RowTypes, NoOrphans, Filed, MayEdit
  <2>9. ThreadsAreFlat'
    BY <2>2 DEF ContentInv, ThreadsAreFlat
  <2> QED
    BY <2>2, <2>5, <2>6, <2>7, <2>8, <2>9, OthersStaySound DEF ContentInv, TypeOK
<1> QED
  BY <1>1, <1>2

\* changePackageStatus, changePostStatus.
LEMMA VerdictSteps ==
    ASSUME ContentInv, NEW h \in Handlers,
           \/ \E r \in Rows, verdict \in Verdicts : StartVerdict(h, r, verdict)
           \/ WriteVerdict(h)
    PROVE  ContentInv'
<1>1. ASSUME NEW r \in Rows, NEW verdict \in Verdicts, StartVerdict(h, r, verdict)
      PROVE  ContentInv'
  <2> DEFINE t == [pc |-> "judge", row |-> r, verdict |-> verdict, overlap |-> FALSE]
  <2>1. Verdicts \subseteq Statuses
    BY DEF Verdicts, PackageVerdicts, PostVerdicts, Statuses, FirstStatus
  <2>2. Sound(t)
    BY <1>1, <2>1 DEF StartVerdict, Sound, Tasks, MayWrite, Grounded
  <2> HIDE DEF t
  <2> QED
    BY <1>1, <2>2, QuietStep DEF StartVerdict, t, tables
<1>2. CASE WriteVerdict(h)
  <2> DEFINE t == task[h]
             r == t.row
  <2>1. t \in [pc : {"judge"}, row : Rows, verdict : Statuses, overlap : BOOLEAN]
    BY <1>2 DEF WriteVerdict, At, ContentInv, TypeOK, Tasks, Idle
  <2>2. /\ UNCHANGED <<kind, slug, removed, category, name, post, parent, erased>>
        /\ Committed(h)
        /\ status' = [status EXCEPT ![r] = t.verdict]
        /\ unseen' = unseen \ {r}
    BY <1>2 DEF WriteVerdict, commentVars
  <2>3. r \in Rows /\ Exists(r)
    BY <1>2, <2>1 DEF WriteVerdict, At, ContentInv, Grounded
  <2>4. None \notin Statuses /\ Statuses' = Statuses /\ PublicStatus' = PublicStatus
    BY <2>2 DEF FirstStatus, PublicStatus, Statuses, None
  <2>5. \A k \in Rows : Exists(k)' <=> Exists(k)
    BY <2>2 DEF Exists
  <2>6. RowTypes'
    BY <2>1, <2>2, <2>3, <2>4, <2>5 DEF ContentInv, TypeOK, RowTypes
  <2>7. PublicHasVerdict'
    BY <2>1, <2>2, <2>3, <2>4 DEF ContentInv, TypeOK, RowTypes, PublicHasVerdict, Public
  <2>8. NoOrphans' /\ ThreadsAreFlat'
    BY <2>2, <2>5 DEF ContentInv, NoOrphans, Filed, ThreadsAreFlat
  <2> QED
    BY <2>2, <2>5, <2>6, <2>7, <2>8, OthersStaySound DEF ContentInv, TypeOK
<1> QED
  BY <1>1, <1>2

\* softDeletePackage and softDeletePost, and requests that fail.
LEMMA SoftDeleteStep ==
    ASSUME ContentInv, NEW h \in Handlers, NEW r \in Rows, SoftDelete(h, r)
    PROVE  ContentInv'
<1>1. /\ UNCHANGED <<kind, slug, status, unseen, category, name, post, parent, erased>>
      /\ Committed(h) /\ Exists(r) /\ removed' = removed \cup {r}
  BY DEF SoftDelete, commentVars
<1>2. \A k \in Rows : Exists(k)' <=> Exists(k)
  BY <1>1 DEF Exists
<1>3. RowTypes'
  BY <1>1, <1>2, KindFixesTypes DEF ContentInv, TypeOK, RowTypes
<1>4. PublicHasVerdict' /\ NoOrphans' /\ ThreadsAreFlat'
  BY <1>1, <1>2
  DEF ContentInv, PublicHasVerdict, Public, PublicStatus, NoOrphans, Filed, ThreadsAreFlat
<1> QED
  BY <1>1, <1>2, <1>3, <1>4, OthersStaySound DEF ContentInv, TypeOK

LEMMA FailedStep ==
    ASSUME ContentInv, NEW h \in Handlers, Fails(h)
    PROVE  ContentInv'
<1>1. Sound(Idle)
  BY DEF Sound, Tasks, Idle, MayWrite, Grounded
<1> QED
  BY <1>1, QuietStep DEF Fails, Done, tables

\* Every write of category names keeps the packages filed, if it keeps the
\* categories they are in.
LEMMA NamesWritten ==
    ASSUME ContentInv, NEW h \in Handlers, Committed(h),
           UNCHANGED <<kind, rowVars, commentVars>>,
           name' \in [Categories -> Names \cup {None, Gone}],
           kind = "package" =>
             \A r \in Rows : Exists(r) => Filed(category[r])'
    PROVE  ContentInv'
<1> USE DEF rowVars, commentVars
<1>1. \A k \in Rows : Exists(k)' <=> Exists(k)
  BY DEF Exists
<1>2. RowTypes'
  BY <1>1, KindFixesTypes DEF ContentInv, TypeOK, RowTypes
<1>3. PublicHasVerdict' /\ NoOrphans' /\ ThreadsAreFlat'
  BY <1>1 DEF ContentInv, PublicHasVerdict, Public, PublicStatus, NoOrphans, ThreadsAreFlat
<1> QED
  BY <1>1, <1>2, <1>3, OthersStaySound DEF ContentInv, TypeOK

\* createCategory, updateCategory, deleteCategory.
LEMMA CategorySteps ==
    ASSUME ContentInv, NEW h \in Handlers, kind = "package", CategoryStep(h)
    PROVE  ContentInv'
<1>0. /\ name \in [Categories -> Names \cup {None, Gone}]
      /\ \A r \in Rows : Exists(r) => Filed(category[r])
  BY DEF ContentInv, TypeOK, RowTypes, NoOrphans
<1>1. ASSUME NEW n \in Names, StartFile(h, n)
      PROVE  ContentInv'
  <2> DEFINE t == [pc |-> "file", name |-> n, overlap |-> FALSE]
  <2>1. Sound(t)
    BY <1>1 DEF StartFile, NameAvailable, Sound, Tasks, MayWrite, Grounded
  <2> HIDE DEF t
  <2> QED
    BY <1>1, <2>1, QuietStep DEF StartFile, t, tables
<1>2. ASSUME NEW c \in Categories, NEW n \in Names, StartRename(h, c, n)
      PROVE  ContentInv'
  <2> DEFINE t == [pc |-> "rename", category |-> c, name |-> n, overlap |-> FALSE]
  <2>1. Sound(t)
    BY <1>2 DEF StartRename, NameAvailable, Sound, Tasks, MayWrite, Grounded
  <2> HIDE DEF t
  <2> QED
    BY <1>2, <2>1, QuietStep DEF StartRename, t, tables
<1>3. ASSUME NEW c \in Categories, StartDrop(h, c)
      PROVE  ContentInv'
  <2> DEFINE t == [pc |-> "drop", category |-> c, overlap |-> FALSE]
  <2>1. Sound(t)
    BY <1>3 DEF StartDrop, Sound, Tasks, MayWrite, MayDrop, Grounded
  <2> HIDE DEF t
  <2> QED
    BY <1>3, <2>1, QuietStep DEF StartDrop, t, tables
<1>4. CASE FileCategory(h)
  <2>1. task[h].name \in Names
    BY <1>4 DEF FileCategory, At, ContentInv, TypeOK, Tasks, Idle
  <2>2. PICK c \in Categories : name[c] = None /\ name' = [name EXCEPT ![c] = task[h].name]
    BY <1>4 DEF FileCategory
  <2>3. \A k : Filed(k) => Filed(k)'
    BY <1>0, <2>1, <2>2, ListingConstants DEF Filed
  <2> QED
    BY <1>0, <1>4, <2>1, <2>2, <2>3, NamesWritten DEF FileCategory, rowVars, Exists
<1>5. CASE RenameCategory(h)
  <2>1. task[h].name \in Names /\ task[h].category \in Categories
    BY <1>5 DEF RenameCategory, At, ContentInv, TypeOK, Tasks, Idle
  <2>2. name' = [name EXCEPT ![task[h].category] = task[h].name]
    BY <1>5 DEF RenameCategory
  <2>3. \A k : Filed(k) => Filed(k)'
    BY <1>0, <2>1, <2>2, ListingConstants DEF Filed
  <2> QED
    BY <1>0, <1>5, <2>1, <2>2, <2>3, NamesWritten DEF RenameCategory, rowVars, Exists
<1>6. CASE DropCategory(h)
  <2> DEFINE c == task[h].category
  <2>1. c \in Categories /\ ~Referenced(c)
    BY <1>6 DEF DropCategory, MayDrop, Filed
  <2>2. name' = [name EXCEPT ![c] = Gone]
    BY <1>6 DEF DropCategory
  <2>3. \A k : Filed(k) /\ k # c => Filed(k)'
    BY <1>0, <2>1, <2>2 DEF Filed
  <2>4. \A r \in Rows : Exists(r) => category[r] # c
    BY <2>1 DEF Referenced
  <2> QED
    BY <1>0, <1>6, <2>1, <2>2, <2>3, <2>4, NamesWritten DEF DropCategory, rowVars, Exists
<1> QED
  BY <1>1, <1>2, <1>3, <1>4, <1>5, <1>6 DEF CategoryStep

\* createComment, deleteComment.
LEMMA CommentSteps ==
    ASSUME ContentInv, NEW h \in Handlers, CommentStep(h)
    PROVE  ContentInv'
<1>0. /\ post \in [Comments -> Rows \cup {0}] /\ parent \in [Comments -> 0..MaxComments]
      /\ erased \subseteq {c \in Comments : post[c] # 0}
      /\ \A c \in Comments : parent[c] # 0 => post[c] # 0
      /\ 0..MaxComments = Comments \cup {0} /\ 0 \notin Rows /\ 0 \notin Comments
  BY ListingConstants DEF ContentInv, TypeOK, RowTypes, Comments, Rows
<1>1. ASSUME NEW r \in Rows, NEW p \in 0..MaxComments, StartComment(h, r, p)
      PROVE  ContentInv'
  <2> DEFINE t == [pc |-> IF p = 0 THEN "comment" ELSE "parent",
                   row |-> r, parent |-> p, overlap |-> FALSE]
  <2>1. Sound(t)
    BY <1>1 DEF StartComment, Sound, Tasks, MayWrite, Grounded
  <2> HIDE DEF t
  <2> QED
    BY <1>1, <2>1, QuietStep DEF StartComment, t, tables
<1>2. CASE CheckParent(h)
  <2> DEFINE t == task[h]
             u == [t EXCEPT !.pc = "comment"]
  <2>1. t \in [pc : {"parent", "comment"}, row : Rows, parent : 0..MaxComments, overlap : BOOLEAN]
    BY <1>2 DEF CheckParent, At, ContentInv, TypeOK, Tasks, Idle
  <2>2. /\ u \in [pc : {"parent", "comment"}, row : Rows, parent : 0..MaxComments, overlap : BOOLEAN]
        /\ u.pc = "comment" /\ u.row = t.row /\ u.parent = t.parent
    BY <2>1
  <2>3. Sound(u)
    BY <1>2, <2>2 DEF CheckParent, Answerable, Sound, Tasks, MayWrite, Grounded
  <2> HIDE DEF u
  <2> QED
    BY <1>2, <2>3, QuietStep DEF CheckParent, u, tables
<1>3. CASE InsertComment(h)
  <2> DEFINE t == task[h]
  <2>1. t.row \in Rows /\ t.parent \in 0..MaxComments
    BY <1>3 DEF InsertComment, At, ContentInv, TypeOK, Tasks, Idle
  <2>2. PICK c \in Comments :
          post[c] = 0 /\ post' = [post EXCEPT ![c] = t.row] /\ parent' = [parent EXCEPT ![c] = t.parent]
    BY <1>3 DEF InsertComment
  <2>3. UNCHANGED <<kind, slug, status, removed, unseen, category, name, erased>> /\ Committed(h)
    BY <1>3 DEF InsertComment, rowVars
  <2>4. \A d \in Comments : post[d] # 0 => post'[d] = post[d] /\ parent'[d] = parent[d]
    BY <1>0, <2>2
  <2>5. \A k \in Rows : Exists(k)' <=> Exists(k)
    BY <2>3 DEF Exists
  <2>6. /\ post' \in [Comments -> Rows \cup {0}] /\ parent' \in [Comments -> 0..MaxComments]
        /\ \A d \in Comments : parent'[d] # 0 => post'[d] # 0
        /\ erased' \subseteq {d \in Comments : post'[d] # 0}
    BY <1>0, <2>1, <2>2, <2>3
  <2>7. RowTypes'
    BY <2>3, <2>5, <2>6, KindFixesTypes DEF ContentInv, TypeOK, RowTypes
  <2>8. PublicHasVerdict' /\ NoOrphans'
    BY <2>3, <2>5 DEF ContentInv, PublicHasVerdict, Public, PublicStatus, NoOrphans, Filed
  <2>9. ThreadsAreFlat'
    <3> SUFFICES ASSUME NEW d \in Comments, parent'[d] # 0
                 PROVE  post'[parent'[d]] = post'[d] /\ parent'[parent'[d]] = 0
      BY DEF ThreadsAreFlat
    <3>1. CASE d = c
      <4>1. t.parent # 0 /\ post[t.parent] = t.row /\ parent[t.parent] = 0
        BY <1>0, <1>3, <2>2, <3>1 DEF InsertComment, At, ContentInv, Grounded
      <4> QED
        BY <1>0, <2>1, <2>2, <2>4, <3>1, <4>1
    <3>2. CASE d # c
      <4>1. /\ parent[d] # 0 /\ parent'[d] = parent[d] /\ post'[d] = post[d]
            /\ post[parent[d]] = post[d] /\ parent[parent[d]] = 0
        BY <1>0, <2>2, <3>2 DEF ContentInv, ThreadsAreFlat
      <4> QED
        BY <1>0, <2>4, <4>1
    <3> QED
      BY <3>1, <3>2
  <2> QED
    BY <2>3, <2>4, <2>5, <2>7, <2>8, <2>9, OthersStaySound DEF ContentInv, TypeOK
<1>4. ASSUME NEW c \in Comments, DeleteComment(h, c)
      PROVE  ContentInv'
  <2>1. /\ UNCHANGED <<kind, slug, status, removed, unseen, category, name, post, parent>>
        /\ Committed(h) /\ post[c] # 0 /\ erased' = erased \cup {c}
    BY <1>4 DEF DeleteComment, rowVars
  <2>2. \A k \in Rows : Exists(k)' <=> Exists(k)
    BY <2>1 DEF Exists
  <2>3. RowTypes'
    BY <2>1, <2>2, KindFixesTypes DEF ContentInv, TypeOK, RowTypes
  <2>4. PublicHasVerdict' /\ NoOrphans' /\ ThreadsAreFlat'
    BY <2>1, <2>2
    DEF ContentInv, PublicHasVerdict, Public, PublicStatus, NoOrphans, Filed, ThreadsAreFlat
  <2> QED
    BY <2>1, <2>2, <2>3, <2>4, OthersStaySound DEF ContentInv, TypeOK
<1> QED
  BY <1>1, <1>2, <1>3, <1>4 DEF CommentStep

-----------------------------------------------------------------------------
(* The theorems.                                                           *)

\* The invariant holds for any number of rows, categories, comments, requests.
THEOREM ContentInvariant == Spec => []ContentInv
<1>1. Init => ContentInv
  <2> SUFFICES ASSUME Init
               PROVE  ContentInv
    OBVIOUS
  <2>1. RowTypes
    BY ListingConstants DEF Init, RowTypes, Exists
  <2>2. task \in [Handlers -> Tasks]
    BY DEF Init, Tasks
  <2>3. \A r \in Rows : ~Public(r) /\ ~Exists(r)
    BY DEF Init, Public, PublicStatus, Exists, None
  <2>4. \A h \in Handlers : MayWrite(task[h]) /\ Grounded(task[h])
    BY DEF Init, Idle, MayWrite, Grounded
  <2>5. ThreadsAreFlat
    BY DEF Init, ThreadsAreFlat
  <2> QED
    BY <2>1, <2>2, <2>3, <2>4, <2>5
    DEF ContentInv, TypeOK, UndisturbedWritesSucceed, PublicHasVerdict, NoOrphans
<1>2. ContentInv /\ [Next]_vars => ContentInv'
  <2> SUFFICES ASSUME ContentInv, [Next]_vars
               PROVE  ContentInv'
    OBVIOUS
  <2>1. ASSUME NEW h \in Handlers, ListingStep(h)
        PROVE  ContentInv'
    BY <2>1, CreateSteps, InsertRowStep, EditSteps, VerdictSteps, SoftDeleteStep, FailedStep
    DEF ListingStep
  <2>2. CASE UNCHANGED vars
    <3>1. Tasks' = Tasks
      BY <2>2, KindFixesTypes DEF vars
    <3> QED
      BY <2>2, <3>1 DEF vars, rowVars, commentVars, ContentInv, TypeOK, RowTypes, Exists, Statuses,
         FirstStatus, UndisturbedWritesSucceed, MayWrite, MayInsert, SlugsInUse, MayEdit, Filed,
         NameFree, MayDrop, Referenced, PublicHasVerdict, Public, PublicStatus, NoOrphans,
         ThreadsAreFlat, Grounded
  <2> QED
    BY <2>1, <2>2, CategorySteps, CommentSteps DEF Next
<1> QED
  BY <1>1, <1>2, PTL DEF Spec

\* Every column and every local keeps its type.
THEOREM ContentTypeCorrect == Spec => []TypeOK
<1>1. ContentInv => TypeOK
  BY DEF ContentInv
<1> QED
  BY <1>1, ContentInvariant, PTL

\* A request is refused by an index or a foreign key only after an overlap.
THEOREM ChecksAgreeWithIndexes == Spec => []UndisturbedWritesSucceed
<1>1. ContentInv => UndisturbedWritesSucceed
  BY DEF ContentInv
<1> QED
  BY <1>1, ContentInvariant, PTL

\* Nothing an agent wrote is public without a later verdict.
THEOREM NothingLeaks == Spec => []PublicHasVerdict
<1>1. ContentInv => PublicHasVerdict
  BY DEF ContentInv
<1> QED
  BY <1>1, ContentInvariant, PTL

\* No package ever loses its category.
THEOREM PackagesStayFiled == Spec => []NoOrphans
<1>1. ContentInv => NoOrphans
  BY DEF ContentInv
<1> QED
  BY <1>1, ContentInvariant, PTL

\* Replies stay one level deep and on their post.
THEOREM RepliesStayFlat == Spec => []ThreadsAreFlat
<1>1. ContentInv => ThreadsAreFlat
  BY DEF ContentInv
<1> QED
  BY <1>1, ContentInvariant, PTL

=============================================================================
