------------------------------- MODULE Content ------------------------------
(***************************************************************************)
(* What the site publishes: packages with their categories, or posts with  *)
(* their comments, with any number of requests in flight.                  *)
(***************************************************************************)
EXTENDS CategoryService, CommentService

Init ==
    /\ kind \in Kinds
    /\ slug = [r \in Rows |-> <<>>]
    /\ status = [r \in Rows |-> None]
    /\ removed = {}
    /\ unseen = {}
    /\ category = [r \in Rows |-> None]
    /\ name = [c \in Categories |-> None]
    /\ post = [c \in Comments |-> 0]
    /\ parent = [c \in Comments |-> 0]
    /\ erased = {}
    /\ task = [h \in Handlers |-> Idle]

Next == \E h \in Handlers :
    \/ ListingStep(h)
    \/ kind = "package" /\ CategoryStep(h)
    \/ kind = "post" /\ CommentStep(h)

Spec == Init /\ [][Next]_vars

-----------------------------------------------------------------------------

\* Every column has a value of its declaration.
RowTypes ==
    /\ kind \in Kinds
    /\ slug \in [Rows -> Seq(Nat)]
    /\ status \in [Rows -> Statuses \cup {None}]
    /\ \A r \in Rows : Exists(r) <=> status[r] # None
    /\ removed \cup unseen \subseteq {r \in Rows : Exists(r)}
    /\ category \in [Rows -> Categories \cup {None}]
    /\ name \in [Categories -> Names \cup {None, Gone}]
    /\ post \in [Comments -> Rows \cup {0}]
    /\ parent \in [Comments -> 0..MaxComments]
    /\ \A c \in Comments : parent[c] # 0 => post[c] # 0
    /\ erased \subseteq {c \in Comments : post[c] # 0}

\* ... and every local.
TypeOK == RowTypes /\ task \in [Handlers -> Tasks]

\* The indexes and foreign keys would let the request write now.
MayWrite(t) ==
    /\ t.pc = "slug" => (t.category # None => Filed(t.category))
    /\ t.pc = "insert" => MayInsert(t)
    /\ t.pc = "edit" => MayEdit(t)
    /\ t.pc = "file" => NameFree(t.name, {})
    /\ t.pc = "rename" => Filed(t.category) /\ NameFree(t.name, {t.category})
    /\ t.pc = "drop" => MayDrop(t)

\* generateUniqueSlug, validateCategory, assertNameAvailable and the count of
\* deleteCategory check all that the indexes and foreign keys will: a write is
\* refused only if another request wrote after its checks.
UndisturbedWritesSucceed == \A h \in Handlers : ~task[h].overlap => MayWrite(task[h])

\* package.service.ts:77 "New packages start PENDING and never leak into public
\* queries until an admin approves them", and the agent's edits likewise: what
\* is public carries a verdict written after the agent's last words.
PublicHasVerdict == \A r \in Rows : Public(r) => r \notin unseen

\* category.service.ts:72 and the foreign key: however a deletion and a new or
\* moved package cross, every package has a category that is there.
NoOrphans == kind = "package" => \A r \in Rows : Exists(r) => Filed(category[r])

\* blogComment.service.ts:79: a reply answers a top-level comment of its post,
\* whatever happened to comment and post while it was being written.
ThreadsAreFlat ==
    \A c \in Comments :
        parent[c] # 0 => post[parent[c]] = post[c] /\ parent[parent[c]] = 0

\* What a request's locals say stays so: a row that was read is there, a new
\* package has a category; a reply that passed its check answers a top-level
\* comment, since comments never move.
Grounded(t) ==
    /\ t.pc \in {"edit", "judge"} => Exists(t.row)
    /\ t.pc \in {"slug", "insert"} /\ kind = "package" => t.category # None
    /\ t.pc = "comment" /\ t.parent # 0 =>
          post[t.parent] = t.row /\ parent[t.parent] = 0

\* The inductive invariant: the properties and what in-flight requests know.
ContentInv ==
    /\ TypeOK
    /\ UndisturbedWritesSucceed
    /\ PublicHasVerdict
    /\ NoOrphans
    /\ ThreadsAreFlat
    /\ \A h \in Handlers : Grounded(task[h])

=============================================================================
