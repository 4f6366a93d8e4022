------------------------------ MODULE Listings ------------------------------
(***************************************************************************)
(* Tour packages and blog posts, their categories and comments: the tables *)
(* and the operations packages and posts share.  package.service.ts and    *)
(* blog.service.ts run the same machine, one on tour_packages and one on   *)
(* blog_posts; kind says which of the two a behaviour is about.  Who may   *)
(* act (the owner or an admin) never changes for a row and is left out.    *)
(***************************************************************************)
EXTENDS Integers, Sequences, SequencesExt, FiniteSets, FiniteSetsExt

CONSTANTS
    Kinds,          \* "package", "post" or both
    Bases,          \* slugified titles: <<0>> is "trip", <<0, 2>> "trip-2"
    OldSlugs,       \* slugs of rows removed before: soft deletion keeps them
    MaxRows,        \* listings there can be
    Categories,     \* category ids; an id is never used again
    Names,          \* category names
    CategorySlug,   \* slug of each name; two names may share one
    MaxComments,    \* comments there can be
    Handlers        \* requests the server may be serving at the same time

None == "none"
Gone == "gone"     \* a category that has been deleted

ASSUME ListingConstants ==
    /\ Kinds \subseteq {"package", "post"}
    /\ Bases \cup OldSlugs \subseteq Seq(Nat) \ {<<>>} /\ IsFiniteSet(OldSlugs)
    /\ MaxRows \in Nat /\ MaxComments \in Nat
    /\ None \notin Categories /\ {None, Gone} \cap Names = {}

Rows == 1..MaxRows
Comments == 1..MaxComments

VARIABLES
    kind,       \* which table the rows are
    slug,       \* per row, <<>> while there is no such row
    status,     \* PackageStatus or PostStatus
    removed,    \* isDeleted
    unseen,     \* history: rows an agent has written since the last verdict
    category,   \* per package its category
    name,       \* per category its name
    post,       \* per comment its post, 0 while there is no such comment
    parent,     \* per comment the comment it answers, 0 for top level
    erased,     \* deleted comments
    task        \* per handler: the request it serves

rowVars == <<slug, status, removed, unseen, category>>
commentVars == <<post, parent, erased>>
vars == <<kind, rowVars, name, commentVars, task>>

FirstStatus == IF kind = "package" THEN "PENDING" ELSE "DRAFT"
PublicStatus == IF kind = "package" THEN "APPROVED" ELSE "PUBLISHED"
\* What an admin may set; the last word on a package is never PENDING.
PackageVerdicts == {"APPROVED", "REJECTED"}

PostVerdicts == {"DRAFT", "PUBLISHED"}
Verdicts == IF kind = "package" THEN PackageVerdicts ELSE PostVerdicts
Statuses == {FirstStatus} \cup
    IF kind = "package" THEN {"APPROVED", "REJECTED"} ELSE {"PUBLISHED"}

Exists(r) == slug[r] # <<>>
Public(r) == status[r] = PublicStatus /\ r \notin removed
Filed(c) == c \in Categories /\ name[c] \notin {None, Gone}
SlugsInUse == OldSlugs \cup {slug[r] : r \in {k \in Rows : Exists(k)}}

-----------------------------------------------------------------------------
(* Requests.                                                               *)

\* overlap is history: another request has written since this one's first read.
Idle == [pc |-> "idle", overlap |-> FALSE]

Tasks ==
    {Idle}
    \cup [pc : {"slug"}, base : Bases, category : Categories \cup {None}, overlap : BOOLEAN]
    \cup [pc : {"insert"}, slug : Seq(Nat) \ {<<>>}, category : Categories \cup {None}, overlap : BOOLEAN]
    \cup [pc : {"edit"}, row : Rows, category : Categories \cup {None}, agent : BOOLEAN,
          overlap : BOOLEAN]
    \cup [pc : {"judge"}, row : Rows, verdict : Statuses, overlap : BOOLEAN]
    \cup [pc : {"file"}, name : Names, overlap : BOOLEAN]
    \cup [pc : {"rename"}, category : Categories, name : Names, overlap : BOOLEAN]
    \cup [pc : {"drop"}, category : Categories, overlap : BOOLEAN]
    \cup [pc : {"parent", "comment"}, row : Rows, parent : 0..MaxComments, overlap : BOOLEAN]

At(h, label) == task[h].pc = label
Become(h, t) == task' = [task EXCEPT ![h] = t]
Done(h) == Become(h, Idle)

\* A write that an index or a foreign key may refuse is still to come.
Exposed(t) ==
    \/ t.pc \in {"slug", "insert", "file", "rename", "drop"}
    \/ t.pc = "edit" /\ t.category # None

\* The request has written and ends; the others in flight are overlapped.
Committed(h) ==
    task' = [k \in Handlers |->
               CASE k = h -> Idle
                 [] k # h /\ Exposed(task[k]) -> [task[k] EXCEPT !.overlap = TRUE]
                 [] OTHER -> task[k]]

\* The database refuses a statement, or the request fails: nothing is written.
Fails(h) ==
    /\ ~At(h, "idle")
    /\ Done(h)
    /\ UNCHANGED <<kind, rowVars, name, commentVars>>

-----------------------------------------------------------------------------
(* Slugs.                                                                  *)

\* Mutant: the first collision always gets the suffix 2.
AlwaysSecond(base, used) == IF base \in used THEN Append(base, 2) ELSE base

\* generateUniqueSlug: the base, or the base with the first free suffix, among
\* the slugs that start with it.
UniqueSlug(base, used) ==
    LET alike == {s \in used : IsPrefix(base, s)}
        free  == {n \in 2 .. Cardinality(alike) + 2 : Append(base, n) \notin alike}
    IN  IF base \notin alike THEN base ELSE Append(base, Min(free))

\* createPackage begins with validateCategory, createPost has no category.
StartCreate(h, base, c) ==
    /\ At(h, "idle")
    /\ \E r \in Rows : ~Exists(r)
    /\ IF kind = "package" THEN c \in Categories /\ Filed(c) ELSE c = None
    /\ Become(h, [pc |-> "slug", base |-> base, category |-> c, overlap |-> FALSE])
    /\ UNCHANGED <<kind, rowVars, name, commentVars>>

ChooseSlug(h) ==
    LET t == task[h] IN
    /\ At(h, "slug")
    /\ Become(h, [pc |-> "insert", slug |-> UniqueSlug(t.base, SlugsInUse),
                  category |-> t.category, overlap |-> t.overlap])
    /\ UNCHANGED <<kind, rowVars, name, commentVars>>

\* What the unique index on slug and the foreign key let in.
MayInsert(t) ==
    /\ t.slug \notin SlugsInUse
    /\ t.category # None => Filed(t.category)

\* The new row has the first status of its table.
InsertRow(h) ==
    LET t == task[h] IN
    /\ At(h, "insert")
    /\ MayInsert(t)
    /\ \E r \in Rows :
        /\ ~Exists(r) /\ \A k \in 1 .. r - 1 : Exists(k)
        /\ slug' = [slug EXCEPT ![r] = t.slug]
        /\ status' = [status EXCEPT ![r] = FirstStatus]
        /\ category' = [category EXCEPT ![r] = t.category]
        /\ unseen' = unseen \cup {r}
    /\ Committed(h)
    /\ UNCHANGED <<kind, removed, name, commentVars>>

-----------------------------------------------------------------------------
(* Edits and verdicts.                                                     *)

\* updatePackage, updatePost: the row is there, deleted or not, and so is the
\* category the payload names.
StartEdit(h, r, c, agent) ==
    /\ At(h, "idle")
    /\ Exists(r)
    /\ c = None \/ (kind = "package" /\ Filed(c))
    /\ Become(h, [pc |-> "edit", row |-> r, category |-> c, agent |-> agent, overlap |-> FALSE])
    /\ UNCHANGED <<kind, rowVars, name, commentVars>>

\* The category the edit connects to must still be there.
MayEdit(t) == t.category # None => Filed(t.category)

\* Mutant: an agent's edit keeps the status.
EditKeepsStatus(t) == status[t.row]

\* An agent's edit takes the row back to its first status, an admin's does not.
StatusAfterEdit(t) == IF t.agent THEN FirstStatus ELSE status[t.row]

EditRow(h) ==
    LET t == task[h] IN
    /\ At(h, "edit")
    /\ MayEdit(t)
    /\ status' = [status EXCEPT ![t.row] = StatusAfterEdit(t)]
    /\ category' = IF t.category = None THEN category
                   ELSE [category EXCEPT ![t.row] = t.category]
    /\ unseen' = IF t.agent THEN unseen \cup {t.row} ELSE unseen
    /\ Committed(h)
    /\ UNCHANGED <<kind, slug, removed, name, commentVars>>

\* changePackageStatus, changePostStatus: the row is read, refused if deleted.
StartVerdict(h, r, verdict) ==
    /\ At(h, "idle")
    /\ Exists(r) /\ r \notin removed
    /\ Become(h, [pc |-> "judge", row |-> r, verdict |-> verdict, overlap |-> FALSE])
    /\ UNCHANGED <<kind, rowVars, name, commentVars>>

\* ... and its status written by id, whatever it has become since.
WriteVerdict(h) ==
    LET t == task[h] IN
    /\ At(h, "judge")
    /\ status' = [status EXCEPT ![t.row] = t.verdict]
    /\ unseen' = unseen \ {t.row}
    /\ Committed(h)
    /\ UNCHANGED <<kind, slug, removed, category, name, commentVars>>

\* softDeletePackage, softDeletePost: nothing else the read decides changes.
SoftDelete(h, r) ==
    /\ At(h, "idle")
    /\ Exists(r)
    /\ removed' = removed \cup {r}
    /\ Committed(h)
    /\ UNCHANGED <<kind, slug, status, unseen, category, name, commentVars>>

ListingStep(h) ==
    \/ \E b \in Bases, c \in Categories \cup {None} : StartCreate(h, b, c)
    \/ ChooseSlug(h) \/ InsertRow(h)
    \/ \E r \in Rows, c \in Categories \cup {None}, agent \in BOOLEAN : StartEdit(h, r, c, agent)
    \/ EditRow(h)
    \/ \E r \in Rows, verdict \in Verdicts : StartVerdict(h, r, verdict)
    \/ WriteVerdict(h)
    \/ \E r \in Rows : SoftDelete(h, r)
    \/ Fails(h)

=============================================================================
