--------------------------- MODULE CategoryService --------------------------
(***************************************************************************)
(* Categories of packages (category.service.ts).  name and slug are unique *)
(* columns; a package refers to its category by a foreign key.             *)
(***************************************************************************)
EXTENDS Listings

\* What the unique indexes on name and slug allow.
NameFree(n, except) ==
    \A c \in Categories \ except :
        Filed(c) => name[c] # n /\ CategorySlug[name[c]] # CategorySlug[n]

\* Mutant: only the name is looked up, not the slug.
OnlyTheName(n, except) == \A c \in Categories \ except : name[c] # n

\* assertNameAvailable: no other category with this name or its slug.
NameAvailable(n, except) == NameFree(n, except)

\* createCategory.
StartFile(h, n) ==
    /\ At(h, "idle")
    /\ \E c \in Categories : name[c] = None
    /\ NameAvailable(n, {})
    /\ Become(h, [pc |-> "file", name |-> n, overlap |-> FALSE])
    /\ UNCHANGED <<kind, rowVars, name, commentVars>>

FileCategory(h) ==
    LET t == task[h] IN
    /\ At(h, "file")
    /\ NameFree(t.name, {})
    /\ \E c \in Categories :
        /\ name[c] = None
        /\ name' = [name EXCEPT ![c] = t.name]
    /\ Committed(h)
    /\ UNCHANGED <<kind, rowVars, commentVars>>

\* updateCategory: the row must be there; it does not conflict with itself.
StartRename(h, c, n) ==
    /\ At(h, "idle")
    /\ Filed(c)
    /\ NameAvailable(n, {c})
    /\ Become(h, [pc |-> "rename", category |-> c, name |-> n, overlap |-> FALSE])
    /\ UNCHANGED <<kind, rowVars, name, commentVars>>

\* ... and is written by id if it still is; the slug follows the name.
RenameCategory(h) ==
    LET t == task[h] IN
    /\ At(h, "rename")
    /\ Filed(t.category)
    /\ NameFree(t.name, {t.category})
    /\ name' = [name EXCEPT ![t.category] = t.name]
    /\ Committed(h)
    /\ UNCHANGED <<kind, rowVars, commentVars>>

\* A package, deleted or not, is in the category.
Referenced(c) == \E r \in Rows : Exists(r) /\ category[r] = c

\* deleteCategory: of its two reads the count decides.
StartDrop(h, c) ==
    /\ At(h, "idle")
    /\ Filed(c)
    /\ ~Referenced(c)
    /\ Become(h, [pc |-> "drop", category |-> c, overlap |-> FALSE])
    /\ UNCHANGED <<kind, rowVars, name, commentVars>>

\* Mutant: no foreign key; the count of before is trusted.
CountTrusted(t) == Filed(t.category)

\* What the foreign key lets go.
MayDrop(t) == Filed(t.category) /\ ~Referenced(t.category)

DropCategory(h) ==
    LET t == task[h] IN
    /\ At(h, "drop")
    /\ MayDrop(t)
    /\ name' = [name EXCEPT ![t.category] = Gone]
    /\ Committed(h)
    /\ UNCHANGED <<kind, rowVars, commentVars>>

CategoryStep(h) ==
    \/ \E n \in Names : StartFile(h, n) \/ \E c \in Categories : StartRename(h, c, n)
    \/ FileCategory(h) \/ RenameCategory(h)
    \/ \E c \in Categories : StartDrop(h, c)
    \/ DropCategory(h)

=============================================================================
