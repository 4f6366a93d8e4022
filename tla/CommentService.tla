--------------------------- MODULE CommentService ---------------------------
(***************************************************************************)
(* Comments on blog posts (blogComment.service.ts): one level of replies.  *)
(***************************************************************************)
EXTENDS Listings

\* getPostIdBySlug: only a public post takes comments.
StartComment(h, r, p) ==
    /\ At(h, "idle")
    /\ Public(r)
    /\ \E c \in Comments : post[c] = 0
    /\ Become(h, [pc |-> IF p = 0 THEN "comment" ELSE "parent",
                  row |-> r, parent |-> p, overlap |-> FALSE])
    /\ UNCHANGED <<kind, rowVars, name, commentVars>>

\* Mutant: a reply to a reply is accepted.
AnyDepth(p, r) == post[p] = r /\ p \notin erased

\* A reply answers a comment of the same post that is not deleted and not a
\* reply itself.
Answerable(p, r) == post[p] = r /\ p \notin erased /\ parent[p] = 0

CheckParent(h) ==
    /\ At(h, "parent")
    /\ Answerable(task[h].parent, task[h].row)
    /\ Become(h, [task[h] EXCEPT !.pc = "comment"])
    /\ UNCHANGED <<kind, rowVars, name, commentVars>>

\* Nothing is checked again: the post may be hidden, the parent deleted by now.
InsertComment(h) ==
    LET t == task[h] IN
    /\ At(h, "comment")
    /\ \E c \in Comments :
        /\ post[c] = 0 /\ \A k \in 1 .. c - 1 : post[k] # 0
        /\ post' = [post EXCEPT ![c] = t.row]
        /\ parent' = [parent EXCEPT ![c] = t.parent]
    /\ Committed(h)
    /\ UNCHANGED <<kind, rowVars, name, erased>>

\* deleteComment: one conditional update.
DeleteComment(h, c) ==
    /\ At(h, "idle")
    /\ post[c] # 0 /\ c \notin erased
    /\ erased' = erased \cup {c}
    /\ Committed(h)
    /\ UNCHANGED <<kind, rowVars, name, post, parent>>

CommentStep(h) ==
    \/ \E r \in Rows, p \in 0..MaxComments : StartComment(h, r, p)
    \/ CheckParent(h) \/ InsertComment(h)
    \/ \E c \in Comments : DeleteComment(h, c)

=============================================================================
