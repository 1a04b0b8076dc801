------------------------------- MODULE Review -------------------------------
(***************************************************************************)
(* stamp review in the rounds of a branch: the reviews table of state.db,  *)
(* which all worktrees of a clone share (src/lib/db.ts), the verdict cache, *)
(* the narrowing of a round to what changed since the reviewer's previous  *)
(* one (src/lib/reviewScope.ts), and stamp prune.                           *)
(*                                                                         *)
(* A change of a file is judged by its new content.  The reviewers are     *)
(* diligent: each objects to exactly the Bad contents it is shown, and     *)
(* keeps, as the ratchet in its instructions asks, the objections of its   *)
(* previous round that it is told of and that the head still has.  So the  *)
(* question is what the rounds show them.                                  *)
(***************************************************************************)
EXTENDS Naturals, FiniteSets

CONSTANTS
    Commits, NoCommit,
    Parent,        \* [Commits -> Commits \cup {NoCommit}]
    Line,          \* the branch a commit is made on
    Tree,          \* [Commits -> [Files -> Contents]]
    Prompt,        \* the reviewers' prompts in a commit's tree
    Root,          \* where main and the branches start
    Branches, NoBranch,
    Files, Contents, Prompts,
    Bad,           \* what a reviewer objects to: <<file, content>>
    Reviewers,     \* all of them required
    Backends,
    OneShot,       \* back ends that are not told of the previous round
    KeepsProse,    \* SUBSET BOOLEAN: FALSE is --no-prose
    ProseTtl,      \* STAMP_REVIEW_PROSE_TTL_DAYS is set
    RawShas,       \* reviews whose revspec names the head by its SHA
    Detached,      \* the commits at which a detached checkout is reviewed
    Sessions,      \* runs of stamp review
    MaxRows        \* bound on the rows ever inserted

ASSUME GraphAssumption ==
    /\ Root \in Commits /\ NoCommit \notin Commits
    /\ Parent \in [Commits -> Commits \cup {NoCommit}]
    /\ Line \in [Commits -> Branches] /\ NoBranch \notin Branches
    /\ Tree \in [Commits -> [Files -> Contents]]
    /\ Prompt \in [Commits -> Prompts]
ASSUME ReviewersAssumption ==
    /\ Bad \subseteq Files \X Contents
    /\ Reviewers # {}
    /\ OneShot \subseteq Backends /\ Detached \subseteq Commits
    /\ KeepsProse \subseteq BOOLEAN /\ ProseTtl \in BOOLEAN /\ RawShas \in BOOLEAN
    /\ MaxRows \in Nat

VARIABLES
    tip,      \* where each branch is
    been,     \* history: the commits each branch has been at
    main,     \* the commits of main
    rows,     \* the reviews table
    lastId,   \* the newest id given to a row
    mark,     \* the verdict-cache watermark, as the newest id it covers
    pruning,  \* a prune has deleted rows and not yet moved the watermark
    drafts    \* the rows each session will insert, its reviewers done

vars == <<tip, been, main, rows, lastId, mark, pruning, drafts>>

-----------------------------------------------------------------------------
(* The commit graph *)

Ancestors[c \in Commits] ==
    {c} \cup (IF Parent[c] = NoCommit THEN {} ELSE Ancestors[Parent[c]])

IsAncestor(a, c) == a \in Ancestors[c]

Made == UNION {been[b] : b \in Branches}

\* The newest commit of main under the head.
MergeBase(head) ==
    {base \in main : /\ IsAncestor(base, head)
                     /\ \A c \in main : IsAncestor(c, head) => IsAncestor(c, base)}

Changed(old, new) == {f \in Files : Tree[old][f] # Tree[new][f]}

\* What a diff adds.
Introduced(old, new) == {<<f, Tree[new][f]>> : f \in Changed(old, new)}

\* The bytes of a diff tell both sides of every change.
Diff(old, new) == {<<f, Tree[old][f], Tree[new][f]>> : f \in Changed(old, new)}

-----------------------------------------------------------------------------
(* The table.  Rows are ordered by created_at and then id: by id here. *)

Issues == Files \X Contents

\* from is history: the head that the round was narrowed to start at.
Drafts == [reviewer : Reviewers, base : Commits, head : Commits,
           branch : Branches \cup {NoBranch}, backend : Backends,
           verdict : {"approved", "changes_requested"}, prose : SUBSET Issues,
           from : Commits \cup {NoCommit}]

Rows == [id : 1..MaxRows, review : Drafts]

Newest(set) == {x \in set : \A y \in set : y.id <= x.id}

RowsOf(r, base, head) ==
    {x \in rows : x.review.reviewer = r /\ x.review.base = base /\ x.review.head = head}

\* latestVerdicts, and the gate over them.
GateOpen(base, head) ==
    \A r \in Reviewers :
        \E x \in Newest(RowsOf(r, base, head)) : x.review.verdict = "approved"

\* A slip of Cached: keyed by the head, whatever it is compared to.
CachedByHead(r, base, head, branch, backend) ==
    Newest({x \in rows :
        /\ x.review.reviewer = r /\ x.review.head = head
        /\ Prompt[x.review.base] = Prompt[base]
        /\ x.review.branch = branch /\ x.review.backend = backend
        /\ x.id > mark})

\* findCachedVerdict.
Cached(r, base, head, branch, backend) ==
    Newest({x \in rows :
        /\ x.review.reviewer = r /\ x.review.head = head
        /\ Diff(x.review.base, head) = Diff(base, head)
        /\ Prompt[x.review.base] = Prompt[base]
        /\ x.review.branch = branch /\ x.review.backend = backend
        /\ x.id > mark})

\* priorReviewCandidates.
Candidates(r, base, head) ==
    {x \in rows : x.review.reviewer = r /\ x.review.base = base /\ x.review.head # head}

\* A slip of Amends: the same parent on any branch.
AmendsAnywhere(x, head, branch) ==
    Parent[head] # NoCommit /\ Parent[x.review.head] = Parent[head]

\* An amended head: same branch, same parent.
Amends(x, head, branch) ==
    /\ branch # NoBranch /\ x.review.branch = branch
    /\ Parent[head] # NoCommit /\ Parent[x.review.head] = Parent[head]

\* selectPriorReview; a git call on the lost commit fails.
Prior(r, base, head, branch, lost) ==
    Newest({x \in Candidates(r, base, head) :
        /\ x.review.head # lost
        /\ (IsAncestor(x.review.head, head) \/ Amends(x, head, branch))})

-----------------------------------------------------------------------------
(* A run of stamp review *)

\* The revspec names the branch, or HEAD names the one checked out; a detached
\* head has none; and a raw SHA is taken to be of the branch checked out.
HeadsOf(branch) ==
    IF branch = NoBranch THEN Made \cap Detached
    ELSE IF RawShas THEN Made ELSE {tip[branch]}

\* resolveReviewScope: a round is narrowed only to files of its own diff.
Narrows(prior, base, head) == Changed(prior.review.head, head) \subseteq Changed(base, head)

\* What a reviewer is shown, and told, and makes of it.
Judged(r, base, head, branch, backend, prior, narrow, keep) ==
    LET from == IF narrow THEN {x.review.head : x \in {y \in prior : Narrows(y, base, head)}}
                          ELSE {}
        shown == UNION {Introduced(c, head) : c \in IF from = {} THEN {base} ELSE from}
        told == IF backend \in OneShot THEN {} ELSE UNION {x.review.prose : x \in prior}
        found == (shown \cap Bad) \cup {i \in told : Tree[head][i[1]] = i[2]}
    IN  [reviewer |-> r, base |-> base, head |-> head, branch |-> branch,
         backend |-> backend,
         verdict |-> IF found = {} THEN "approved" ELSE "changes_requested",
         prose |-> IF keep THEN found ELSE {},
         from |-> IF from = {} THEN NoCommit ELSE CHOOSE c \in from : TRUE]

\* A cached verdict becomes the round's, for its base.
Replayed(x, base, keep) ==
    [x.review EXCEPT !.base = base, !.prose = IF keep THEN @ ELSE {}]

\* What a run comes to: replayed where the cache has it, judged where it has not.
Verdicts(chosen, base, head, branch, backend, lost, cache, narrow, keep) ==
    LET hit(r) == IF cache THEN Cached(r, base, head, branch, backend) ELSE {}
    IN  {Replayed(x, base, keep) : x \in UNION {hit(r) : r \in chosen}}
        \cup {Judged(r, base, head, branch, backend,
                     Prior(r, base, head, branch, lost), narrow, keep) :
                 r \in {q \in chosen : hit(q) = {}}}

\* --no-cache, STAMP_NO_DELTA_REVIEW and git failing on the delta are choices.
RunReview(s, base, head, branch) ==
    \E chosen \in {Reviewers} \cup {{r} : r \in Reviewers}, backend \in Backends,
       lost \in {NoCommit} \cup {x.review.head : x \in rows},
       cache \in BOOLEAN, narrow \in BOOLEAN, keep \in KeepsProse :
        /\ Changed(base, head) # {}
        /\ drafts' = [drafts EXCEPT ![s] =
                 Verdicts(chosen, base, head, branch, backend, lost, cache, narrow, keep)]
        /\ UNCHANGED <<tip, been, main, rows, lastId, mark, pruning>>

\* runReview, to where the reviewers are done: it reads the table once.
StartReview(s) ==
    /\ drafts[s] = {}
    /\ \E branch \in Branches \cup {NoBranch} : \E head \in HeadsOf(branch) :
          \E base \in MergeBase(head) : RunReview(s, base, head, branch)

\* A slip of Record: ids by the number of rows.
RecordCounted(s) ==
    \E d \in drafts[s] :
        /\ lastId < MaxRows
        /\ rows' = rows \cup {[id |-> Cardinality(rows) + 1, review |-> d]}
        /\ lastId' = lastId + 1
        /\ drafts' = [drafts EXCEPT ![s] = @ \ {d}]
        /\ UNCHANGED <<tip, been, main, mark, pruning>>

\* recordReview of one reviewer's verdict.
Record(s) ==
    \E d \in drafts[s] :
        /\ lastId < MaxRows
        /\ rows' = rows \cup {[id |-> lastId + 1, review |-> d]}
        /\ lastId' = lastId + 1
        /\ drafts' = [drafts EXCEPT ![s] = @ \ {d}]
        /\ UNCHANGED <<tip, been, main, mark, pruning>>

\* A reviewer fails, or the run dies before it records the verdict.
LoseVerdict(s) ==
    \E d \in drafts[s] :
        /\ drafts' = [drafts EXCEPT ![s] = @ \ {d}]
        /\ UNCHANGED <<tip, been, main, rows, lastId, mark, pruning>>

-----------------------------------------------------------------------------
(* stamp prune, by hand or after a review *)

\* pruneReviews deletes the rows older than the cutoff, and expireProse nulls the
\* prose of those older than the TTL; then the file is rewritten (VACUUM).
PruneDelete ==
    LET ids == {0} \cup {x.id : x \in rows}
    IN  \E cutoff \in ids, old \in IF ProseTtl THEN ids ELSE {0} :
            /\ ~pruning
            /\ rows' = {IF x.id <= old THEN [x EXCEPT !.review.prose = {}] ELSE x :
                          x \in {y \in rows : y.id > cutoff}}
            /\ pruning' = (\E x \in rows : x.id <= cutoff)
            /\ UNCHANGED <<tip, been, main, lastId, mark, drafts>>

\* bumpVerdictCacheWatermark.
PruneMark ==
    /\ pruning
    /\ mark' = lastId
    /\ pruning' = FALSE
    /\ UNCHANGED <<tip, been, main, rows, lastId, drafts>>

\* The VACUUM in between fails, or the process dies.
PruneDies ==
    /\ pruning
    /\ pruning' = FALSE
    /\ UNCHANGED <<tip, been, main, rows, lastId, mark, drafts>>

-----------------------------------------------------------------------------
(* The author *)

\* A commit on the branch, or an amended one (or a reset to a sibling).
Advance(b) ==
    \E c \in Commits :
        /\ Line[c] = b /\ c # tip[b]
        /\ \/ Parent[c] = tip[b]
           \/ Parent[c] # NoCommit /\ Parent[c] = Parent[tip[b]]
        /\ tip' = [tip EXCEPT ![b] = c]
        /\ been' = [been EXCEPT ![b] = @ \cup {c}]
        /\ UNCHANGED <<main, rows, lastId, mark, pruning, drafts>>

\* stamp merge into main, whose gate is the same.
Land(b) ==
    \E base \in MergeBase(tip[b]) :
        /\ Changed(base, tip[b]) # {}
        /\ GateOpen(base, tip[b])
        /\ main' = main \cup {c \in Commits : IsAncestor(c, tip[b])}
        /\ UNCHANGED <<tip, been, rows, lastId, mark, pruning, drafts>>

-----------------------------------------------------------------------------

Init ==
    /\ tip = [b \in Branches |-> Root]
    /\ been = [b \in Branches |-> {Root}]
    /\ main = {Root}
    /\ rows = {} /\ lastId = 0 /\ mark = 0 /\ pruning = FALSE
    /\ drafts = [s \in Sessions |-> {}]

Next ==
    \/ \E s \in Sessions : StartReview(s) \/ Record(s) \/ LoseVerdict(s)
    \/ PruneDelete \/ PruneMark \/ PruneDies
    \/ \E b \in Branches : Advance(b) \/ Land(b)

Spec == Init /\ [][Next]_vars

-----------------------------------------------------------------------------

\* Types; and an id names one row.
TypeOK ==
    /\ tip \in [Branches -> Commits]
    /\ been \in [Branches -> SUBSET Commits]
    /\ main \subseteq Commits
    /\ rows \subseteq Rows
    /\ lastId \in 0..MaxRows /\ mark \in 0..MaxRows /\ pruning \in BOOLEAN
    /\ drafts \in [Sessions -> SUBSET Drafts]
    /\ \A x, y \in rows : x.id = y.id => x = y
    /\ \A x \in rows : x.id <= lastId

\* What the rounds approve, one reading of the whole would have approved: where
\* the gate over a base and a head is open, the diff between them introduces
\* nothing that a reviewer objects to, whichever of it each round showed
\* (resolveReviewScope, findCachedVerdict).
OpenGateIsClean ==
    \A base, head \in Commits :
        GateOpen(base, head) => Introduced(base, head) \cap Bad = {}

\* No round is narrowed to start at a sibling's head: what it shows as changed
\* is the work of the branch under review (issue #65, selectPriorReview).
OwnChangesOnly ==
    \A x \in rows : x.review.from # NoCommit =>
        \/ IsAncestor(x.review.from, x.review.head)
        \/ \E b \in Branches : {x.review.from, x.review.head} \subseteq been[b]
=============================================================================
