------------------------------- MODULE Merge -------------------------------
(***************************************************************************)
(* `stamp merge` (src/commands/merge.ts) over the merge lock: the git      *)
(* state of one checkout, the review rows the gate reads, and what each    *)
(* invocation does between acquiring the lock and releasing it.            *)
(*                                                                         *)
(* The target branch is the sequence `chain` of its first-parent commits;  *)
(* HEAD is its last element, so `git merge` appends, `git commit --amend`  *)
(* replaces the last element whatever it is, and `git reset --hard sha`    *)
(* restores an earlier value.  A feature branch is a version number that   *)
(* its owner's commits advance; version 0 is the commit it forked from.    *)
(***************************************************************************)
EXTENDS MergeLock, Sequences, FiniteSetsExt

CONSTANTS
    Branches,       \* feature branches
    NoBranch,
    BranchOf,       \* the branch each invocation merges
    Reviewers,
    Required,       \* the reviewers the target branch requires at first
    Adds,           \* the reviewers each branch adds to that rule
    V4,             \* does the branch rule name a review_server?
    ResetMayFail,   \* may `git reset --hard` fail?
    MaxVersion      \* bound on the commits of each feature branch

ASSUME BranchAssumption ==
    /\ NoBranch \notin Branches
    /\ BranchOf \in [Procs -> Branches]
    /\ Required \subseteq Reviewers
    /\ Adds \in [Branches -> SUBSET Reviewers]
    /\ MaxVersion \in Nat \ {0}

VARIABLES
    chain,        \* first-parent history of the target branch
    feat,         \* tip of each feature branch
    approved,     \* (branch, base, head, reviewer) whose latest row approves
    conflicted,   \* a git merge stopped on a conflict
    stage,        \* where each invocation is in runMergeLocked
    required,     \* the reviewers of the rule it loaded before taking the lock
    base, head,   \* resolved.base_sha, resolved.head_sha
    pre,          \* preMergeSha
    moved,        \* ghost: its branch advanced after resolveDiff
    orphaned      \* ghost: killed in the window, or the rollback failed

gitVars   == <<chain, feat, conflicted>>
procVars  == <<stage, required, base, head, pre>>
ghostVars == <<moved, orphaned>>
mergeVars == <<lockVars, gitVars, approved, procVars, ghostVars>>

Versions == 0..MaxVersion
NoStamp  == [by |-> NoProc, branch |-> NoBranch, base |-> 0, head |-> 0, approvals |-> {}]
Stamps   == [by : Procs \cup {NoProc}, branch : Branches \cup {NoBranch},
             base : Versions, head : Versions, approvals : SUBSET Reviewers]
Commits  == [branch : Branches \cup {NoBranch}, second : Versions,
             required : SUBSET Reviewers, stamp : Stamps]

Root == [branch |-> NoBranch, second |-> 0, required |-> Required, stamp |-> NoStamp]

Stages == {"preflight", "acquire", "resolve", "confirm", "merge", "check", "sign",
           "rollback", "leave"}

TypeOK ==
    /\ LockTypeOK
    /\ chain \in Seq(Commits) /\ chain # <<>>
    /\ feat \in [Branches -> Versions]
    /\ approved \subseteq Branches \X Versions \X Versions \X Reviewers
    /\ conflicted \in BOOLEAN
    /\ stage \in [Procs -> Stages]
    /\ required \in [Procs -> SUBSET Reviewers]
    /\ base \in [Procs -> Versions] /\ head \in [Procs -> Versions]
    /\ pre \in [Procs -> Seq(Commits)]
    /\ moved \subseteq Procs
    /\ orphaned \in BOOLEAN

Init ==
    /\ LockInit
    /\ chain = <<Root>>
    /\ feat = [b \in Branches |-> 1]
    /\ approved = {}
    /\ conflicted = FALSE
    /\ stage = [p \in Procs |-> "preflight"]
    /\ required = [p \in Procs |-> Required]
    /\ base = [p \in Procs |-> 0] /\ head = [p \in Procs |-> 0]
    /\ pre = [p \in Procs |-> <<>>]
    /\ moved = {}
    /\ orphaned = FALSE

-----------------------------------------------------------------------------

Tip(c) == c[Len(c)]

\* merge-base(target, b): the version of b merged last, else its fork point.
BaseOf(c, b) ==
    LET merged == {c[i].second : i \in {j \in 1..Len(c) : c[j].branch = b}}
    IN  Max(merged \cup {0})

\* The merge brings the branch's change of .stamp/config.yml along.
MergeCommit(c, b) ==
    [branch |-> b, second |-> feat[b],
     required |-> Tip(c).required \cup Adds[b], stamp |-> NoStamp]

Goto(p, s) == stage' = [stage EXCEPT ![p] = s]

\* Inside runMergeLocked, not killed.
At(p, s) == lpc[p] = "held" /\ stage[p] = s

\* loadConfig, then the two pre-flight gates: on the target branch, tree clean.
\* All of it happens before the lock is taken.
Preflight(p) ==
    /\ stage[p] = "preflight"
    /\ ~conflicted
    /\ required' = [required EXCEPT ![p] = Tip(chain).required]
    /\ Goto(p, "acquire")
    /\ UNCHANGED <<lockVars, gitVars, approved, base, head, pre, ghostVars>>

\* acquireMergeLock, one step of it.
TakeLock(p) ==
    /\ stage[p] = "acquire"
    /\ Acquire(p)
    /\ IF lpc'[p] = "held" THEN Goto(p, "resolve") ELSE UNCHANGED stage
    /\ UNCHANGED <<gitVars, approved, required, base, head, pre, ghostVars>>

\* resolveDiff, the branch rule and the gate: every required reviewer's latest
\* verdict for (base, head) approves.  Any failure throws before a ref moves.
GateOpen(p, b, v) ==
    \A r \in required[p] : <<BranchOf[p], b, v, r>> \in approved

Resolve(p) ==
    /\ At(p, "resolve")
    /\ LET b == BaseOf(chain, BranchOf[p])
           v == feat[BranchOf[p]]
       IN  /\ base' = [base EXCEPT ![p] = b]
           /\ head' = [head EXCEPT ![p] = v]
           /\ Goto(p, IF GateOpen(p, b, v) THEN "confirm" ELSE "leave")
    /\ moved' = moved \ {p}
    /\ UNCHANGED <<lockVars, gitVars, approved, required, pre, orphaned>>

\* A slip of Confirm: preMergeSha is not captured.
ConfirmWithoutPre(p) ==
    /\ At(p, "confirm")
    /\ \E s \in {"leave", "merge"} : Goto(p, s)
    /\ UNCHANGED <<lockVars, gitVars, approved, required, base, head, pre, ghostVars>>

\* The commit-message policy, the operator's confirmation, the signing key:
\* one of them refuses, or preMergeSha is captured.
Confirm(p) ==
    /\ At(p, "confirm")
    /\ \/ Goto(p, "leave") /\ UNCHANGED pre
       \/ Goto(p, "merge") /\ pre' = [pre EXCEPT ![p] = chain]
    /\ UNCHANGED <<lockVars, gitVars, approved, required, base, head, ghostVars>>

\* git merge --no-ff <branch>, by NAME.  It makes a merge commit, or finds the
\* branch merged already and succeeds without one, or stops on a conflict.
GitMerge(p) ==
    /\ At(p, "merge")
    /\ LET b == BranchOf[p]
       IN  \/ /\ ~conflicted
              /\ BaseOf(chain, b) < feat[b]
              /\ chain' = Append(chain, MergeCommit(chain, b))
              /\ Goto(p, "check") /\ UNCHANGED conflicted
           \/ /\ ~conflicted
              /\ BaseOf(chain, b) = feat[b]
              /\ Goto(p, "check") /\ UNCHANGED <<chain, conflicted>>
           \/ /\ conflicted \/ BaseOf(chain, b) < feat[b]
              /\ conflicted' = TRUE
              /\ Goto(p, "leave") /\ UNCHANGED chain
    /\ UNCHANGED <<lockVars, feat, approved, required, base, head, pre, ghostVars>>

\* A slip of Check: a failure leaves without the rollback.
CheckWithoutRollback(p) ==
    /\ At(p, "check")
    /\ \/ Goto(p, "sign")
       \/ Goto(p, "leave")
    /\ UNCHANGED <<lockVars, gitVars, approved, required, base, head, pre, ghostVars>>

\* The post-merge rule is read from the tree (it may be gone), then its required
\* checks run (they may fail).
Check(p) ==
    /\ At(p, "check")
    /\ \/ Goto(p, "sign")
       \/ Goto(p, "rollback")
    /\ UNCHANGED <<lockVars, gitVars, approved, required, base, head, pre, ghostVars>>

\* A slip of Trailers: head_sha is the branch's tip when the trailers are built.
TrailersByName(p) ==
    [by |-> p, branch |-> BranchOf[p], base |-> base[p], head |-> feat[BranchOf[p]],
     approvals |-> required[p]]

\* buildV3Trailers or buildV4Trailers, then `git commit --amend` of the tip.
\* The v4 builder reads the review rows once more: every required reviewer must
\* still have a server-signed approval of (base, head).  Any failure (a missing
\* manifest, a bad signature, too few admin signatures) goes to the rollback.
Trailers(p) ==
    [by |-> p, branch |-> BranchOf[p], base |-> base[p], head |-> head[p],
     approvals |-> required[p]]

CanBuildTrailers(p) ==
    V4 => \A r \in required[p] : <<BranchOf[p], base[p], head[p], r>> \in approved

Sign(p) ==
    /\ At(p, "sign")
    /\ \/ /\ CanBuildTrailers(p) /\ ~conflicted
          /\ chain' = [chain EXCEPT ![Len(chain)].stamp = Trailers(p)]
          /\ Goto(p, "leave")
       \/ Goto(p, "rollback") /\ UNCHANGED chain
    /\ UNCHANGED <<lockVars, feat, conflicted, approved, required, base, head, pre, ghostVars>>

\* The catch block: git reset --hard preMergeSha.
Rollback(p) ==
    /\ At(p, "rollback")
    /\ \/ /\ chain' = pre[p] /\ conflicted' = FALSE
          /\ UNCHANGED orphaned
       \/ /\ ResetMayFail
          /\ orphaned' = TRUE /\ UNCHANGED <<chain, conflicted>>
    /\ Goto(p, "leave")
    /\ UNCHANGED <<lockVars, feat, approved, required, base, head, pre, moved>>

\* The `finally` of runMerge.
LeaveLock(p) ==
    /\ At(p, "leave")
    /\ Release(p)
    /\ UNCHANGED <<gitVars, approved, procVars, ghostVars>>

ExitProcess(p) ==
    /\ Exit(p)
    /\ UNCHANGED <<gitVars, approved, procVars, ghostVars>>

Killed(p) ==
    /\ Die(p)
    /\ orphaned' = (orphaned \/ (lpc[p] = "held" /\ stage[p] \in {"check", "sign", "rollback"}))
    /\ UNCHANGED <<gitVars, approved, procVars, moved>>

TooSlow(p) ==
    /\ Overrun(p)
    /\ UNCHANGED <<gitVars, approved, procVars, ghostVars>>

-----------------------------------------------------------------------------
(* The environment: other commands and the people who work on the branches. *)

\* A commit on feature branch b, from another worktree of the clone.
FeatureCommit(b) ==
    /\ feat[b] < MaxVersion
    /\ feat' = [feat EXCEPT ![b] = @ + 1]
    /\ moved' = moved \cup {p \in Procs : BranchOf[p] = b /\ stage[p] \in {"confirm", "merge"}}
    /\ UNCHANGED <<lockVars, chain, conflicted, approved, procVars, orphaned>>

\* `stamp review`: recordReview's row becomes the latest one for its key; a range
\* with no diff is not reviewed.  With a review server every row is recorded
\* with the server's signature.
Review(b, r) ==
    LET key == <<b, BaseOf(chain, b), feat[b], r>>
    IN  /\ BaseOf(chain, b) < feat[b]
        /\ \/ approved' = approved \cup {key}
           \/ approved' = approved \ {key}
        /\ UNCHANGED <<lockVars, gitVars, procVars, ghostVars>>

\* The operator aborts a conflicted merge.
AbortMerge ==
    /\ conflicted
    /\ conflicted' = FALSE
    /\ UNCHANGED <<lockVars, chain, feat, approved, procVars, ghostVars>>

Step(p) ==
    \/ Preflight(p) \/ TakeLock(p) \/ Resolve(p) \/ Confirm(p) \/ GitMerge(p)
    \/ Check(p) \/ Sign(p) \/ Rollback(p) \/ LeaveLock(p) \/ ExitProcess(p)

Next ==
    \/ \E p \in Procs : Step(p) \/ Killed(p) \/ TooSlow(p)
    \/ \E b \in Branches : FeatureCommit(b) \/ \E r \in Reviewers : Review(b, r)
    \/ AbortMerge

Spec == Init /\ [][Next]_mergeVars

-----------------------------------------------------------------------------

Signed(c) == c.stamp # NoStamp

\* A stamp describes the commit that carries it: the branch merged, its second
\* parent, and the merge base of its parents.
Describes(c, i) ==
    /\ c[i].stamp.branch = c[i].branch
    /\ c[i].stamp.head = c[i].second
    /\ c[i].stamp.base = BaseOf(SubSeq(c, 1, i - 1), c[i].branch)

\* mergeLock.ts:6-16.  As long as no lock was lost and the feature branch did
\* not advance under the merge, no merge is amended with another one's
\* trailers, or with a stale base.
StampDescribesMerge ==
    robbed = {} =>
        \A i \in 2..Len(chain) :
            Signed(chain[i]) /\ chain[i].stamp.by \notin moved => Describes(chain, i)

\* A stamped merge is not undone or rewritten by another invocation's rollback
\* or amend, as long as no lock was lost.
StampedMergesAreKept ==
    [][robbed' = {} =>
          \A i \in 1..Len(chain) :
             Signed(chain[i]) => i <= Len(chain') /\ chain'[i] = chain[i]]_mergeVars

\* merge.ts:319-323.  When nobody is inside the merge, nothing unsigned is left
\* on the target branch, unless a process was killed in the window, a rollback
\* failed, or a lock was lost.
Quiet == \A p \in Procs : lpc[p] = "held" => stage[p] \in {"resolve", "confirm", "merge", "leave"}

NothingUnsignedIsLeft ==
    Quiet /\ ~orphaned /\ robbed = {} => \A i \in 2..Len(chain) : Signed(chain[i])
=============================================================================
