---------------------------- MODULE MergeProofs ----------------------------
(***************************************************************************)
(* The merge lock and `stamp merge` for every number of invocations,       *)
(* hosts, retries, branches and reviewers.                                 *)
(*                                                                         *)
(* The lock first.  Exclusion is not inductive: it follows from Owned,     *)
(* that an invocation which relies on its lock file and was not robbed of  *)
(* it still finds it at lockPath.                                          *)
(*                                                                         *)
(* Then the merge under it: TypeOK, and Merging, what the one holder knows *)
(* of the target branch at each stage of runMergeLocked.                   *)
(***************************************************************************)
EXTENDS Merge, SequenceTheorems, WellFoundedInduction, TLAPS

Owned == \A p \in Procs : Relies(p) /\ p \notin robbed => lockFile = p

LockInv == LockTypeOK /\ Owned

\* Nobody relies on a lock file at first.
LEMMA LockInitInv == LockInit => LockInv
<1> SUFFICES ASSUME LockInit PROVE LockInv
  OBVIOUS
<1> USE DEF LockInit
<1>1. LockTypeOK
  BY MaxRetriesAssumption DEF LockTypeOK
<1>2. Owned
  BY DEF Owned, Relies
<1> QED
  BY <1>1, <1>2 DEF LockInv

\* A step that leaves the lock file and the ghost alone, and after which p does
\* not rely on a file.
LEMMA QuietStep ==
    ASSUME LockInv, NEW p \in Procs, NEW s,
           s \notin {"write", "held"},
           lpc' = [lpc EXCEPT ![p] = s],
           UNCHANGED <<lockFile, robbed>>
    PROVE  Owned'
  BY DEF LockInv, LockTypeOK, Owned, Relies

\* An unlink keeps Owned: whoever loses the file is recorded as robbed.
LEMMA UnlinkKeepsOwned ==
    ASSUME LockInv, NEW p \in Procs, NEW s \in {"open", "failed", "released"},
           Unlink(p), lpc' = [lpc EXCEPT ![p] = s]
    PROVE  Owned'
<1> SUFFICES ASSUME NEW q \in Procs, Relies(q)', q \notin robbed'
             PROVE  FALSE
  BY DEF Owned
<1>1. q # p /\ Relies(q)
  BY DEF Relies, LockInv, LockTypeOK
<1>2. lockFile = q
  BY <1>1 DEF LockInv, Owned, Unlink
<1> QED
  BY <1>1, <1>2 DEF Unlink

\* Whoever unlinks the file of another one robs it (UnlinkStale, Release).
LEMMA LockNextInv == LockInv /\ [LockNext]_lockVars => LockInv'
<1> SUFFICES ASSUME LockInv, [LockNext]_lockVars PROVE LockInv'
  OBVIOUS
<1> USE NoProcAssumption, MaxRetriesAssumption DEF LockInv, LockTypeOK
<1>1. CASE UNCHANGED lockVars
  BY <1>1 DEF lockVars, Owned, Relies
<1>2. ASSUME NEW p \in Procs, Invoke(p) PROVE LockInv'
  BY <1>2, QuietStep DEF Invoke
<1>3. ASSUME NEW p \in Procs, OpenExclusive(p) PROVE LockInv'
  <2>1. LockTypeOK'
    BY <1>3 DEF OpenExclusive
  <2>2. Owned'
    BY <1>3 DEF OpenExclusive, Owned, Relies
  <2> QED
    BY <2>1, <2>2
<1>4. ASSUME NEW p \in Procs, OpenExists(p) PROVE LockInv'
  BY <1>4, QuietStep DEF OpenExists
<1>5. ASSUME NEW p \in Procs, WriteRecord(p) PROVE LockInv'
  <2>1. LockTypeOK'
    BY <1>5 DEF WriteRecord
  <2>2. Owned'
    BY <1>5 DEF WriteRecord, Owned, Relies
  <2> QED
    BY <2>1, <2>2
<1>6. ASSUME NEW p \in Procs, WriteFails(p) PROVE LockInv'
  BY <1>6, QuietStep DEF WriteFails
<1>7. ASSUME NEW p \in Procs, ReadRecord(p) PROVE LockInv'
  <2>1. PICK s \in {"unlink", "judge"} : lpc' = [lpc EXCEPT ![p] = s]
    BY <1>7 DEF ReadRecord
  <2>2. Owned'
    BY <1>7, <2>1, QuietStep DEF ReadRecord
  <2>3. LockTypeOK'
    BY <1>7, <2>1 DEF ReadRecord
  <2> QED
    BY <2>2, <2>3
<1>8. ASSUME NEW p \in Procs, JudgeHolder(p) PROVE LockInv'
  <2>1. PICK s \in {"unlink", "failed"} : lpc' = [lpc EXCEPT ![p] = s]
    BY <1>8 DEF JudgeHolder
  <2>2. Owned'
    BY <1>8, <2>1, QuietStep DEF JudgeHolder
  <2>3. LockTypeOK'
    BY <1>8, <2>1 DEF JudgeHolder
  <2> QED
    BY <2>2, <2>3
<1>9. ASSUME NEW p \in Procs, UnlinkStale(p) PROVE LockInv'
  <2>1. attempt[p] < MaxRetries /\ attempt[p] + 1 \in 0..MaxRetries
    BY <1>9 DEF UnlinkStale
  <2>2. PICK s \in {"open", "failed"} :
           /\ lpc' = [lpc EXCEPT ![p] = s]
           /\ s = "open" => attempt[p] + 1 < MaxRetries
    BY <1>9 DEF UnlinkStale
  <2>3. LockTypeOK'
    BY <1>9, <2>1, <2>2 DEF UnlinkStale, Unlink
  <2>4. Owned'
    BY <1>9, <2>2, UnlinkKeepsOwned DEF UnlinkStale
  <2> QED
    BY <2>3, <2>4
<1>10. ASSUME NEW p \in Procs, UnlinkFails(p) PROVE LockInv'
  BY <1>10, QuietStep DEF UnlinkFails
<1>11. ASSUME NEW p \in Procs, Release(p) PROVE LockInv'
  <2>1. LockTypeOK'
    BY <1>11 DEF Release, Unlink
  <2>2. Owned'
    BY <1>11, UnlinkKeepsOwned DEF Release
  <2> QED
    BY <2>1, <2>2
<1>12. ASSUME NEW p \in Procs, Exit(p) PROVE LockInv'
  BY <1>12, QuietStep DEF Exit
<1>13. ASSUME NEW p \in Procs, Die(p) PROVE LockInv'
  BY <1>13, QuietStep DEF Die, Gone
<1>14. ASSUME NEW p \in Procs, Overrun(p) PROVE LockInv'
  BY <1>14 DEF Overrun, Owned, Relies
<1> QED
  BY <1>1, <1>2, <1>3, <1>4, <1>5, <1>6, <1>7, <1>8, <1>9, <1>10, <1>11,
     <1>12, <1>13, <1>14 DEF LockNext, Acquire

\* So it holds throughout.
LEMMA LockInvariant == LockSpec => []LockInv
<1> QED
  BY LockInitInv, LockNextInv, PTL DEF LockSpec

\* Type correctness of mergeLock.ts's state, for any Procs, hosts and retries:
\* in particular the acquire loop stops after MAX_RETRIES turns.
THEOREM LockTypeCorrect == LockSpec => []LockTypeOK
<1>1. LockInv => LockTypeOK
  BY DEF LockInv
<1> QED
  BY <1>1, LockInvariant, PTL

\* mergeLock.ts:108: two invocations are never in the locked section together
\* unless one of them had its lock file unlinked by another one.
THEOREM ExclusiveUnlessRobbed == LockSpec => []ExclusionUnlessRobbed
<1>1. LockInv => ExclusionUnlessRobbed
  <2> SUFFICES ASSUME LockInv, NEW p \in Procs, NEW q \in Procs,
                      Holding(p), Holding(q), p # q, {p, q} \cap robbed = {}
               PROVE  FALSE
    BY DEF ExclusionUnlessRobbed
  <2>1. lockFile = p /\ lockFile = q
    BY DEF LockInv, Owned, Relies, Holding
  <2> QED
    BY <2>1
<1> QED
  BY <1>1, LockInvariant, PTL

-----------------------------------------------------------------------------
(* Operators of the merge: the merge base, and the three ways the target    *)
(* branch changes.                                                          *)

\* A non-empty set of versions has a greatest element.
LEMMA GreatestVersion ==
    ASSUME NEW S \in SUBSET Versions, S # {}
    PROVE  Max(S) \in S /\ \A y \in S : Max(S) >= y
<1> DEFINE Below == {MaxVersion - x : x \in S}
           Less  == {ss \in Nat \X Nat : ss[1] < ss[2]}
<1>1. MaxVersion \in Nat
  BY BranchAssumption
<1>2. Below \subseteq Nat /\ Below # {}
  <2>1. \A x \in S : MaxVersion - x \in Nat
    BY <1>1 DEF Versions
  <2> QED
    BY <2>1
<1>3. PICK m \in Below : \A n \in Below : ~(<<n, m>> \in Less)
  <2>1. IsWellFoundedOn(Less, Nat)
    BY NatLessThanWellFounded DEF OpToRel
  <2> QED
    BY <2>1, <1>2, WFMin
<1>4. PICK x \in S : m = MaxVersion - x
  BY <1>3
<1>5. \A y \in S : x >= y
  <2> SUFFICES ASSUME NEW y \in S, ~(x >= y) PROVE FALSE
    OBVIOUS
  <2>1. MaxVersion - y \in Below
    OBVIOUS
  <2>2. x \in Nat /\ y \in Nat /\ MaxVersion - y \in Nat /\ MaxVersion - x \in Nat
    BY <1>1 DEF Versions
  <2>3. MaxVersion - y < MaxVersion - x
    BY <1>1, <2>2
  <2>4. <<MaxVersion - y, m>> \in Less
    BY <2>2, <2>3, <1>4
  <2> QED
    BY <2>1, <2>4, <1>3
<1> QED
  BY <1>5 DEF Max

\* The merge base of a branch is one of its versions.
LEMMA BaseOfIsAVersion ==
    ASSUME NEW c \in Seq(Commits), NEW b \in Branches
    PROVE  BaseOf(c, b) \in Versions
<1> DEFINE merged == {c[i].second : i \in {j \in 1..Len(c) : c[j].branch = b}}
<1>1. merged \cup {0} \subseteq Versions
  <2>1. \A i \in 1..Len(c) : c[i] \in Commits
    OBVIOUS
  <2>2. 0 \in Versions
    BY BranchAssumption DEF Versions
  <2> QED
    BY <2>1, <2>2 DEF Commits
<1>2. Max(merged \cup {0}) \in merged \cup {0}
  BY <1>1, GreatestVersion
<1> QED
  BY <1>1, <1>2 DEF BaseOf

\* `git merge` appends a commit: the earlier ones, and what precedes each of
\* them, stay.
LEMMA Appending ==
    ASSUME NEW c \in Seq(Commits), NEW m \in Commits,
           NEW d, d = Append(c, m)
    PROVE  /\ d \in Seq(Commits) /\ d # <<>>
           /\ Len(d) = Len(c) + 1 /\ d[Len(c) + 1] = m
           /\ \A i \in 1..Len(c) : d[i] = c[i]
           /\ \A i \in 1..Len(d) : SubSeq(d, 1, i - 1) = SubSeq(c, 1, i - 1)
<1>1. d \in Seq(Commits) /\ d # <<>> /\ Len(d) = Len(c) + 1 /\ d[Len(c) + 1] = m
  BY AppendProperties
<1>2. \A i \in 1..Len(c) : d[i] = c[i]
  BY AppendProperties
<1>3. ASSUME NEW i \in 1..Len(d) PROVE SubSeq(d, 1, i - 1) = SubSeq(c, 1, i - 1)
  <2>1. i - 1 \in 0..Len(c) /\ i - 1 \in 0..Len(d)
    BY <1>1
  <2>2. /\ SubSeq(d, 1, i - 1) = Restrict(d, 1..(i - 1))
        /\ SubSeq(c, 1, i - 1) = Restrict(c, 1..(i - 1))
    BY <1>1, <2>1, SubSeqRestrict
  <2>3. \A j \in 1..(i - 1) : d[j] = c[j]
    BY <1>2, <2>1
  <2> QED
    BY <2>2, <2>3 DEF Restrict
<1> QED
  BY <1>1, <1>2, <1>3

WithTrailers(c, t) == [c EXCEPT ![Len(c)].stamp = t]

\* `git commit --amend` gives the last commit a stamp: the earlier ones, and
\* what precedes each commit, stay.
LEMMA Amending ==
    ASSUME NEW c \in Seq(Commits), c # <<>>, NEW t \in Stamps, NEW d, d = WithTrailers(c, t)
    PROVE  /\ d \in Seq(Commits) /\ d # <<>>
           /\ Len(d) = Len(c)
           /\ \A i \in 1..(Len(c) - 1) : d[i] = c[i]
           /\ d[Len(c)] = [c[Len(c)] EXCEPT !.stamp = t]
           /\ \A i \in 1..Len(d) : SubSeq(d, 1, i - 1) = SubSeq(c, 1, i - 1)
<1> USE DEF WithTrailers
<1>1. Len(c) \in 1..Len(c) /\ c[Len(c)] \in Commits
  OBVIOUS
<1>2. [c[Len(c)] EXCEPT !.stamp = t] \in Commits
  BY <1>1 DEF Commits
<1>3. d \in Seq(Commits) /\ d # <<>> /\ Len(d) = Len(c)
  BY <1>1, <1>2
<1>4. /\ d[Len(c)] = [c[Len(c)] EXCEPT !.stamp = t]
      /\ \A i \in 1..(Len(c) - 1) : d[i] = c[i]
  BY <1>1, SMTT(30)
<1>5. ASSUME NEW i \in 1..Len(d) PROVE SubSeq(d, 1, i - 1) = SubSeq(c, 1, i - 1)
  <2>1. i - 1 \in 0..Len(c) /\ i - 1 \in 0..Len(d)
    BY <1>3
  <2>2. /\ SubSeq(d, 1, i - 1) = Restrict(d, 1..(i - 1))
        /\ SubSeq(c, 1, i - 1) = Restrict(c, 1..(i - 1))
    BY <1>3, <2>1, SubSeqRestrict
  <2>3. \A j \in 1..(i - 1) : d[j] = c[j]
    BY <1>3, <1>4, <2>1
  <2> QED
    BY <2>2, <2>3 DEF Restrict
<1> QED
  BY <1>3, <1>4, <1>5

-----------------------------------------------------------------------------
(* Type correctness.  A rollback restores preMergeSha: it must be taken.    *)

Captured == \A p \in Procs : stage[p] \in {"merge", "check", "sign", "rollback"} => pre[p] # <<>>

TypeInv == TypeOK /\ Captured

\* The first commit of the branch, and the stamp of a commit that has none.
LEMMA RootIsACommit == Root \in Commits /\ NoStamp \in Stamps
  BY BranchAssumption DEF Root, NoStamp, Commits, Stamps, Versions

\* The branch always has a tip.
LEMMA TipIsACommit == TypeOK => Tip(chain) \in Commits
  BY DEF TypeOK, Tip

\* The commit `git merge` makes, and the trailers `stamp merge` gives it.
LEMMA MergeMakesACommit ==
    ASSUME TypeOK, NEW b \in Branches
    PROVE  MergeCommit(chain, b) \in Commits
<1>1. Tip(chain) \in Commits
  BY TipIsACommit
<1> QED
  BY <1>1, RootIsACommit, BranchAssumption DEF TypeOK, MergeCommit, Commits

\* The trailers an invocation writes make a stamp.
LEMMA TrailersAreAStamp ==
    ASSUME TypeOK, NEW p \in Procs
    PROVE  Trailers(p) \in Stamps
  BY BranchAssumption DEF TypeOK, Trailers, Stamps

\* Every step of the merge is a step of the lock, or leaves the lock alone.
LEMMA MergeKeepsTheLock == [Next]_mergeVars => [LockNext]_lockVars
<1> SUFFICES ASSUME [Next]_mergeVars PROVE [LockNext]_lockVars
  OBVIOUS
<1>1. ASSUME NEW p \in Procs, Step(p) \/ Killed(p) \/ TooSlow(p) PROVE [LockNext]_lockVars
  <2>1. CASE TakeLock(p)
    BY <2>1 DEF TakeLock, LockNext
  <2>2. CASE LeaveLock(p)
    BY <2>2 DEF LeaveLock, LockNext
  <2>3. CASE ExitProcess(p)
    BY <2>3 DEF ExitProcess, LockNext
  <2>4. CASE Killed(p)
    BY <2>4 DEF Killed, LockNext
  <2>5. CASE TooSlow(p)
    BY <2>5 DEF TooSlow, LockNext
  <2>6. CASE Preflight(p) \/ Resolve(p) \/ Confirm(p) \/ GitMerge(p) \/ Check(p) \/ Sign(p) \/ Rollback(p)
    BY <2>6 DEF Preflight, Resolve, Confirm, GitMerge, Check, Sign, Rollback
  <2> QED
    BY <1>1, <2>1, <2>2, <2>3, <2>4, <2>5, <2>6 DEF Step
<1>2. CASE \E b \in Branches : FeatureCommit(b) \/ \E r \in Reviewers : Review(b, r)
  BY <1>2 DEF FeatureCommit, Review
<1>3. CASE AbortMerge
  BY <1>3 DEF AbortMerge
<1>4. CASE UNCHANGED mergeVars
  BY <1>4 DEF mergeVars
<1> QED
  BY <1>1, <1>2, <1>3, <1>4 DEF Next

\* So the lock's own invariant holds in the merge.
LEMMA LockHolds == Spec => [](LockInv)
<1>1. Init => LockInv
  BY LockInitInv DEF Init
<1>2. LockInv /\ [Next]_mergeVars => LockInv'
  BY MergeKeepsTheLock, LockNextInv
<1> QED
  BY <1>1, <1>2, PTL DEF Spec

\* The branch is its first commit, and nobody has begun.
LEMMA TypeInit == Init => TypeInv
<1> SUFFICES ASSUME Init PROVE TypeInv
  OBVIOUS
<1>1. LockTypeOK
  BY LockInitInv DEF Init, LockInv
<1>2. chain \in Seq(Commits) /\ chain # <<>>
  BY RootIsACommit DEF Init
<1>3. 0 \in Versions /\ 1 \in Versions
  BY BranchAssumption DEF Versions
<1>4. pre \in [Procs -> Seq(Commits)]
  <2>1. <<>> \in Seq(Commits)
    OBVIOUS
  <2> QED
    BY <2>1 DEF Init
<1>5. TypeOK
  BY <1>1, <1>2, <1>3, <1>4, BranchAssumption DEF Init, TypeOK, Stages
<1>6. Captured
  BY DEF Init, Captured
<1> QED
  BY <1>5, <1>6 DEF TypeInv

\* Every action of the merge keeps the types; the lock's are LockNextInv's.
LEMMA TypeNext == TypeInv /\ LockInv' /\ [Next]_mergeVars => TypeInv'
<1> SUFFICES ASSUME TypeInv, LockInv', [Next]_mergeVars PROVE TypeInv'
  OBVIOUS
<1> USE DEF TypeInv, TypeOK, Captured
<1>0. LockTypeOK'
  BY DEF LockInv
<1> USE <1>0
<1>1. ASSUME NEW p \in Procs, Preflight(p) PROVE TypeInv'
  <2>1. Tip(chain).required \subseteq Reviewers
    BY TipIsACommit DEF Commits
  <2> QED
    BY <1>1, <2>1 DEF Preflight, Goto, gitVars, ghostVars, Stages
<1>2. ASSUME NEW p \in Procs, TakeLock(p) PROVE TypeInv'
  BY <1>2 DEF TakeLock, Goto, gitVars, ghostVars, Stages
<1>3. ASSUME NEW p \in Procs, Resolve(p) PROVE TypeInv'
  <2>1. BaseOf(chain, BranchOf[p]) \in Versions /\ feat[BranchOf[p]] \in Versions
    BY BaseOfIsAVersion, BranchAssumption
  <2>2. \E s \in {"confirm", "leave"} : stage' = [stage EXCEPT ![p] = s]
    BY <1>3 DEF Resolve, Goto
  <2> QED
    BY <1>3, <2>1, <2>2 DEF Resolve, gitVars, Stages
<1>4. ASSUME NEW p \in Procs, Confirm(p) PROVE TypeInv'
  <2>1. CASE Goto(p, "leave") /\ UNCHANGED pre
    BY <1>4, <2>1 DEF Confirm, Goto, gitVars, ghostVars, Stages
  <2>2. CASE Goto(p, "merge") /\ pre' = [pre EXCEPT ![p] = chain]
    BY <1>4, <2>2 DEF Confirm, Goto, gitVars, ghostVars, Stages
  <2> QED
    BY <1>4, <2>1, <2>2 DEF Confirm
<1>5. ASSUME NEW p \in Procs, GitMerge(p) PROVE TypeInv'
  <2>1. chain' \in Seq(Commits) /\ chain' # <<>>
    <3>1. chain' = chain \/ chain' = Append(chain, MergeCommit(chain, BranchOf[p]))
      BY <1>5 DEF GitMerge
    <3>2. MergeCommit(chain, BranchOf[p]) \in Commits
      BY MergeMakesACommit, BranchAssumption
    <3> QED
      BY <3>1, <3>2, Appending
  <2>2. conflicted' \in BOOLEAN
    BY <1>5 DEF GitMerge
  <2>3. At(p, "merge") /\ \E s \in {"check", "leave"} : stage' = [stage EXCEPT ![p] = s]
    BY <1>5 DEF GitMerge, Goto
  <2> QED
    BY <1>5, <2>1, <2>2, <2>3 DEF GitMerge, At, ghostVars, Stages
<1>6. ASSUME NEW p \in Procs, Check(p) PROVE TypeInv'
  <2>1. At(p, "check") /\ \E s \in {"sign", "rollback"} : stage' = [stage EXCEPT ![p] = s]
    BY <1>6 DEF Check, Goto
  <2> QED
    BY <1>6, <2>1 DEF Check, At, gitVars, ghostVars, Stages
<1>7. ASSUME NEW p \in Procs, Sign(p) PROVE TypeInv'
  <2>1. chain' \in Seq(Commits) /\ chain' # <<>>
    <3>1. chain' = chain \/ chain' = [chain EXCEPT ![Len(chain)].stamp = Trailers(p)]
      BY <1>7 DEF Sign
    <3>2. Trailers(p) \in Stamps
      BY TrailersAreAStamp
    <3>3. CASE chain' = chain
      BY <3>3
    <3>4. CASE chain' = [chain EXCEPT ![Len(chain)].stamp = Trailers(p)]
      BY <3>2, <3>4, Amending DEF WithTrailers
    <3> QED
      BY <3>1, <3>3, <3>4
  <2>2. At(p, "sign") /\ \E s \in {"leave", "rollback"} : stage' = [stage EXCEPT ![p] = s]
    BY <1>7 DEF Sign, Goto
  <2> QED
    BY <1>7, <2>1, <2>2 DEF Sign, At, ghostVars, Stages
<1>8. ASSUME NEW p \in Procs, Rollback(p) PROVE TypeInv'
  <2>1. chain' \in Seq(Commits) /\ chain' # <<>>
    BY <1>8 DEF Rollback, At
  <2>2. conflicted' \in BOOLEAN /\ orphaned' \in BOOLEAN
    BY <1>8 DEF Rollback
  <2> QED
    BY <1>8, <2>1, <2>2 DEF Rollback, Goto, Stages
<1>9. ASSUME NEW p \in Procs, LeaveLock(p) \/ ExitProcess(p) \/ TooSlow(p) PROVE TypeInv'
  BY <1>9 DEF LeaveLock, ExitProcess, TooSlow, gitVars, procVars, ghostVars
<1>10. ASSUME NEW p \in Procs, Killed(p) PROVE TypeInv'
  BY <1>10 DEF Killed, gitVars, procVars
<1>11. ASSUME NEW b \in Branches, FeatureCommit(b) PROVE TypeInv'
  <2>1. feat[b] + 1 \in Versions
    BY <1>11, BranchAssumption DEF FeatureCommit, Versions
  <2> QED
    BY <1>11, <2>1 DEF FeatureCommit, procVars
<1>12. ASSUME NEW b \in Branches, NEW r \in Reviewers, Review(b, r) PROVE TypeInv'
  <2>1. BaseOf(chain, b) \in Versions
    BY BaseOfIsAVersion
  <2>2. approved' \subseteq Branches \X Versions \X Versions \X Reviewers
    BY <1>12, <2>1 DEF Review
  <2> QED
    BY <1>12, <2>2 DEF Review, gitVars, procVars, ghostVars
<1>13. CASE AbortMerge
  BY <1>13 DEF AbortMerge, procVars, ghostVars
<1>14. CASE UNCHANGED mergeVars
  BY <1>14 DEF mergeVars, gitVars, procVars, ghostVars
<1> QED
  BY <1>1, <1>2, <1>3, <1>4, <1>5, <1>6, <1>7, <1>8, <1>9, <1>10, <1>11,
     <1>12, <1>13, <1>14 DEF Next, Step

\* The types and the lock hold throughout.
LEMMA TypeHolds == Spec => [](TypeInv /\ LockInv)
<1>1. TypeInv /\ LockInv /\ [Next]_mergeVars => (TypeInv /\ LockInv)'
  BY MergeKeepsTheLock, LockNextInv, TypeNext
<1>2. Init => TypeInv /\ LockInv
  BY TypeInit, LockInitInv DEF Init
<1> QED
  BY <1>1, <1>2, PTL DEF Spec

\* Type correctness of `stamp merge`, for any branches, reviewers and
\* invocations: in particular a rollback never resets to a sha that was not
\* captured, and the target branch is never empty.
THEOREM MergeTypeCorrect == Spec => []TypeOK
<1>1. TypeInv => TypeOK
  BY DEF TypeInv
<1> QED
  BY <1>1, TypeHolds, PTL

-----------------------------------------------------------------------------
(* What the lock protects.  StampDescribesMerge and NothingUnsignedIsLeft   *)
(* speak of the finished branch; inductively one needs what the holder of   *)
(* the lock knows at each stage on the way there.                           *)

\* The holder is past the acquire loop.
Locked == \A p \in Procs : Holding(p) => stage[p] \notin {"preflight", "acquire"}

\* The rule of the target branch only grows, so that a gate passed with a
\* required reviewer is about a range that has a diff.
Gated ==
    /\ \A i \in 1..Len(chain) : Required \subseteq chain[i].required
    /\ \A p \in Procs : \A i \in 1..Len(pre[p]) : Required \subseteq pre[p][i].required
    /\ \A p \in Procs : Required \subseteq required[p]
    /\ \A k \in approved : k[2] < k[3]
    /\ \A p \in Procs : stage[p] \in {"confirm", "merge"} /\ Required # {} => base[p] < head[p]

\* Between the merge and the amend: the branch is preMergeSha with one unsigned
\* merge on top (or nothing, when no reviewer is required).
Window(p) == Holding(p) /\ stage[p] \in {"check", "sign", "rollback"}

Merged(p) ==
    \/ chain = pre[p] /\ Required = {}
    \/ \E m \in Commits :
          /\ chain = Append(pre[p], m)
          /\ m.branch = BranchOf[p] /\ m.stamp = NoStamp
          /\ p \notin moved => m.second = head[p]

\* What the holder resolved is true of the branch until it merges.
Resolved(p) ==
    /\ base[p] = BaseOf(chain, BranchOf[p])
    /\ head[p] <= feat[BranchOf[p]]
    /\ p \notin moved => head[p] = feat[BranchOf[p]]

Knows(p) ==
    /\ stage[p] \in {"confirm", "merge"} => Resolved(p)
    /\ stage[p] = "merge" => pre[p] = chain
    /\ Window(p) => base[p] = BaseOf(pre[p], BranchOf[p]) /\ Merged(p)

Merging == robbed = {} => \A p \in Procs : Holding(p) => Knows(p)

\* Whoever signed has left the window, and does not resolve again.
SignersLeft ==
    robbed = {} => \A i \in 1..Len(chain) :
        Signed(chain[i]) => chain[i].stamp.by \in Procs /\ stage[chain[i].stamp.by] = "leave"

Described == Required # {} => StampDescribesMerge

Swept ==
    ~orphaned /\ robbed = {} => \A i \in 2..Len(chain) :
        Signed(chain[i]) \/ \E p \in Procs : Window(p) /\ i > Len(pre[p])

MergeInv == TypeInv /\ LockInv /\ Locked /\ Gated /\ Merging /\ SignersLeft /\ Described /\ Swept

\* Whoever was robbed of the lock stays robbed.
LEMMA RobbedGrows == [LockNext]_lockVars => robbed \subseteq robbed'
<1> SUFFICES ASSUME [LockNext]_lockVars PROVE robbed \subseteq robbed'
  OBVIOUS
<1>1. CASE UNCHANGED lockVars
  BY <1>1 DEF lockVars
<1>2. ASSUME NEW p \in Procs, Acquire(p) \/ Release(p) \/ Exit(p) \/ Die(p) \/ Overrun(p)
      PROVE  robbed' = robbed \/ Unlink(p)
  BY <1>2 DEF Acquire, Invoke, OpenExclusive, OpenExists, WriteRecord, WriteFails, ReadRecord,
     JudgeHolder, UnlinkStale, UnlinkFails, Release, Exit, Die, Overrun
<1> QED
  BY <1>1, <1>2 DEF LockNext, Unlink

\* As long as no lock is lost there is one holder.
LEMMA OneHolder ==
    ASSUME LockInv, robbed = {}, NEW p \in Procs, NEW q \in Procs, Holding(p), Holding(q)
    PROVE  p = q
  BY DEF LockInv, Owned, Relies, Holding

\* A step of the acquire loop moves one invocation, which does not hold the lock.
LEMMA AcquireIsLocal ==
    ASSUME LockTypeOK, NEW p \in Procs, Acquire(p)
    PROVE  /\ ~Holding(p)
           /\ \A q \in Procs \ {p} : lpc'[q] = lpc[q]
<1> USE DEF LockTypeOK, Holding
<1>1. CASE Invoke(p) \/ OpenExclusive(p) \/ OpenExists(p) \/ WriteRecord(p) \/ WriteFails(p)
  BY <1>1 DEF Invoke, OpenExclusive, OpenExists, WriteRecord, WriteFails
<1>2. CASE ReadRecord(p)
  BY <1>2 DEF ReadRecord
<1>3. CASE JudgeHolder(p) \/ UnlinkStale(p) \/ UnlinkFails(p)
  BY <1>3 DEF JudgeHolder, UnlinkStale, UnlinkFails
<1> QED
  BY <1>1, <1>2, <1>3 DEF Acquire

\* The three steps that change the target branch.
Appends(p) ==
    /\ Holding(p) /\ stage[p] = "merge"
    /\ chain' = Append(chain, MergeCommit(chain, BranchOf[p]))
    /\ stage' = [stage EXCEPT ![p] = "check"]
    /\ UNCHANGED <<lpc, pre, moved, robbed, orphaned>>

Amends(p) ==
    /\ Holding(p) /\ stage[p] = "sign"
    /\ chain' = [chain EXCEPT ![Len(chain)].stamp = Trailers(p)]
    /\ stage' = [stage EXCEPT ![p] = "leave"]
    /\ UNCHANGED <<lpc, pre, moved, robbed, orphaned>>

Undoes(p) ==
    /\ Holding(p) /\ stage[p] = "rollback"
    /\ chain' = pre[p]
    /\ stage' = [stage EXCEPT ![p] = "leave"]
    /\ UNCHANGED <<lpc, pre, moved, robbed, orphaned>>

\* What they do to it.
LEMMA Appended ==
    ASSUME TypeOK, NEW p \in Procs, chain' = Append(chain, MergeCommit(chain, BranchOf[p]))
    PROVE  /\ MergeCommit(chain, BranchOf[p]) \in Commits
           /\ Len(chain') = Len(chain) + 1
           /\ chain'[Len(chain) + 1] = MergeCommit(chain, BranchOf[p])
           /\ \A i \in 1..Len(chain) : chain'[i] = chain[i]
           /\ \A i \in 1..Len(chain') : SubSeq(chain', 1, i - 1) = SubSeq(chain, 1, i - 1)
<1> DEFINE m == MergeCommit(chain, BranchOf[p])
           d == chain'
<1>1. m \in Commits
  BY MergeMakesACommit, BranchAssumption
<1>2. chain \in Seq(Commits) /\ d = Append(chain, m)
  BY DEF TypeOK
<1> HIDE DEF m, d
<1>3. /\ Len(d) = Len(chain) + 1 /\ d[Len(chain) + 1] = m
      /\ \A i \in 1..Len(chain) : d[i] = chain[i]
      /\ \A i \in 1..Len(d) : SubSeq(d, 1, i - 1) = SubSeq(chain, 1, i - 1)
  BY <1>1, <1>2, Appending
<1> QED
  BY <1>1, <1>3 DEF m, d

\* git commit --amend puts a stamp on the tip and changes nothing else.
LEMMA Amended ==
    ASSUME TypeOK, NEW p \in Procs, chain' = [chain EXCEPT ![Len(chain)].stamp = Trailers(p)]
    PROVE  /\ Len(chain) \in 1..Len(chain)
           /\ Len(chain') = Len(chain)
           /\ \A i \in 1..(Len(chain) - 1) : chain'[i] = chain[i]
           /\ chain'[Len(chain)].required = chain[Len(chain)].required
           /\ chain'[Len(chain)].branch = chain[Len(chain)].branch
           /\ chain'[Len(chain)].second = chain[Len(chain)].second
           /\ chain'[Len(chain)].stamp = Trailers(p)
           /\ \A i \in 1..Len(chain') : SubSeq(chain', 1, i - 1) = SubSeq(chain, 1, i - 1)
<1> DEFINE t == Trailers(p)
           c == chain
           d == chain'
<1>1. t \in Stamps
  BY TrailersAreAStamp
<1>2. c \in Seq(Commits) /\ c # <<>> /\ d = WithTrailers(c, t)
  BY DEF TypeOK, WithTrailers
<1> HIDE DEF t, c, d
<1>3. /\ Len(d) = Len(c)
      /\ \A i \in 1..(Len(c) - 1) : d[i] = c[i]
      /\ d[Len(c)] = [c[Len(c)] EXCEPT !.stamp = t]
      /\ \A i \in 1..Len(d) : SubSeq(d, 1, i - 1) = SubSeq(c, 1, i - 1)
  BY <1>1, <1>2, Amending
<1>4. Len(c) \in 1..Len(c) /\ c[Len(c)] \in Commits
  BY <1>2
<1>5. /\ d[Len(c)].required = c[Len(c)].required
      /\ d[Len(c)].branch = c[Len(c)].branch
      /\ d[Len(c)].second = c[Len(c)].second
      /\ d[Len(c)].stamp = t
  BY <1>3, <1>4 DEF Commits
<1> QED
  BY <1>3, <1>4, <1>5 DEF t, c, d

\* Any other step leaves the branch alone, and whoever is in the window stays
\* there unless something is orphaned.
Rests ==
    /\ chain' = chain
    /\ \A p \in Procs : Window(p) /\ ~orphaned' => Window(p)' /\ pre'[p] = pre[p]

\* An invocation appends a merge, amends the tip or takes it off; else the branch rests.
LEMMA HowTheBranchMoves ==
    ASSUME TypeInv, [Next]_mergeVars
    PROVE  Rests \/ \E p \in Procs : Appends(p) \/ Amends(p) \/ Undoes(p)
<1> USE DEF TypeInv, TypeOK, Window, Holding
<1>1. ASSUME NEW p \in Procs, Preflight(p) PROVE Rests
  BY <1>1 DEF Preflight, Goto, lockVars, gitVars, ghostVars, Rests
<1>2. ASSUME NEW p \in Procs, TakeLock(p) PROVE Rests
  <2>1. ~Holding(p) /\ \A q \in Procs \ {p} : lpc'[q] = lpc[q]
    BY <1>2, AcquireIsLocal DEF TakeLock
  <2>2. \A q \in Procs \ {p} : stage'[q] = stage[q]
    BY <1>2 DEF TakeLock, Goto
  <2> QED
    BY <1>2, <2>1, <2>2 DEF TakeLock, gitVars, ghostVars, Rests
<1>3. ASSUME NEW p \in Procs, Resolve(p) PROVE Rests
  <2>1. PICK s \in {"confirm", "leave"} : stage' = [stage EXCEPT ![p] = s]
    BY <1>3 DEF Resolve, Goto
  <2> QED
    BY <1>3, <2>1 DEF Resolve, At, lockVars, gitVars, Rests
<1>4. ASSUME NEW p \in Procs, Confirm(p) PROVE Rests
  <2>1. stage[p] = "confirm" /\ \A q \in Procs \ {p} : stage'[q] = stage[q] /\ pre'[q] = pre[q]
    BY <1>4 DEF Confirm, At, Goto
  <2> QED
    BY <1>4, <2>1 DEF Confirm, lockVars, gitVars, ghostVars, Rests
<1>5. ASSUME NEW p \in Procs, GitMerge(p) PROVE Rests \/ Appends(p)
  <2>1. CASE chain' = chain
    <3>1. stage[p] = "merge" /\ \A q \in Procs \ {p} : stage'[q] = stage[q]
      BY <1>5 DEF GitMerge, At, Goto
    <3> QED
      BY <1>5, <2>1, <3>1 DEF GitMerge, lockVars, Rests
  <2>2. CASE chain' # chain
    BY <1>5, <2>2 DEF GitMerge, At, Goto, lockVars, ghostVars, Appends
  <2> QED
    BY <2>1, <2>2
<1>6. ASSUME NEW p \in Procs, Check(p) PROVE Rests
  <2>1. PICK s \in {"sign", "rollback"} : stage' = [stage EXCEPT ![p] = s]
    BY <1>6 DEF Check, Goto
  <2> QED
    BY <1>6, <2>1 DEF Check, lockVars, gitVars, Rests
<1>7. ASSUME NEW p \in Procs, Sign(p) PROVE Rests \/ Amends(p)
  <2>1. CASE Goto(p, "rollback") /\ UNCHANGED chain
    BY <1>7, <2>1 DEF Sign, Goto, lockVars, Rests
  <2>2. CASE ~(Goto(p, "rollback") /\ UNCHANGED chain)
    BY <1>7, <2>2 DEF Sign, At, Goto, lockVars, ghostVars, Amends
  <2> QED
    BY <2>1, <2>2
<1>8. ASSUME NEW p \in Procs, Rollback(p) PROVE Rests \/ Undoes(p)
  <2>1. CASE orphaned' = TRUE /\ UNCHANGED chain
    BY <2>1 DEF Rests
  <2>2. CASE ~(orphaned' = TRUE /\ UNCHANGED chain)
    BY <1>8, <2>2 DEF Rollback, At, Goto, lockVars, Undoes
  <2> QED
    BY <2>1, <2>2
<1>9. ASSUME NEW p \in Procs, LeaveLock(p) PROVE Rests
  BY <1>9 DEF LeaveLock, Release, At, LockTypeOK, gitVars, procVars, Rests
<1>10. ASSUME NEW p \in Procs, ExitProcess(p) PROVE Rests
  BY <1>10 DEF ExitProcess, Exit, LockTypeOK, gitVars, procVars, Rests
<1>11. ASSUME NEW p \in Procs, Killed(p) PROVE Rests
  BY <1>11 DEF Killed, Die, LockTypeOK, gitVars, procVars, Rests
<1>12. ASSUME NEW p \in Procs, TooSlow(p) PROVE Rests
  BY <1>12 DEF TooSlow, Overrun, gitVars, procVars, Rests
<1>13. ASSUME NEW b \in Branches, FeatureCommit(b) PROVE Rests
  BY <1>13 DEF FeatureCommit, lockVars, procVars, Rests
<1>14. ASSUME NEW b \in Branches, NEW r \in Reviewers, Review(b, r) PROVE Rests
  BY <1>14 DEF Review, lockVars, gitVars, procVars, Rests
<1>15. CASE AbortMerge
  BY <1>15 DEF AbortMerge, lockVars, procVars, Rests
<1>16. CASE UNCHANGED mergeVars
  BY <1>16 DEF mergeVars, lockVars, gitVars, procVars, Rests
<1> QED
  BY <1>1, <1>2, <1>3, <1>4, <1>5, <1>6, <1>7, <1>8, <1>9, <1>10, <1>11,
     <1>12, <1>13, <1>14, <1>15, <1>16 DEF Next, Step

\* Whatever p does outside the lock, its stage moves from one to another.
LEMMA LockedNext == TypeInv /\ Locked /\ [Next]_mergeVars => Locked'
<1> SUFFICES ASSUME TypeInv, Locked, [Next]_mergeVars PROVE Locked'
  OBVIOUS
<1> USE DEF TypeInv, TypeOK, LockTypeOK, Locked, Holding
<1>1. ASSUME NEW p \in Procs, Preflight(p) PROVE Locked'
  BY <1>1 DEF Preflight, Goto, lockVars
<1>2. ASSUME NEW p \in Procs, TakeLock(p) PROVE Locked'
  <2>1. \A q \in Procs \ {p} : lpc'[q] = lpc[q]
    BY <1>2, AcquireIsLocal DEF TakeLock
  <2>2. \A q \in Procs \ {p} : stage'[q] = stage[q]
    BY <1>2 DEF TakeLock, Goto
  <2>3. lpc'[p] = "held" => stage'[p] = "resolve"
    BY <1>2 DEF TakeLock, Goto
  <2> QED
    BY <2>1, <2>2, <2>3
<1>3. ASSUME NEW p \in Procs, Resolve(p) PROVE Locked'
  <2>1. PICK s \in {"confirm", "leave"} : stage' = [stage EXCEPT ![p] = s]
    BY <1>3 DEF Resolve, Goto
  <2> QED
    BY <1>3, <2>1 DEF Resolve, lockVars
<1>4. ASSUME NEW p \in Procs, Confirm(p) \/ GitMerge(p) \/ Check(p) \/ Sign(p) \/ Rollback(p) PROVE Locked'
  <2>1. PICK s \in {"leave", "merge", "check", "sign", "rollback"} : stage' = [stage EXCEPT ![p] = s]
    BY <1>4 DEF Confirm, GitMerge, Check, Sign, Rollback, Goto
  <2> QED
    BY <1>4, <2>1 DEF Confirm, GitMerge, Check, Sign, Rollback, lockVars
<1>5. ASSUME NEW p \in Procs, LeaveLock(p) \/ ExitProcess(p) \/ Killed(p) \/ TooSlow(p) PROVE Locked'
  <2>1. stage' = stage
    BY <1>5 DEF LeaveLock, ExitProcess, Killed, TooSlow, procVars
  <2>2. lpc' = lpc \/ \E s \in {"released", "done", "dead"} : lpc' = [lpc EXCEPT ![p] = s]
    BY <1>5 DEF LeaveLock, ExitProcess, Killed, TooSlow, Release, Exit, Die, Overrun
  <2> QED
    BY <2>1, <2>2
<1>6. ASSUME NEW b \in Branches, FeatureCommit(b) \/ \E r \in Reviewers : Review(b, r) PROVE Locked'
  BY <1>6 DEF FeatureCommit, Review, lockVars, procVars
<1>7. CASE AbortMerge \/ UNCHANGED mergeVars
  BY <1>7 DEF AbortMerge, mergeVars, lockVars, procVars
<1> QED
  BY <1>1, <1>2, <1>3, <1>4, <1>5, <1>6, <1>7 DEF Next, Step

\* A gate that is open for a required reviewer is open for a range with a diff.
LEMMA OpenGateHasADiff ==
    ASSUME Gated, NEW p \in Procs, NEW b, NEW v, GateOpen(p, b, v), Required # {}
    PROVE  b < v
<1>1. PICK r \in Required : r \in required[p]
  BY DEF Gated
<1>2. <<BranchOf[p], b, v, r>> \in approved
  BY <1>1 DEF GateOpen
<1> QED
  BY <1>2 DEF Gated

\* The first commit requires what the rule does, and nothing has been read.
LEMMA GatedInit == Init => Gated
  BY DEF Init, Gated, Root

\* No step relaxes the rule, and the gate passes a head that is past its base.
LEMMA GatedNext == TypeInv /\ Gated /\ [Next]_mergeVars => Gated'
<1> SUFFICES ASSUME TypeInv, Gated, [Next]_mergeVars PROVE Gated'
  OBVIOUS
<1> USE DEF TypeInv, TypeOK
<1>0. Len(chain) \in 1..Len(chain)
  OBVIOUS
<1>1. ASSUME NEW p \in Procs, Preflight(p) PROVE Gated'
  <2>1. Required \subseteq Tip(chain).required
    BY <1>0 DEF Gated, Tip
  <2> QED
    BY <1>1, <2>1 DEF Preflight, Goto, gitVars, Gated
<1>2. ASSUME NEW p \in Procs, TakeLock(p) PROVE Gated'
  <2>1. stage' = stage \/ stage' = [stage EXCEPT ![p] = "resolve"]
    BY <1>2 DEF TakeLock, Goto
  <2> QED
    BY <1>2, <2>1 DEF TakeLock, gitVars, Gated
<1>3. ASSUME NEW p \in Procs, Resolve(p) PROVE Gated'
  <2> DEFINE b == BaseOf(chain, BranchOf[p])
             v == feat[BranchOf[p]]
  <2>1. /\ base' = [base EXCEPT ![p] = b] /\ head' = [head EXCEPT ![p] = v]
        /\ stage' = [stage EXCEPT ![p] = IF GateOpen(p, b, v) THEN "confirm" ELSE "leave"]
        /\ UNCHANGED <<chain, pre, required, approved>>
    BY <1>3 DEF Resolve, Goto, gitVars
  <2>2. GateOpen(p, b, v) /\ Required # {} => b < v
    BY OpenGateHasADiff
  <2> HIDE DEF b, v
  <2> QED
    BY <2>1, <2>2 DEF Gated
<1>4. ASSUME NEW p \in Procs, Confirm(p) PROVE Gated'
  <2>1. CASE Goto(p, "leave") /\ UNCHANGED pre
    BY <1>4, <2>1 DEF Confirm, Goto, gitVars, Gated
  <2>2. CASE Goto(p, "merge") /\ pre' = [pre EXCEPT ![p] = chain]
    BY <1>4, <2>2 DEF Confirm, At, Goto, gitVars, Gated
  <2> QED
    BY <1>4, <2>1, <2>2 DEF Confirm
<1>5. ASSUME NEW p \in Procs, GitMerge(p) PROVE Gated'
  <2>1. \A i \in 1..Len(chain') : Required \subseteq chain'[i].required
    <3>1. CASE chain' = chain
      BY <3>1 DEF Gated
    <3>2. CASE chain' = Append(chain, MergeCommit(chain, BranchOf[p]))
      <4>1. Required \subseteq MergeCommit(chain, BranchOf[p]).required
        BY <1>0 DEF Gated, MergeCommit, Tip
      <4>2. /\ Len(chain') = Len(chain) + 1
            /\ chain'[Len(chain) + 1] = MergeCommit(chain, BranchOf[p])
            /\ \A i \in 1..Len(chain) : chain'[i] = chain[i]
        BY <3>2, Appended
      <4>3. ASSUME NEW i \in 1..Len(chain') PROVE Required \subseteq chain'[i].required
        <5>1. CASE i = Len(chain) + 1
          BY <5>1, <4>1, <4>2
        <5>2. CASE i \in 1..Len(chain)
          BY <5>2, <4>2 DEF Gated
        <5> QED
          BY <5>1, <5>2, <4>2
      <4> QED
        BY <4>3
    <3> QED
      BY <1>5, <3>1, <3>2 DEF GitMerge
  <2>2. PICK s \in {"check", "leave"} : stage' = [stage EXCEPT ![p] = s]
    BY <1>5 DEF GitMerge, Goto
  <2> QED
    BY <1>5, <2>1, <2>2 DEF GitMerge, Gated
<1>6. ASSUME NEW p \in Procs, Check(p) PROVE Gated'
  <2>1. PICK s \in {"sign", "rollback"} : stage' = [stage EXCEPT ![p] = s]
    BY <1>6 DEF Check, Goto
  <2> QED
    BY <1>6, <2>1 DEF Check, gitVars, Gated
<1>7. ASSUME NEW p \in Procs, Sign(p) PROVE Gated'
  <2>1. \A i \in 1..Len(chain') : Required \subseteq chain'[i].required
    <3>1. CASE chain' = chain
      BY <3>1 DEF Gated
    <3>2. CASE chain' = [chain EXCEPT ![Len(chain)].stamp = Trailers(p)]
      <4>1. /\ Len(chain') = Len(chain)
            /\ chain'[Len(chain)].required = chain[Len(chain)].required
            /\ \A i \in 1..(Len(chain) - 1) : chain'[i] = chain[i]
        BY <3>2, Amended
      <4>2. ASSUME NEW i \in 1..Len(chain') PROVE Required \subseteq chain'[i].required
        <5>1. CASE i = Len(chain)
          BY <5>1, <4>1, <1>0 DEF Gated
        <5>2. CASE i \in 1..(Len(chain) - 1)
          BY <5>2, <4>1 DEF Gated
        <5> QED
          BY <5>1, <5>2, <4>1
      <4> QED
        BY <4>2
    <3> QED
      BY <1>7, <3>1, <3>2 DEF Sign
  <2>2. PICK s \in {"leave", "rollback"} : stage' = [stage EXCEPT ![p] = s]
    BY <1>7 DEF Sign, Goto
  <2> QED
    BY <1>7, <2>1, <2>2 DEF Sign, Gated
<1>8. ASSUME NEW p \in Procs, Rollback(p) PROVE Gated'
  <2>1. \A i \in 1..Len(chain') : Required \subseteq chain'[i].required
    BY <1>8 DEF Rollback, Gated
  <2> QED
    BY <1>8, <2>1 DEF Rollback, Goto, Gated
<1>9. ASSUME NEW p \in Procs, LeaveLock(p) \/ ExitProcess(p) \/ Killed(p) \/ TooSlow(p) PROVE Gated'
  BY <1>9 DEF LeaveLock, ExitProcess, Killed, TooSlow, gitVars, procVars, Gated
<1>10. ASSUME NEW b \in Branches, FeatureCommit(b) PROVE Gated'
  BY <1>10 DEF FeatureCommit, procVars, Gated
<1>11. ASSUME NEW b \in Branches, NEW r \in Reviewers, Review(b, r) PROVE Gated'
  <2>1. \A k \in approved' : k[2] < k[3]
    BY <1>11 DEF Review, Gated
  <2> QED
    BY <1>11, <2>1 DEF Review, gitVars, procVars, Gated
<1>12. CASE AbortMerge \/ UNCHANGED mergeVars
  BY <1>12 DEF AbortMerge, mergeVars, gitVars, procVars, Gated
<1> QED
  BY <1>1, <1>2, <1>3, <1>4, <1>5, <1>6, <1>7, <1>8, <1>9, <1>10, <1>11,
     <1>12 DEF Next, Step

\* Steps that leave what the holders know alone: an invocation gets the lock,
\* gives it up, dies, leaves, or moves on inside the window.
LEMMA AsideKeepsMerging ==
    ASSUME Merging, robbed \subseteq robbed',
           UNCHANGED <<chain, feat, base, head, pre, moved>>,
           \A q \in Procs : Holding(q)' =>
               \/ stage'[q] \in {"resolve", "leave"}
               \/ /\ Holding(q)
                  /\ stage'[q] = stage[q] \/ (stage[q] = "check" /\ stage'[q] \in {"sign", "rollback"})
    PROVE  Merging'
<1> SUFFICES ASSUME robbed = {}, NEW q \in Procs, Holding(q)' PROVE Knows(q)'
  BY DEF Merging
<1>1. CASE stage'[q] \in {"resolve", "leave"}
  BY <1>1 DEF Knows, Window
<1>2. CASE Holding(q) /\ stage'[q] = stage[q]
  <2>1. Knows(q)
    BY <1>2 DEF Merging
  <2> QED
    BY <1>2, <2>1 DEF Knows, Resolved, Window, Merged
<1>3. CASE Holding(q) /\ stage[q] = "check" /\ stage'[q] \in {"sign", "rollback"}
  <2>1. Knows(q)
    BY <1>3 DEF Merging
  <2> QED
    BY <1>3, <2>1 DEF Knows, Resolved, Window, Merged
<1> QED
  BY <1>1, <1>2, <1>3

\* Nobody holds the lock at first.
LEMMA MergingInit == Init => Merging
  BY DEF Init, LockInit, Merging, Holding

\* The holder of the lock knows the branch: what others do does not touch it.
LEMMA MergingNext ==
    ASSUME TypeInv, LockInv, Locked, Gated, Merging, [Next]_mergeVars
    PROVE  Merging'
<1> USE DEF TypeInv, TypeOK, LockTypeOK
<1>0. robbed \subseteq robbed'
  BY MergeKeepsTheLock, RobbedGrows
<1>1. ASSUME NEW p \in Procs, Preflight(p) PROVE Merging'
  <2>1. ~Holding(p)
    BY <1>1 DEF Preflight, Locked
  <2>2. \A q \in Procs : Holding(q)' => Holding(q) /\ stage'[q] = stage[q]
    BY <1>1, <2>1 DEF Preflight, Goto, lockVars, Holding
  <2> QED
    BY <1>0, <1>1, <2>2, AsideKeepsMerging DEF Preflight, gitVars, ghostVars
<1>2. ASSUME NEW p \in Procs, TakeLock(p) PROVE Merging'
  <2>1. \A q \in Procs \ {p} : lpc'[q] = lpc[q] /\ stage'[q] = stage[q]
    BY <1>2, AcquireIsLocal DEF TakeLock, Goto
  <2>2. lpc'[p] = "held" => stage'[p] = "resolve"
    BY <1>2 DEF TakeLock, Goto
  <2>3. \A q \in Procs : Holding(q)' => stage'[q] = "resolve" \/ (Holding(q) /\ stage'[q] = stage[q])
    BY <2>1, <2>2 DEF Holding
  <2> QED
    BY <1>0, <1>2, <2>3, AsideKeepsMerging DEF TakeLock, gitVars, ghostVars
<1>3. ASSUME NEW p \in Procs, Resolve(p) PROVE Merging'
  <2> SUFFICES ASSUME robbed = {}, NEW q \in Procs, Holding(q)' PROVE Knows(q)'
    BY <1>0 DEF Merging
  <2>1. Holding(p) /\ Holding(q)
    BY <1>3 DEF Resolve, At, lockVars, Holding
  <2>2. p = q
    BY <2>1, OneHolder
  <2>3. stage'[p] \in {"confirm", "leave"}
    BY <1>3 DEF Resolve, Goto
  <2>4. base'[p] = BaseOf(chain, BranchOf[p]) /\ head'[p] = feat[BranchOf[p]]
    BY <1>3 DEF Resolve
  <2>5. feat[BranchOf[p]] \in Nat
    BY BranchAssumption DEF Versions
  <2>6. UNCHANGED <<chain, feat>>
    BY <1>3 DEF Resolve, gitVars
  <2>7. Resolved(p)'
    BY <2>4, <2>5, <2>6 DEF Resolved
  <2> QED
    BY <2>2, <2>3, <2>7 DEF Knows, Window
<1>4. ASSUME NEW p \in Procs, Confirm(p) PROVE Merging'
  <2> SUFFICES ASSUME robbed = {}, NEW q \in Procs, Holding(q)' PROVE Knows(q)'
    BY <1>0 DEF Merging
  <2>1. Holding(p) /\ Holding(q) /\ stage[p] = "confirm"
    BY <1>4 DEF Confirm, At, lockVars, Holding
  <2>2. p = q
    BY <2>1, OneHolder
  <2>3. Resolved(p)
    BY <2>1 DEF Merging, Knows
  <2>4. Resolved(p)'
    BY <1>4, <2>3 DEF Confirm, Resolved, gitVars, ghostVars
  <2>5. stage'[p] = "leave" \/ (stage'[p] = "merge" /\ pre'[p] = chain)
    BY <1>4 DEF Confirm, Goto
  <2>6. chain' = chain
    BY <1>4 DEF Confirm, gitVars
  <2> QED
    BY <2>2, <2>4, <2>5, <2>6 DEF Knows, Window
<1>5. ASSUME NEW p \in Procs, GitMerge(p) PROVE Merging'
  <2> SUFFICES ASSUME robbed = {}, NEW q \in Procs, Holding(q)' PROVE Knows(q)'
    BY <1>0 DEF Merging
  <2>1. Holding(p) /\ Holding(q) /\ stage[p] = "merge"
    BY <1>5 DEF GitMerge, At, lockVars, Holding
  <2>2. p = q
    BY <2>1, OneHolder
  <2>3. Resolved(p) /\ pre[p] = chain
    BY <2>1 DEF Merging, Knows
  <2>4. stage'[p] = "leave" \/ stage'[p] = "check"
    BY <1>5 DEF GitMerge, Goto
  <2>5. UNCHANGED <<base, head, pre, moved, feat>>
    BY <1>5 DEF GitMerge, ghostVars
  <2>6. base'[p] = BaseOf(pre'[p], BranchOf[p])
    BY <2>3, <2>5 DEF Resolved
  <2>7. ASSUME stage'[p] = "check" PROVE Merged(p)'
    <3>1. CASE chain' = Append(chain, MergeCommit(chain, BranchOf[p]))
      <4>1. MergeCommit(chain, BranchOf[p]) \in Commits
        BY MergeMakesACommit, BranchAssumption
      <4>2. /\ MergeCommit(chain, BranchOf[p]).branch = BranchOf[p]
            /\ MergeCommit(chain, BranchOf[p]).stamp = NoStamp
            /\ MergeCommit(chain, BranchOf[p]).second = feat[BranchOf[p]]
        BY DEF MergeCommit
      <4>3. p \notin moved' => MergeCommit(chain, BranchOf[p]).second = head'[p]
        BY <2>3, <2>5, <4>2 DEF Resolved
      <4>4. chain' = Append(pre'[p], MergeCommit(chain, BranchOf[p]))
        BY <3>1, <2>3, <2>5
      <4> QED
        BY <4>1, <4>2, <4>3, <4>4 DEF Merged
    <3>2. CASE BaseOf(chain, BranchOf[p]) = feat[BranchOf[p]] /\ chain' = chain
      <4>1. Required = {}
        <5> SUFFICES ASSUME Required # {} PROVE FALSE
          OBVIOUS
        <5>1. base[p] < head[p]
          BY <2>1 DEF Gated
        <5>2. head[p] <= feat[BranchOf[p]] /\ base[p] = feat[BranchOf[p]]
          BY <2>3, <3>2 DEF Resolved
        <5>3. base[p] \in Nat /\ head[p] \in Nat /\ feat[BranchOf[p]] \in Nat
          BY BranchAssumption DEF Versions
        <5> QED
          BY <5>1, <5>2, <5>3
      <4> QED
        BY <3>2, <4>1, <2>3, <2>5 DEF Merged
    <3> QED
      BY <1>5, <2>7, <3>1, <3>2 DEF GitMerge, Goto
  <2> QED
    BY <2>2, <2>4, <2>6, <2>7 DEF Knows, Window
<1>6. ASSUME NEW p \in Procs, Check(p) PROVE Merging'
  <2>1. /\ stage[p] = "check" /\ stage'[p] \in {"sign", "rollback"}
        /\ \A q \in Procs \ {p} : stage'[q] = stage[q]
    BY <1>6 DEF Check, At, Goto
  <2>2. \A q \in Procs : Holding(q)' => Holding(q)
    BY <1>6 DEF Check, lockVars, Holding
  <2>3. UNCHANGED <<chain, feat, base, head, pre, moved>>
    BY <1>6 DEF Check, gitVars, ghostVars
  <2>4. \A q \in Procs : Holding(q)' =>
           /\ Holding(q)
           /\ stage'[q] = stage[q] \/ (stage[q] = "check" /\ stage'[q] \in {"sign", "rollback"})
    BY <2>1, <2>2
  <2> QED
    BY <1>0, <2>3, <2>4, AsideKeepsMerging
<1>7. ASSUME NEW p \in Procs, Sign(p) PROVE Merging'
  <2> SUFFICES ASSUME robbed = {}, NEW q \in Procs, Holding(q)' PROVE Knows(q)'
    BY <1>0 DEF Merging
  <2>1. Holding(p) /\ Holding(q) /\ stage[p] = "sign"
    BY <1>7 DEF Sign, At, lockVars, Holding
  <2>2. p = q
    BY <2>1, OneHolder
  <2>3. CASE stage'[p] = "leave"
    BY <2>2, <2>3 DEF Knows, Window
  <2>4. CASE stage'[p] = "rollback" /\ chain' = chain
    <3>1. Knows(p) /\ Window(p)
      BY <2>1 DEF Merging, Window
    <3> QED
      BY <1>7, <2>2, <2>4, <3>1 DEF Sign, ghostVars, Knows, Merged, Window
  <2> QED
    BY <1>7, <2>3, <2>4 DEF Sign, Goto
<1>8. ASSUME NEW p \in Procs, Rollback(p) PROVE Merging'
  <2> SUFFICES ASSUME robbed = {}, NEW q \in Procs, Holding(q)' PROVE Knows(q)'
    BY <1>0 DEF Merging
  <2>1. Holding(p) /\ Holding(q)
    BY <1>8 DEF Rollback, At, lockVars, Holding
  <2>2. p = q
    BY <2>1, OneHolder
  <2>3. stage'[p] = "leave"
    BY <1>8 DEF Rollback, Goto
  <2> QED
    BY <2>2, <2>3 DEF Knows, Window
<1>9. ASSUME NEW p \in Procs, LeaveLock(p) \/ ExitProcess(p) \/ Killed(p) \/ TooSlow(p) PROVE Merging'
  <2>1. lpc' = lpc \/ \E s \in {"released", "done", "dead"} : lpc' = [lpc EXCEPT ![p] = s]
    BY <1>9 DEF LeaveLock, ExitProcess, Killed, TooSlow, Release, Exit, Die, Overrun
  <2>2. UNCHANGED <<stage, chain, feat, base, head, pre, moved>>
    BY <1>9 DEF LeaveLock, ExitProcess, Killed, TooSlow, gitVars, procVars, ghostVars
  <2>3. \A q \in Procs : Holding(q)' => Holding(q) /\ stage'[q] = stage[q]
    BY <2>1, <2>2 DEF Holding
  <2> QED
    BY <1>0, <2>2, <2>3, AsideKeepsMerging
<1>10. ASSUME NEW b \in Branches, FeatureCommit(b) PROVE Merging'
  <2> SUFFICES ASSUME robbed = {}, NEW q \in Procs, Holding(q)' PROVE Knows(q)'
    BY <1>0 DEF Merging
  <2>1. UNCHANGED <<stage, chain, base, head, pre, lpc>>
    BY <1>10 DEF FeatureCommit, procVars, lockVars
  <2>2. Knows(q) /\ moved \subseteq moved'
    BY <1>10, <2>1 DEF FeatureCommit, Merging, Holding
  <2>3. ASSUME stage[q] \in {"confirm", "merge"} PROVE Resolved(q)'
    <3>1. Resolved(q)
      BY <2>2, <2>3 DEF Knows
    <3>2. head[q] \in Nat /\ feat[BranchOf[q]] \in Nat /\ BranchOf[q] \in Branches
      BY BranchAssumption DEF Versions
    <3>3. CASE BranchOf[q] = b
      <4>1. q \in moved' /\ feat'[b] = feat[b] + 1
        BY <1>10, <2>3, <3>2, <3>3 DEF FeatureCommit
      <4>2. head[q] <= feat'[b]
        BY <3>1, <3>2, <3>3, <4>1 DEF Resolved
      <4> QED
        BY <2>1, <3>1, <3>3, <4>1, <4>2 DEF Resolved
    <3>4. CASE BranchOf[q] # b
      <4>1. feat'[BranchOf[q]] = feat[BranchOf[q]]
        BY <1>10, <3>2, <3>4 DEF FeatureCommit
      <4> QED
        BY <2>1, <2>2, <3>1, <4>1 DEF Resolved
    <3> QED
      BY <3>3, <3>4
  <2> QED
    BY <2>1, <2>2, <2>3 DEF Knows, Window, Merged, Holding
<1>11. ASSUME NEW b \in Branches, NEW r \in Reviewers, Review(b, r) PROVE Merging'
  <2>1. \A q \in Procs : Holding(q)' => Holding(q) /\ stage'[q] = stage[q]
    BY <1>11 DEF Review, Holding, lockVars, procVars
  <2> QED
    BY <1>0, <1>11, <2>1, AsideKeepsMerging DEF Review, gitVars, procVars, ghostVars
<1>12. CASE AbortMerge \/ UNCHANGED mergeVars
  <2>1. \A q \in Procs : Holding(q)' => Holding(q) /\ stage'[q] = stage[q]
    BY <1>12 DEF AbortMerge, mergeVars, Holding, lockVars, procVars
  <2> QED
    BY <1>0, <1>12, <2>1, AsideKeepsMerging DEF AbortMerge, mergeVars, gitVars, procVars, ghostVars
<1> QED
  BY <1>1, <1>2, <1>3, <1>4, <1>5, <1>6, <1>7, <1>8, <1>9, <1>10, <1>11,
     <1>12 DEF Next, Step

\* Who has left does not come back: the ghost that excuses its stamp is settled.
LEMMA LeaveIsFinal ==
    ASSUME TypeInv, [Next]_mergeVars, NEW q \in Procs, stage[q] = "leave"
    PROVE  stage'[q] = "leave" /\ (q \in moved' <=> q \in moved)
<1> USE DEF TypeInv, TypeOK
<1>1. ASSUME NEW p \in Procs, Preflight(p) \/ TakeLock(p) \/ Resolve(p) \/ Confirm(p) PROVE p # q
  BY <1>1 DEF Preflight, TakeLock, Resolve, Confirm, At
<1>2. ASSUME NEW p \in Procs, GitMerge(p) \/ Check(p) \/ Sign(p) \/ Rollback(p) PROVE p # q
  BY <1>2 DEF GitMerge, Check, Sign, Rollback, At
<1>3. ASSUME NEW p \in Procs, Preflight(p) \/ TakeLock(p) \/ Resolve(p) \/ Confirm(p)
      PROVE  stage'[q] = stage[q] /\ (q \in moved' <=> q \in moved)
  BY <1>1, <1>3 DEF Preflight, TakeLock, Resolve, Confirm, Goto, ghostVars
<1>4. ASSUME NEW p \in Procs, GitMerge(p) \/ Check(p) \/ Sign(p) \/ Rollback(p)
      PROVE  stage'[q] = stage[q] /\ (q \in moved' <=> q \in moved)
  BY <1>2, <1>4 DEF GitMerge, Check, Sign, Rollback, Goto, ghostVars
<1>5. ASSUME NEW p \in Procs, LeaveLock(p) \/ ExitProcess(p) \/ Killed(p) \/ TooSlow(p)
      PROVE  stage'[q] = stage[q] /\ (q \in moved' <=> q \in moved)
  BY <1>5 DEF LeaveLock, ExitProcess, Killed, TooSlow, procVars, ghostVars
<1>6. ASSUME NEW b \in Branches, FeatureCommit(b) \/ \E r \in Reviewers : Review(b, r)
      PROVE  stage'[q] = stage[q] /\ (q \in moved' <=> q \in moved)
  BY <1>6 DEF FeatureCommit, Review, procVars, ghostVars
<1>7. CASE AbortMerge \/ UNCHANGED mergeVars
  BY <1>7 DEF AbortMerge, mergeVars, procVars, ghostVars
<1> QED
  BY <1>3, <1>4, <1>5, <1>6, <1>7 DEF Next, Step

\* An unsigned merge that was left behind is recorded for good.
LEMMA OrphansStay == [Next]_mergeVars /\ ~orphaned' => ~orphaned
<1> SUFFICES ASSUME [Next]_mergeVars, ~orphaned' PROVE ~orphaned
  OBVIOUS
<1>1. ASSUME NEW p \in Procs, Step(p) \/ Killed(p) \/ TooSlow(p) PROVE ~orphaned
  BY <1>1 DEF Step, Preflight, TakeLock, Resolve, Confirm, GitMerge, Check, Sign, Rollback,
     LeaveLock, ExitProcess, Killed, TooSlow, ghostVars
<1>2. ASSUME NEW b \in Branches, FeatureCommit(b) \/ \E r \in Reviewers : Review(b, r) PROVE ~orphaned
  BY <1>2 DEF FeatureCommit, Review, ghostVars
<1>3. CASE AbortMerge \/ UNCHANGED mergeVars
  BY <1>3 DEF AbortMerge, mergeVars, ghostVars
<1> QED
  BY <1>1, <1>2, <1>3 DEF Next

\* In the window preMergeSha is the branch without its last commit, or the
\* branch itself.
LEMMA PreIsAPrefix ==
    ASSUME TypeInv, Merging, robbed = {}, NEW p \in Procs, Window(p)
    PROVE  /\ pre[p] \in Seq(Commits)
           /\ Len(chain) = Len(pre[p]) + 1 \/ (Required = {} /\ chain = pre[p])
           /\ Len(pre[p]) \in Nat /\ Len(chain) \in Nat
           /\ \A i \in 1..Len(pre[p]) :
                chain[i] = pre[p][i] /\ SubSeq(chain, 1, i - 1) = SubSeq(pre[p], 1, i - 1)
           /\ Len(chain) # Len(pre[p]) =>
                /\ ~Signed(chain[Len(chain)])
                /\ chain[Len(chain)].branch = BranchOf[p]
                /\ p \notin moved => chain[Len(chain)].second = head[p]
                /\ SubSeq(chain, 1, Len(chain) - 1) = pre[p]
           /\ base[p] = BaseOf(pre[p], BranchOf[p])
<1> DEFINE c == chain
           d == pre[p]
<1>1. c \in Seq(Commits) /\ d \in Seq(Commits) /\ Len(c) \in Nat /\ Len(d) \in Nat
  BY DEF TypeInv, TypeOK
<1>2. Merged(p) /\ base[p] = BaseOf(d, BranchOf[p])
  BY DEF Merging, Knows, Window
<1>3. CASE c = d /\ Required = {}
  BY <1>1, <1>2, <1>3
<1>4. ASSUME NEW m \in Commits, c = Append(d, m), m.branch = BranchOf[p], m.stamp = NoStamp,
             p \notin moved => m.second = head[p]
      PROVE  /\ Len(c) = Len(d) + 1 /\ c[Len(c)] = m
             /\ \A i \in 1..Len(d) : c[i] = d[i] /\ SubSeq(c, 1, i - 1) = SubSeq(d, 1, i - 1)
             /\ SubSeq(c, 1, Len(c) - 1) = d
  <2> HIDE DEF c, d
  <2>1. /\ Len(c) = Len(d) + 1 /\ c[Len(d) + 1] = m
        /\ \A i \in 1..Len(d) : c[i] = d[i]
        /\ \A i \in 1..Len(c) : SubSeq(c, 1, i - 1) = SubSeq(d, 1, i - 1)
    BY <1>1, <1>4, Appending
  <2>2. SubSeq(c, 1, Len(c) - 1) = SubSeq(d, 1, Len(d))
    BY <2>1, <1>1
  <2>3. SubSeq(d, 1, Len(d)) = d
    BY <1>1, SubSeqFull
  <2> QED
    BY <2>1, <2>2, <2>3, <1>1
<1> QED
  BY <1>1, <1>2, <1>3, <1>4 DEF Merged, Signed

\* Whoever has signed a merge is on his way out.
LEMMA SignersNext ==
    ASSUME TypeInv, LockInv, Merging, SignersLeft, [Next]_mergeVars
    PROVE  SignersLeft'
<1> SUFFICES ASSUME robbed = {}, NEW i \in 1..Len(chain'), Signed(chain'[i])
             PROVE  chain'[i].stamp.by \in Procs /\ stage'[chain'[i].stamp.by] = "leave"
  BY MergeKeepsTheLock, RobbedGrows DEF SignersLeft, Signed
<1>1. ASSUME i \in 1..Len(chain), chain'[i] = chain[i]
      PROVE  chain'[i].stamp.by \in Procs /\ stage'[chain'[i].stamp.by] = "leave"
  BY <1>1, LeaveIsFinal DEF SignersLeft
<1>2. CASE Rests
  BY <1>1, <1>2 DEF Rests
<1>3. ASSUME NEW p \in Procs, Appends(p)
      PROVE  chain'[i].stamp.by \in Procs /\ stage'[chain'[i].stamp.by] = "leave"
  <2>1. /\ Len(chain') = Len(chain) + 1
        /\ chain'[Len(chain) + 1] = MergeCommit(chain, BranchOf[p])
        /\ \A j \in 1..Len(chain) : chain'[j] = chain[j]
    BY <1>3, Appended DEF Appends, TypeInv
  <2>2. i # Len(chain) + 1
    BY <2>1 DEF Signed, MergeCommit
  <2>3. Len(chain) \in Nat
    BY DEF TypeInv, TypeOK
  <2>4. i \in 1..Len(chain)
    BY <2>1, <2>2, <2>3
  <2> QED
    BY <1>1, <2>1, <2>4
<1>4. ASSUME NEW p \in Procs, Amends(p)
      PROVE  chain'[i].stamp.by \in Procs /\ stage'[chain'[i].stamp.by] = "leave"
  <2>1. /\ Len(chain') = Len(chain) /\ Len(chain) \in 1..Len(chain)
        /\ chain'[Len(chain)].stamp = Trailers(p)
        /\ \A j \in 1..(Len(chain) - 1) : chain'[j] = chain[j]
    BY <1>4, Amended DEF Amends, TypeInv
  <2>2. CASE i = Len(chain)
    BY <1>4, <2>1, <2>2 DEF Trailers, Amends, TypeInv, TypeOK
  <2>3. CASE i # Len(chain)
    <3>1. i \in 1..(Len(chain) - 1) /\ i \in 1..Len(chain)
      BY <2>1, <2>3
    <3> QED
      BY <1>1, <2>1, <3>1
  <2> QED
    BY <2>2, <2>3
<1>5. ASSUME NEW p \in Procs, Undoes(p)
      PROVE  chain'[i].stamp.by \in Procs /\ stage'[chain'[i].stamp.by] = "leave"
  <2>1. Window(p)
    BY <1>5 DEF Undoes, Window
  <2>2. i \in 1..Len(chain) /\ chain'[i] = chain[i]
    BY <1>5, <2>1, PreIsAPrefix DEF Undoes
  <2> QED
    BY <1>1, <2>2
<1> QED
  BY <1>2, <1>3, <1>4, <1>5, HowTheBranchMoves

\* What a stamp describes depends on the branch up to its commit only.
LEMMA DescribesTheSame ==
    ASSUME NEW c, NEW d, NEW i, d[i] = c[i], SubSeq(d, 1, i - 1) = SubSeq(c, 1, i - 1), Describes(c, i)
    PROVE  Describes(d, i)
  BY DEF Describes

\* A stamp is written by the holder, who has read what it describes.
LEMMA DescribedNext ==
    ASSUME TypeInv, LockInv, Merging, SignersLeft, Described, [Next]_mergeVars
    PROVE  Described'
<1> SUFFICES ASSUME Required # {}, robbed = {}, NEW i \in 2..Len(chain'),
                    Signed(chain'[i]), chain'[i].stamp.by \notin moved'
             PROVE  Describes(chain', i)
  BY MergeKeepsTheLock, RobbedGrows DEF Described, StampDescribesMerge, Signed, Describes
<1>0. Len(chain) \in Nat
  BY DEF TypeInv, TypeOK
<1>1. ASSUME i \in 2..Len(chain), chain'[i] = chain[i],
             SubSeq(chain', 1, i - 1) = SubSeq(chain, 1, i - 1)
      PROVE  Describes(chain', i)
  <2>1. Signed(chain[i]) /\ i \in 1..Len(chain)
    BY <1>0, <1>1
  <2>2. chain[i].stamp.by \in Procs /\ stage[chain[i].stamp.by] = "leave"
    BY <2>1 DEF SignersLeft
  <2>3. chain[i].stamp.by \notin moved
    BY <1>1, <2>2, LeaveIsFinal
  <2>4. Describes(chain, i)
    BY <1>1, <2>1, <2>3 DEF Described, StampDescribesMerge
  <2> QED
    BY <1>1, <2>4, DescribesTheSame
<1>2. CASE Rests
  BY <1>1, <1>2 DEF Rests
<1>3. ASSUME NEW p \in Procs, Appends(p) PROVE Describes(chain', i)
  <2>1. /\ Len(chain') = Len(chain) + 1
        /\ chain'[Len(chain) + 1] = MergeCommit(chain, BranchOf[p])
        /\ \A j \in 1..Len(chain) : chain'[j] = chain[j]
        /\ \A j \in 1..Len(chain') : SubSeq(chain', 1, j - 1) = SubSeq(chain, 1, j - 1)
    BY <1>3, Appended DEF Appends, TypeInv
  <2>2. i # Len(chain) + 1
    BY <2>1 DEF Signed, MergeCommit
  <2>3. i \in 2..Len(chain) /\ i \in 1..Len(chain) /\ i \in 1..Len(chain')
    BY <1>0, <2>1, <2>2
  <2> QED
    BY <1>1, <2>1, <2>3
<1>4. ASSUME NEW p \in Procs, Amends(p) PROVE Describes(chain', i)
  <2>1. /\ Len(chain') = Len(chain) /\ Len(chain) \in 1..Len(chain)
        /\ chain'[Len(chain)].stamp = Trailers(p)
        /\ chain'[Len(chain)].branch = chain[Len(chain)].branch
        /\ chain'[Len(chain)].second = chain[Len(chain)].second
        /\ \A j \in 1..(Len(chain) - 1) : chain'[j] = chain[j]
        /\ \A j \in 1..Len(chain') : SubSeq(chain', 1, j - 1) = SubSeq(chain, 1, j - 1)
    BY <1>4, Amended DEF Amends, TypeInv
  <2>2. CASE i = Len(chain)
    <3>1. Window(p)
      BY <1>4 DEF Amends, Window
    <3>2. p \notin moved
      <4>1. Trailers(p).by = p
        BY DEF Trailers
      <4>2. chain'[i].stamp.by = p
        BY <2>1, <2>2, <4>1
      <4>3. moved' = moved
        BY <1>4 DEF Amends
      <4> QED
        BY <4>2, <4>3
    <3>3. Len(chain) = Len(pre[p]) + 1 /\ Len(pre[p]) \in Nat /\ Len(chain) # Len(pre[p])
      BY <3>1, PreIsAPrefix
    <3>4. /\ chain[i].branch = BranchOf[p] /\ chain[i].second = head[p]
          /\ SubSeq(chain, 1, i - 1) = pre[p]
          /\ base[p] = BaseOf(pre[p], BranchOf[p])
      BY <2>2, <3>1, <3>2, <3>3, PreIsAPrefix
    <3>5. SubSeq(chain', 1, i - 1) = pre[p]
      BY <2>1, <2>2, <3>4
    <3>6. /\ Trailers(p).branch = BranchOf[p] /\ Trailers(p).head = head[p]
          /\ Trailers(p).base = base[p]
      BY DEF Trailers
    <3>7. /\ chain'[i].branch = BranchOf[p] /\ chain'[i].second = head[p]
          /\ chain'[i].stamp = Trailers(p)
      BY <2>1, <2>2, <3>4
    <3> QED
      BY <3>4, <3>5, <3>6, <3>7 DEF Describes
  <2>3. CASE i # Len(chain)
    <3>1. i \in 1..(Len(chain) - 1) /\ i \in 2..Len(chain) /\ i \in 1..Len(chain')
      BY <1>0, <2>1, <2>3
    <3> QED
      BY <1>1, <2>1, <3>1
  <2> QED
    BY <2>2, <2>3
<1>5. ASSUME NEW p \in Procs, Undoes(p) PROVE Describes(chain', i)
  <2>1. Window(p) /\ chain' = pre[p]
    BY <1>5 DEF Undoes, Window
  <2>2. /\ Len(pre[p]) \in Nat
        /\ Len(chain) = Len(pre[p]) + 1 \/ chain = pre[p]
        /\ \A j \in 1..Len(pre[p]) :
             chain[j] = pre[p][j] /\ SubSeq(chain, 1, j - 1) = SubSeq(pre[p], 1, j - 1)
    BY <2>1, PreIsAPrefix
  <2>3. i \in 1..Len(pre[p]) /\ i \in 2..Len(chain)
    BY <2>1, <2>2
  <2> QED
    BY <1>1, <2>1, <2>2, <2>3
<1> QED
  BY <1>2, <1>3, <1>4, <1>5, HowTheBranchMoves

\* In the window p is the one holder, and everything below the tip was there
\* before its merge.
LEMMA SweptNext ==
    ASSUME TypeInv, LockInv, Merging, Swept, [Next]_mergeVars
    PROVE  Swept'
<1> DEFINE Fine(i) == Signed(chain'[i]) \/ \E p \in Procs : Window(p)' /\ i > Len(pre'[p])
<1> SUFFICES ASSUME ~orphaned', robbed = {}, NEW i \in 2..Len(chain') PROVE Fine(i)
  BY MergeKeepsTheLock, RobbedGrows DEF Swept, Signed
<1>0. Len(chain) \in Nat /\ ~orphaned
  BY OrphansStay DEF TypeInv, TypeOK
<1>1. CASE Rests
  <2>1. i \in 2..Len(chain)
    BY <1>1 DEF Rests
  <2>2. CASE Signed(chain[i])
    BY <1>1, <2>2 DEF Rests
  <2>3. ASSUME NEW p \in Procs, Window(p), i > Len(pre[p]) PROVE Fine(i)
    <3>1. Window(p)' /\ pre'[p] = pre[p]
      BY <1>1, <2>3 DEF Rests
    <3> QED
      BY <2>3, <3>1
  <2> QED
    BY <1>0, <2>1, <2>2, <2>3 DEF Swept
<1>2. ASSUME NEW p \in Procs, Appends(p) PROVE Fine(i)
  <2>1. /\ Len(chain') = Len(chain) + 1
        /\ \A j \in 1..Len(chain) : chain'[j] = chain[j]
    BY <1>2, Appended DEF Appends, TypeInv
  <2>2. CASE i = Len(chain) + 1
    <3>1. Holding(p) /\ stage[p] = "merge" /\ lpc' = lpc /\ pre' = pre /\ stage'[p] = "check"
      BY <1>2 DEF Appends, TypeInv, TypeOK
    <3>2. pre[p] = chain
      BY <3>1 DEF Merging, Knows
    <3>3. Window(p)' /\ i > Len(pre'[p])
      BY <1>0, <2>2, <3>1, <3>2 DEF Window, Holding
    <3> QED
      BY <3>3
  <2>3. CASE i # Len(chain) + 1
    <3>1. i \in 1..Len(chain) /\ i \in 2..Len(chain)
      BY <1>0, <2>1, <2>3
    <3>2. ~\E q \in Procs : Window(q)
      BY <1>2, OneHolder DEF Appends, Window
    <3>3. Signed(chain[i])
      BY <1>0, <3>1, <3>2 DEF Swept
    <3> QED
      BY <2>1, <3>1, <3>3
  <2> QED
    BY <2>2, <2>3
<1>3. ASSUME NEW p \in Procs, Amends(p) PROVE Fine(i)
  <2>1. /\ Len(chain') = Len(chain) /\ Len(chain) \in 1..Len(chain)
        /\ chain'[Len(chain)].stamp = Trailers(p)
        /\ \A j \in 1..(Len(chain) - 1) : chain'[j] = chain[j]
    BY <1>3, Amended DEF Amends, TypeInv
  <2>2. CASE i = Len(chain)
    BY <2>1, <2>2, NoProcAssumption DEF Signed, Trailers, NoStamp
  <2>3. CASE i # Len(chain)
    <3>1. i \in 1..(Len(chain) - 1) /\ i \in 2..Len(chain)
      BY <1>0, <2>1, <2>3
    <3>2. Window(p) /\ \A q \in Procs : Window(q) => q = p
      BY <1>3, OneHolder DEF Amends, Window
    <3>3. Len(pre[p]) \in Nat /\ (Len(chain) = Len(pre[p]) + 1 \/ chain = pre[p])
      BY <3>2, PreIsAPrefix
    <3>4. ~(i > Len(pre[p]))
      BY <1>0, <3>1, <3>3
    <3>5. Signed(chain[i])
      BY <1>0, <3>1, <3>2, <3>4 DEF Swept
    <3> QED
      BY <2>1, <3>1, <3>5
  <2> QED
    BY <2>2, <2>3
<1>4. ASSUME NEW p \in Procs, Undoes(p) PROVE Fine(i)
  <2>1. Window(p) /\ chain' = pre[p] /\ \A q \in Procs : Window(q) => q = p
    BY <1>4, OneHolder DEF Undoes, Window
  <2>2. /\ Len(pre[p]) \in Nat
        /\ Len(chain) = Len(pre[p]) + 1 \/ chain = pre[p]
        /\ \A j \in 1..Len(pre[p]) : chain[j] = pre[p][j]
    BY <2>1, PreIsAPrefix
  <2>3. i \in 1..Len(pre[p]) /\ i \in 2..Len(chain) /\ ~(i > Len(pre[p]))
    BY <2>1, <2>2
  <2>4. Signed(chain[i])
    BY <1>0, <2>1, <2>3 DEF Swept
  <2> QED
    BY <2>1, <2>2, <2>3, <2>4
<1> QED
  BY <1>1, <1>2, <1>3, <1>4, HowTheBranchMoves

\* All the parts hold of the first branch.
LEMMA MergeInitInv == Init => MergeInv
<1> SUFFICES ASSUME Init PROVE MergeInv
  OBVIOUS
<1>1. chain = <<Root>> /\ Len(chain) = 1 /\ ~Signed(chain[1])
  BY DEF Init, Root, Signed
<1>2. SignersLeft /\ Described /\ Swept
  BY <1>1 DEF SignersLeft, Described, StampDescribesMerge, Swept
<1>3. Locked
  BY DEF Init, LockInit, Locked, Holding
<1> QED
  BY <1>2, <1>3, TypeInit, LockInitInv, GatedInit, MergingInit DEF Init, MergeInv

\* Every step keeps all the parts.
LEMMA MergeNextInv == MergeInv /\ [Next]_mergeVars => MergeInv'
<1> SUFFICES ASSUME MergeInv, [Next]_mergeVars PROVE MergeInv'
  OBVIOUS
<1>1. LockInv' /\ TypeInv'
  BY MergeKeepsTheLock, LockNextInv, TypeNext DEF MergeInv
<1>2. Locked' /\ Gated' /\ Merging'
  BY LockedNext, GatedNext, MergingNext DEF MergeInv
<1>3. SignersLeft' /\ Described' /\ Swept'
  BY SignersNext, DescribedNext, SweptNext DEF MergeInv
<1> QED
  BY <1>1, <1>2, <1>3 DEF MergeInv

\* The inductive invariant holds throughout.
LEMMA MergeInvariant == Spec => []MergeInv
<1> QED
  BY MergeInitInv, MergeNextInv, PTL DEF Spec

\* mergeLock.ts:6-16: as long as no lock was lost and the branch did not
\* advance under it, no merge carries another one's trailers or a stale base,
\* for any number of invocations and branches.  The rule must require some
\* reviewer: without one `git merge` may find nothing to merge, and the amend
\* then goes to whatever commit is the tip (merge.ts:458).
THEOREM StampsDescribe ==
    ASSUME Required # {}
    PROVE  Spec => []StampDescribesMerge
<1>1. MergeInv => StampDescribesMerge
  BY DEF MergeInv, Described
<1> QED
  BY <1>1, MergeInvariant, PTL

\* merge.ts:319-323: with no invocation between its merge and its amend, no
\* unsigned merge is left, unless one was killed there, a rollback failed or a
\* lock was lost.
THEOREM NothingUnsigned == Spec => []NothingUnsignedIsLeft
<1>1. MergeInv => NothingUnsignedIsLeft
  BY DEF MergeInv, Swept, NothingUnsignedIsLeft, Quiet, Window, Holding
<1> QED
  BY <1>1, MergeInvariant, PTL

\* A stamped merge is not undone by another's rollback nor amended again.
THEOREM StampedMergesKept ==
    ASSUME Required # {}
    PROVE  Spec => StampedMergesAreKept
<1>1. ASSUME MergeInv, [Next]_mergeVars, robbed' = {}, NEW i \in 1..Len(chain), Signed(chain[i])
      PROVE  i <= Len(chain') /\ chain'[i] = chain[i]
  <2> USE DEF MergeInv
  <2>0. Len(chain) \in Nat /\ robbed = {}
    BY <1>1, MergeKeepsTheLock, RobbedGrows DEF TypeInv, TypeOK
  <2>1. CASE Rests
    BY <2>0, <2>1 DEF Rests
  <2>2. ASSUME NEW p \in Procs, Appends(p) PROVE i <= Len(chain') /\ chain'[i] = chain[i]
    <3>1. /\ Len(chain') = Len(chain) + 1
          /\ \A j \in 1..Len(chain) : chain'[j] = chain[j]
      BY <1>1, <2>2, Appended DEF Appends, TypeInv
    <3> QED
      BY <2>0, <3>1
  <2>3. ASSUME NEW p \in Procs, Amends(p) \/ Undoes(p) PROVE i <= Len(chain') /\ chain'[i] = chain[i]
    <3>1. Window(p)
      BY <2>3 DEF Amends, Undoes, Window
    <3>2. /\ Len(pre[p]) \in Nat /\ Len(chain) = Len(pre[p]) + 1
          /\ \A j \in 1..Len(pre[p]) : chain[j] = pre[p][j]
          /\ ~Signed(chain[Len(chain)])
      BY <1>1, <2>0, <3>1, PreIsAPrefix
    <3>3. i \in 1..Len(pre[p]) /\ i \in 1..(Len(chain) - 1)
      BY <1>1, <2>0, <3>2
    <3>4. CASE Amends(p)
      <4>1. /\ Len(chain') = Len(chain)
            /\ \A j \in 1..(Len(chain) - 1) : chain'[j] = chain[j]
        BY <1>1, <3>4, Amended DEF Amends, TypeInv
      <4> QED
        BY <2>0, <3>3, <4>1
    <3>5. CASE Undoes(p)
      <4>1. chain' = pre[p]
        BY <3>5 DEF Undoes
      <4> QED
        BY <3>2, <3>3, <4>1
    <3> QED
      BY <2>3, <3>4, <3>5
  <2> QED
    BY <1>1, <2>1, <2>2, <2>3, HowTheBranchMoves
<1>2. MergeInv /\ [Next]_mergeVars =>
        [robbed' = {} => \A i \in 1..Len(chain) :
            Signed(chain[i]) => i <= Len(chain') /\ chain'[i] = chain[i]]_mergeVars
  BY <1>1
<1> QED
  BY <1>2, MergeInvariant, PTL DEF Spec, StampedMergesAreKept
=============================================================================
