---------------------------- MODULE ReviewProofs ----------------------------
(***************************************************************************)
(* The rounds of a review add up to one reading of the whole diff, and they *)
(* are narrowed only to the branch's own work, for every commit graph and   *)
(* any number of runs, reviewers, prunes and rows.                          *)
(***************************************************************************)
EXTENDS Review, TLAPS

\* A verdict, with the prose kept beside it, is what one reading of the whole
\* diff between the base and the head gives.
Honest(d) ==
    /\ d.prose = Bad \cap Introduced(d.base, d.head)
    /\ d.verdict = "approved" <=> d.prose = {}

\* The round started at the base, or at the head of an ancestor, or at one that
\* its branch was at; and it names a branch that was at its head.
OwnRound(d) ==
    /\ d.from # NoCommit =>
          \/ IsAncestor(d.from, d.head)
          \/ \E b \in Branches : {d.from, d.head} \subseteq been[b]
    /\ d.branch # NoBranch => d.head \in been[d.branch]

HonestInv ==
    /\ \A x \in rows : Honest(x.review)
    /\ \A s \in Sessions : \A d \in drafts[s] : Honest(d)

OwnInv ==
    /\ \A b \in Branches : tip[b] \in been[b]
    /\ \A x \in rows : OwnRound(x.review)
    /\ \A s \in Sessions : \A d \in drafts[s] : OwnRound(d)

\* Every verdict, with its prose, reaches the next round.
FullMemory == OneShot = {} /\ KeepsProse = {TRUE} /\ ~ProseTtl

-----------------------------------------------------------------------------
(* What a run of stamp review produces *)

\* What a diff introduces are contents of files.
LEMMA IntroducedType ==
    ASSUME NEW old \in Commits, NEW new \in Commits
    PROVE  Introduced(old, new) \subseteq Issues
  BY GraphAssumption DEF Introduced, Changed, Issues

\* A diff with the same bytes introduces the same.
LEMMA DiffIntroduced ==
    ASSUME NEW p, NEW q, NEW h, Diff(p, h) = Diff(q, h)
    PROVE  Introduced(p, h) = Introduced(q, h)
<1>1. ASSUME NEW u, NEW v, Diff(u, h) = Diff(v, h), NEW f \in Changed(u, h)
      PROVE  f \in Changed(v, h)
  <2>1. <<f, Tree[u][f], Tree[h][f]>> \in Diff(v, h)
    BY <1>1 DEF Diff
  <2>. QED
    BY <2>1 DEF Diff
<1>2. Changed(p, h) = Changed(q, h)
  BY <1>1
<1>. QED
  BY <1>2 DEF Introduced

\* The head, and the base, of a run are commits.
LEMMA ScopeType ==
    ASSUME TypeOK, NEW branch \in Branches \cup {NoBranch}, NEW head \in HeadsOf(branch),
           NEW base \in MergeBase(head)
    PROVE  head \in Commits /\ base \in Commits
<1>1. base \in Commits
  BY DEF MergeBase, TypeOK
<1>2. head \in Commits
  BY DEF HeadsOf, Made, TypeOK
<1>. QED
  BY <1>1, <1>2

\* What a run judges has the type of a verdict.
LEMMA JudgedType ==
    ASSUME TypeOK, NEW r \in Reviewers, NEW base \in Commits, NEW head \in Commits,
           NEW branch \in Branches \cup {NoBranch}, NEW backend \in Backends,
           NEW prior \in SUBSET rows, NEW narrow \in BOOLEAN, NEW keep \in BOOLEAN
    PROVE  Judged(r, base, head, branch, backend, prior, narrow, keep) \in Drafts
<1>. DEFINE from == IF narrow THEN {x.review.head : x \in {y \in prior : Narrows(y, base, head)}}
                              ELSE {}
            shown == UNION {Introduced(c, head) : c \in IF from = {} THEN {base} ELSE from}
            told == IF backend \in OneShot THEN {} ELSE UNION {x.review.prose : x \in prior}
            found == (shown \cap Bad) \cup {i \in told : Tree[head][i[1]] = i[2]}
<1>0. \A x \in prior : x.review \in Drafts
  BY DEF TypeOK, Rows
<1>1. from \subseteq Commits
  BY <1>0 DEF Drafts
<1>2. found \subseteq Issues
  <2>1. told \subseteq Issues
    BY <1>0 DEF Drafts
  <2>2. shown \cap Bad \subseteq Issues
    BY ReviewersAssumption DEF Issues
  <2>. QED
    BY <2>1, <2>2
<1>3. (IF from = {} THEN NoCommit ELSE CHOOSE c \in from : TRUE) \in Commits \cup {NoCommit}
  BY <1>1
<1>. HIDE DEF from, shown, told, found
<1>4. Judged(r, base, head, branch, backend, prior, narrow, keep) =
        [reviewer |-> r, base |-> base, head |-> head, branch |-> branch,
         backend |-> backend,
         verdict |-> IF found = {} THEN "approved" ELSE "changes_requested",
         prose |-> IF keep THEN found ELSE {},
         from |-> IF from = {} THEN NoCommit ELSE CHOOSE c \in from : TRUE]
  BY DEF Judged, from, shown, told, found
<1>. QED
  BY <1>2, <1>3, <1>4 DEF Drafts

\* A replayed verdict has the type of one.
LEMMA ReplayedType ==
    ASSUME TypeOK, NEW x \in rows, NEW base \in Commits, NEW keep \in BOOLEAN
    PROVE  /\ Replayed(x, base, keep) \in Drafts
           /\ Replayed(x, base, keep).head = x.review.head
           /\ Replayed(x, base, keep).base = base
           /\ Replayed(x, base, keep).branch = x.review.branch
           /\ Replayed(x, base, keep).from = x.review.from
           /\ Replayed(x, base, keep).verdict = x.review.verdict
           /\ Replayed(x, base, keep).prose = IF keep THEN x.review.prose ELSE {}
<1>1. x.review \in Drafts
  BY DEF TypeOK, Rows
<1>. QED
  BY <1>1 DEF Replayed, Drafts

\* The draft of a run: replayed from the cache, or judged by what it is shown.
IsDraft(d, base, head, branch) ==
    \E r \in Reviewers, backend \in Backends, keep \in KeepsProse :
        \/ \E x \in Cached(r, base, head, branch, backend) : d = Replayed(x, base, keep)
        \/ \E lost \in {NoCommit} \cup {x.review.head : x \in rows}, narrow \in BOOLEAN :
              d = Judged(r, base, head, branch, backend,
                         Prior(r, base, head, branch, lost), narrow, keep)

\* Every draft after StartReview is one.
LEMMA DraftOfRun ==
    ASSUME NEW s \in Sessions, StartReview(s), TypeOK
    PROVE  \E branch \in Branches \cup {NoBranch} : \E head \in HeadsOf(branch) :
           \E base \in MergeBase(head) :
              \A d \in drafts'[s] : IsDraft(d, base, head, branch)
<1>1. PICK branch, head, base :
         /\ branch \in Branches \cup {NoBranch} /\ head \in HeadsOf(branch)
         /\ base \in MergeBase(head) /\ RunReview(s, base, head, branch)
  BY DEF StartReview
<1>2. PICK chosen \in {Reviewers} \cup {{r} : r \in Reviewers}, backend \in Backends,
           lost \in {NoCommit} \cup {x.review.head : x \in rows},
           cache \in BOOLEAN, narrow \in BOOLEAN, keep \in KeepsProse :
        drafts' = [drafts EXCEPT ![s] =
                 Verdicts(chosen, base, head, branch, backend, lost, cache, narrow, keep)]
  BY <1>1, ZenonT(40) DEF RunReview
<1>4. chosen \subseteq Reviewers
  OBVIOUS
<1>5. drafts'[s] = Verdicts(chosen, base, head, branch, backend, lost, cache, narrow, keep)
  BY <1>2 DEF TypeOK
<1>6. ASSUME NEW d \in drafts'[s]  PROVE IsDraft(d, base, head, branch)
  <2>1. \/ \E r \in chosen : \E x \in Cached(r, base, head, branch, backend) : d = Replayed(x, base, keep)
        \/ \E r \in chosen : d = Judged(r, base, head, branch, backend,
                                       Prior(r, base, head, branch, lost), narrow, keep)
    BY <1>5 DEF Verdicts
  <2>. QED
    BY <1>4, <2>1 DEF IsDraft
<1>. QED
  BY <1>1, <1>6

\* Reviews read the table and change the drafts of their own run alone.
LEMMA StartFrame ==
    ASSUME NEW s \in Sessions, StartReview(s), TypeOK
    PROVE  /\ UNCHANGED <<tip, been, main, rows, lastId, mark, pruning>>
           /\ DOMAIN drafts' = Sessions
           /\ \A t \in Sessions \ {s} : drafts'[t] = drafts[t]
           /\ drafts' = [drafts EXCEPT ![s] = drafts'[s]]
  BY DEF StartReview, RunReview, TypeOK

\* What the cache, and the choice of a previous round, find are rows.
LEMMA FoundRows ==
    ASSUME NEW r, NEW base, NEW head, NEW branch, NEW backend, NEW lost
    PROVE  /\ Cached(r, base, head, branch, backend) \subseteq rows
           /\ Prior(r, base, head, branch, lost) \subseteq rows
           /\ \A x \in Cached(r, base, head, branch, backend) :
                x.review.head = head /\ Diff(x.review.base, head) = Diff(base, head)
           /\ \A x \in Prior(r, base, head, branch, lost) :
                /\ x.review.base = base
                /\ IsAncestor(x.review.head, head) \/ Amends(x, head, branch)
           /\ \A x, y \in Prior(r, base, head, branch, lost) : x.id <= y.id /\ y.id <= x.id
  BY DEF Cached, Prior, Candidates, Newest

-----------------------------------------------------------------------------
(* Types *)

\* The types hold at first.
LEMMA InitTypeOK == Init => TypeOK
<1>. SUFFICES ASSUME Init PROVE TypeOK
  OBVIOUS
<1>1. tip \in [Branches -> Commits] /\ been \in [Branches -> SUBSET Commits]
  BY GraphAssumption DEF Init
<1>2. drafts \in [Sessions -> SUBSET Drafts] /\ main \subseteq Commits
  BY GraphAssumption DEF Init
<1>3. 0 \in 0..MaxRows
  BY ReviewersAssumption
<1>4. rows \subseteq Rows /\ lastId = 0 /\ mark = 0 /\ pruning = FALSE /\ rows = {}
  BY DEF Init
<1>. QED
  BY <1>1, <1>2, <1>3, <1>4 DEF TypeOK

\* A run drafts verdicts.
LEMMA StartTypeOK ==
    ASSUME TypeOK, NEW s \in Sessions, StartReview(s)
    PROVE  TypeOK'
<1>1. PICK branch, head, base :
         /\ branch \in Branches \cup {NoBranch} /\ head \in HeadsOf(branch)
         /\ base \in MergeBase(head)
         /\ \A d \in drafts'[s] : IsDraft(d, base, head, branch)
  BY DraftOfRun
<1>3. head \in Commits /\ base \in Commits
  BY <1>1, ScopeType
<1>4. ASSUME NEW d \in drafts'[s]  PROVE d \in Drafts
  <2>1. IsDraft(d, base, head, branch)
    BY <1>1
  <2>2. PICK r \in Reviewers, backend \in Backends, keep \in KeepsProse :
        \/ \E x \in Cached(r, base, head, branch, backend) : d = Replayed(x, base, keep)
        \/ \E lost \in {NoCommit} \cup {x.review.head : x \in rows}, narrow \in BOOLEAN :
              d = Judged(r, base, head, branch, backend,
                         Prior(r, base, head, branch, lost), narrow, keep)
    BY <2>1 DEF IsDraft
  <2>3. keep \in BOOLEAN
    BY ReviewersAssumption
  <2>4. ASSUME NEW x \in Cached(r, base, head, branch, backend), d = Replayed(x, base, keep)
        PROVE  d \in Drafts
    BY <1>3, <2>3, <2>4, FoundRows, ReplayedType
  <2>5. ASSUME NEW lost, NEW narrow \in BOOLEAN,
               d = Judged(r, base, head, branch, backend,
                          Prior(r, base, head, branch, lost), narrow, keep)
        PROVE  d \in Drafts
    <3>1. Prior(r, base, head, branch, lost) \in SUBSET rows
      BY FoundRows
    <3>. QED
      BY <1>1, <1>3, <2>3, <2>5, <3>1, JudgedType
  <2>. QED
    BY <2>2, <2>4, <2>5
<1>5. drafts' \in [Sessions -> SUBSET Drafts]
  BY <1>4, StartFrame DEF TypeOK
<1>. QED
  BY <1>5, StartFrame DEF TypeOK

\* A row takes the next id.
LEMMA RecordTypeOK ==
    ASSUME TypeOK, NEW s \in Sessions, Record(s)
    PROVE  TypeOK'
<1>1. PICK d \in drafts[s] :
        /\ lastId < MaxRows
        /\ rows' = rows \cup {[id |-> lastId + 1, review |-> d]}
        /\ lastId' = lastId + 1
        /\ drafts' = [drafts EXCEPT ![s] = @ \ {d}]
        /\ UNCHANGED <<tip, been, main, mark, pruning>>
  BY DEF Record
<1>. DEFINE row == [id |-> lastId + 1, review |-> d]
<1>2. lastId \in Nat /\ lastId + 1 \in 1..MaxRows
  BY <1>1, ReviewersAssumption DEF TypeOK
<1>3. row \in Rows /\ row.id = lastId + 1
  BY <1>2 DEF TypeOK, Rows
<1>4. lastId' \in 0..MaxRows /\ drafts' \in [Sessions -> SUBSET Drafts]
  BY <1>1, <1>2, ReviewersAssumption DEF TypeOK
<1>5. \A x \in rows : x.id <= lastId /\ x.id \in Nat
  BY DEF TypeOK, Rows
<1>. HIDE DEF row
<1>6. rows' = rows \cup {row}
  BY <1>1 DEF row
<1>7. \A x, y \in rows' : x.id = y.id => x = y
  BY <1>2, <1>3, <1>5, <1>6 DEF TypeOK
<1>8. \A x \in rows' : x.id <= lastId'
  BY <1>1, <1>2, <1>3, <1>5, <1>6
<1>9. rows' \subseteq Rows
  BY <1>3, <1>6 DEF TypeOK
<1>. QED
  BY <1>1, <1>4, <1>7, <1>8, <1>9 DEF TypeOK

\* prune keeps some rows, perhaps without their prose.
LEMMA PruneRows ==
    ASSUME TypeOK, PruneDelete
    PROVE  \A y \in rows' : \E x \in rows :
              /\ y \in Rows /\ y.id = x.id
              /\ y = x \/ (ProseTtl /\ y = [x EXCEPT !.review.prose = {}])
<1>1. PICK cutoff \in {0} \cup {x.id : x \in rows},
           old \in IF ProseTtl THEN {0} \cup {x.id : x \in rows} ELSE {0} :
        rows' = {IF x.id <= old THEN [x EXCEPT !.review.prose = {}] ELSE x :
                    x \in {y \in rows : y.id > cutoff}}
  BY DEF PruneDelete
<1>2. ASSUME NEW x \in rows
      PROVE  /\ x \in Rows /\ x.id \in 1..MaxRows
             /\ [x EXCEPT !.review.prose = {}] \in Rows
             /\ [x EXCEPT !.review.prose = {}].id = x.id
  BY DEF TypeOK, Rows, Drafts
<1>3. ASSUME NEW x \in rows, x.id <= old  PROVE ProseTtl
  <2>1. x.id \in Nat \ {0}
    <3>1. x.id \in 1..MaxRows
      BY DEF TypeOK, Rows
    <3>. QED
      BY <3>1, ReviewersAssumption
  <2>2. ~ProseTtl => old = 0
    OBVIOUS
  <2>. QED
    BY <1>3, <2>1, <2>2
<1>4. ASSUME NEW y \in rows'
      PROVE  \E x \in rows :
                 \/ y = x
                 \/ x.id <= old /\ y = [x EXCEPT !.review.prose = {}]
  BY <1>1
<1>. QED
  <2>. SUFFICES ASSUME NEW y \in rows'
                PROVE  \E x \in rows :
                          /\ y \in Rows /\ y.id = x.id
                          /\ y = x \/ (ProseTtl /\ y = [x EXCEPT !.review.prose = {}])
    OBVIOUS
  <2>1. PICK x \in rows : \/ y = x
                          \/ x.id <= old /\ y = [x EXCEPT !.review.prose = {}]
    BY <1>4
  <2>. QED
    BY <1>2, <1>3, <2>1

\* So it keeps the types.
LEMMA PruneTypeOK ==
    ASSUME TypeOK, PruneDelete
    PROVE  TypeOK'
<1>1. PICK cutoff \in {0} \cup {x.id : x \in rows},
           old \in IF ProseTtl THEN {0} \cup {x.id : x \in rows} ELSE {0} :
        rows' = {IF x.id <= old THEN [x EXCEPT !.review.prose = {}] ELSE x :
                    x \in {y \in rows : y.id > cutoff}}
  BY DEF PruneDelete
<1>. DEFINE kept(x) == IF x.id <= old THEN [x EXCEPT !.review.prose = {}] ELSE x
<1>2. ASSUME NEW x \in rows  PROVE kept(x).id = x.id
  BY DEF TypeOK, Rows
<1>3. \A y \in rows' : \E x \in rows : y = kept(x)
  BY <1>1
<1>. HIDE DEF kept
<1>4. \A x, y \in rows' : x.id = y.id => x = y
  BY <1>2, <1>3 DEF TypeOK
<1>5. rows' \subseteq Rows
  BY PruneRows
<1>6. UNCHANGED <<tip, been, main, lastId, mark, drafts>> /\ pruning' \in BOOLEAN
  BY DEF PruneDelete
<1>7. \A x \in rows' : x.id <= lastId'
  BY <1>2, <1>3, <1>6 DEF TypeOK
<1>. QED
  BY <1>4, <1>5, <1>6, <1>7 DEF TypeOK

\* The types are kept by every step.
LEMMA NextTypeOK == TypeOK /\ [Next]_vars => TypeOK'
<1>. SUFFICES ASSUME TypeOK, [Next]_vars PROVE TypeOK'
  OBVIOUS
<1>1. ASSUME NEW s \in Sessions, StartReview(s)  PROVE TypeOK'
  BY <1>1, StartTypeOK
<1>2. ASSUME NEW s \in Sessions, Record(s)  PROVE TypeOK'
  BY <1>2, RecordTypeOK
<1>3. ASSUME NEW s \in Sessions, LoseVerdict(s)  PROVE TypeOK'
  BY <1>3 DEF LoseVerdict, TypeOK
<1>4. CASE PruneDelete
  BY <1>4, PruneTypeOK
<1>5. CASE PruneMark \/ PruneDies
  BY <1>5 DEF PruneMark, PruneDies, TypeOK
<1>6. ASSUME NEW b \in Branches, Advance(b)  PROVE TypeOK'
  BY <1>6 DEF Advance, TypeOK
<1>7. ASSUME NEW b \in Branches, Land(b)  PROVE TypeOK'
  BY <1>7 DEF Land, TypeOK
<1>8. CASE UNCHANGED vars
  BY <1>8 DEF vars, TypeOK
<1>. QED
  BY <1>1, <1>2, <1>3, <1>4, <1>5, <1>6, <1>7, <1>8 DEF Next

\* The table of reviews has its types, and an id names one row, whatever runs
\* and prunes interleave (recordReview, runPrune).
THEOREM ReviewTypeCorrect == Spec => []TypeOK
  BY InitTypeOK, NextTypeOK, PTL DEF Spec

-----------------------------------------------------------------------------
(* What the rounds have seen *)

\* What an honest row objected to, and the head still has, the whole diff adds.
LEMMA StillThere ==
    ASSUME NEW base \in Commits, NEW old \in Commits, NEW head \in Commits,
           NEW i \in Introduced(base, old), Tree[head][i[1]] = i[2]
    PROVE  i \in Introduced(base, head)
<1>1. PICK f \in Changed(base, old) : i = <<f, Tree[old][f]>>
  BY DEF Introduced
<1>2. f \in Files /\ Tree[base][f] # Tree[old][f] /\ Tree[head][f] = Tree[old][f]
  BY <1>1 DEF Changed
<1>. QED
  BY <1>1, <1>2 DEF Introduced, Changed

\* What the whole diff adds is in the delta, or was there at its start.
LEMMA DeltaOrBefore ==
    ASSUME NEW base \in Commits, NEW old \in Commits, NEW head \in Commits,
           NEW i \in Introduced(base, head)
    PROVE  /\ Tree[head][i[1]] = i[2]
           /\ i \in Introduced(old, head) \/ i \in Introduced(base, old)
<1>1. PICK f \in Changed(base, head) : i = <<f, Tree[head][f]>>
  BY DEF Introduced
<1>2. f \in Files /\ Tree[base][f] # Tree[head][f]
  BY <1>1 DEF Changed
<1>3. CASE Tree[old][f] = Tree[head][f]
  BY <1>1, <1>2, <1>3 DEF Introduced, Changed
<1>4. CASE Tree[old][f] # Tree[head][f]
  BY <1>1, <1>2, <1>4 DEF Introduced, Changed
<1>. QED
  BY <1>1, <1>3, <1>4

\* A delta over files of the diff adds only what the diff adds.
LEMMA DeltaInDiff ==
    ASSUME NEW base, NEW old, NEW head, Changed(old, head) \subseteq Changed(base, head)
    PROVE  Introduced(old, head) \subseteq Introduced(base, head)
  BY DEF Introduced

\* A judged verdict is honest, where the reviewer is told of its previous round.
LEMMA JudgedHonest ==
    ASSUME TypeOK, HonestInv, FullMemory, NEW r \in Reviewers, NEW base \in Commits,
           NEW head \in Commits, NEW branch, NEW backend, NEW lost, NEW narrow \in BOOLEAN
    PROVE  Honest(Judged(r, base, head, branch, backend,
                         Prior(r, base, head, branch, lost), narrow, TRUE))
<1>. DEFINE prior == Prior(r, base, head, branch, lost)
            from == IF narrow THEN {x.review.head : x \in {y \in prior : Narrows(y, base, head)}}
                              ELSE {}
            shown == UNION {Introduced(c, head) : c \in IF from = {} THEN {base} ELSE from}
            told == UNION {x.review.prose : x \in prior}
            found == (shown \cap Bad) \cup {i \in told : Tree[head][i[1]] = i[2]}
            judged == Judged(r, base, head, branch, backend, prior, narrow, TRUE)
<1>1. \A x \in prior : /\ x.review.head \in Commits
                       /\ x.review.prose = Bad \cap Introduced(base, x.review.head)
  <2>1. ASSUME NEW x \in prior  PROVE x \in rows /\ x.review.base = base
    BY DEF Prior, Candidates, Newest
  <2>2. ASSUME NEW x \in rows  PROVE x.review.head \in Commits /\ Honest(x.review)
    BY DEF TypeOK, Rows, Drafts, HonestInv
  <2>. HIDE DEF prior
  <2>. QED
    BY <2>1, <2>2 DEF Honest
<1>2. /\ judged.base = base /\ judged.head = head /\ judged.prose = found
      /\ judged.verdict = IF found = {} THEN "approved" ELSE "changes_requested"
  <2>. HIDE DEF prior
  <2>. QED
    BY DEF Judged, FullMemory
<1>. HIDE DEF prior
<1>3. \A c \in from : /\ \E x \in prior : c = x.review.head
                      /\ Changed(c, head) \subseteq Changed(base, head)
  BY DEF Narrows
<1>4. /\ \A i : i \in shown <=> IF from = {} THEN i \in Introduced(base, head)
                                 ELSE \E c \in from : i \in Introduced(c, head)
      /\ \A i : i \in told <=> \E x \in prior : i \in x.review.prose
  <2>. HIDE DEF from
  <2>. QED
    OBVIOUS
<1>. HIDE DEF from, shown, told
<1>5. \A i : i \in found <=> \/ i \in shown /\ i \in Bad
                             \/ i \in told /\ Tree[head][i[1]] = i[2]
  OBVIOUS
<1>. HIDE DEF found, judged
<1>6. found = Bad \cap Introduced(base, head)
  <2>. USE <1>1, <1>3, <1>4, <1>5
  <2>1. ASSUME NEW i \in told, Tree[head][i[1]] = i[2]
        PROVE  i \in Bad \cap Introduced(base, head)
    <3>1. PICK x \in prior : i \in Bad \cap Introduced(base, x.review.head)
      OBVIOUS
    <3>. QED
      BY <2>1, <3>1, StillThere
  <2>2. ASSUME NEW i \in shown  PROVE i \in Introduced(base, head)
    <3>1. CASE from = {}
      BY <3>1
    <3>2. CASE from # {}
      <4>1. PICK c \in from : i \in Introduced(c, head)
        BY <3>2
      <4>. QED
        BY <4>1, DeltaInDiff
    <3>. QED
      BY <3>1, <3>2
  <2>3. ASSUME NEW i \in Bad \cap Introduced(base, head)
        PROVE  i \in shown \/ (i \in told /\ Tree[head][i[1]] = i[2])
    <3>1. CASE from = {}
      BY <3>1
    <3>2. CASE from # {}
      <4>1. PICK c \in from : TRUE
        BY <3>2
      <4>2. PICK x \in prior : c = x.review.head
        OBVIOUS
      <4>3. Tree[head][i[1]] = i[2]
        BY DeltaOrBefore
      <4>4. i \in Introduced(c, head) \/ i \in Introduced(base, c)
        BY <4>2, DeltaOrBefore
      <4>5. i \in Introduced(c, head) => i \in shown
        BY <3>2
      <4>6. i \in Introduced(base, c) => i \in told
        BY <4>2
      <4>. QED
        BY <4>3, <4>4, <4>5, <4>6
    <3>. QED
      BY <3>1, <3>2
  <2>. QED
    BY <2>1, <2>2, <2>3
<1>7. Honest(judged)
  BY <1>2, <1>6 DEF Honest
<1>. QED
  BY <1>7 DEF judged, prior

\* A replayed verdict stays honest: its diff has the bytes of the row's.
LEMMA ReplayedHonest ==
    ASSUME TypeOK, HonestInv, NEW r, NEW base \in Commits, NEW head \in Commits, NEW branch,
           NEW backend, NEW x \in Cached(r, base, head, branch, backend)
    PROVE  Honest(Replayed(x, base, TRUE))
<1>1. x \in rows /\ x.review.head = head /\ Diff(x.review.base, head) = Diff(base, head)
  BY DEF Cached, Newest
<1>2. Introduced(x.review.base, head) = Introduced(base, head)
  BY <1>1, DiffIntroduced
<1>3. Honest(x.review)
  BY <1>1 DEF HonestInv
<1>4. /\ Replayed(x, base, TRUE).head = head /\ Replayed(x, base, TRUE).base = base
      /\ Replayed(x, base, TRUE).verdict = x.review.verdict
      /\ Replayed(x, base, TRUE).prose = x.review.prose
  BY <1>1, ReplayedType
<1>. QED
  BY <1>1, <1>2, <1>3, <1>4 DEF Honest

\* A run drafts honest verdicts.
LEMMA StartHonest ==
    ASSUME TypeOK, HonestInv, FullMemory, NEW s \in Sessions, StartReview(s)
    PROVE  HonestInv'
<1>1. PICK branch, head, base :
         /\ branch \in Branches \cup {NoBranch} /\ head \in HeadsOf(branch)
         /\ base \in MergeBase(head)
         /\ \A d \in drafts'[s] : IsDraft(d, base, head, branch)
  BY DraftOfRun
<1>2. head \in Commits /\ base \in Commits
  BY <1>1, ScopeType
<1>3. ASSUME NEW d \in drafts'[s]  PROVE Honest(d)
  <2>1. IsDraft(d, base, head, branch)
    BY <1>1
  <2>2. PICK r \in Reviewers, backend \in Backends, keep \in KeepsProse :
        \/ \E x \in Cached(r, base, head, branch, backend) : d = Replayed(x, base, keep)
        \/ \E lost \in {NoCommit} \cup {x.review.head : x \in rows}, narrow \in BOOLEAN :
              d = Judged(r, base, head, branch, backend,
                         Prior(r, base, head, branch, lost), narrow, keep)
    BY <2>1 DEF IsDraft
  <2>3. keep = TRUE
    BY DEF FullMemory
  <2>4. ASSUME NEW x \in Cached(r, base, head, branch, backend), d = Replayed(x, base, keep)
        PROVE  Honest(d)
    BY <1>2, <2>3, <2>4, ReplayedHonest
  <2>5. ASSUME NEW lost, NEW narrow \in BOOLEAN,
               d = Judged(r, base, head, branch, backend,
                          Prior(r, base, head, branch, lost), narrow, keep)
        PROVE  Honest(d)
    BY <1>2, <2>3, <2>5, JudgedHonest
  <2>. QED
    BY <2>2, <2>4, <2>5
<1>4. rows' = rows /\ \A t \in Sessions \ {s} : drafts'[t] = drafts[t]
  BY StartFrame
<1>. QED
  BY <1>3, <1>4 DEF HonestInv

\* Every step keeps the verdicts honest.
LEMMA NextHonest ==
    ASSUME TypeOK, HonestInv, FullMemory, [Next]_vars
    PROVE  HonestInv'
<1>1. ASSUME NEW s \in Sessions, StartReview(s)  PROVE HonestInv'
  BY <1>1, StartHonest
<1>2. ASSUME NEW s \in Sessions, Record(s) \/ LoseVerdict(s)  PROVE HonestInv'
  <2>1. PICK d \in drafts[s] :
          /\ drafts' = [drafts EXCEPT ![s] = @ \ {d}]
          /\ rows' \in {rows, rows \cup {[id |-> lastId + 1, review |-> d]}}
    BY <1>2 DEF Record, LoseVerdict
  <2>2. \A t \in Sessions : drafts'[t] \subseteq drafts[t]
    BY <2>1 DEF TypeOK
  <2>3. \A x \in rows' : x \in rows \/ x.review = d
    BY <2>1
  <2>. QED
    BY <2>1, <2>2, <2>3 DEF HonestInv
<1>3. CASE PruneDelete
  <2>1. \A y \in rows' : y \in rows
    BY <1>3, PruneRows DEF FullMemory
  <2>2. drafts' = drafts
    BY <1>3 DEF PruneDelete
  <2>. QED
    BY <2>1, <2>2 DEF HonestInv
<1>4. ASSUME UNCHANGED <<rows, drafts>>  PROVE HonestInv'
  BY <1>4 DEF HonestInv
<1>5. ASSUME NEW b \in Branches, Advance(b) \/ Land(b)  PROVE UNCHANGED <<rows, drafts>>
  BY <1>5 DEF Advance, Land
<1>6. PruneMark \/ PruneDies \/ UNCHANGED vars => UNCHANGED <<rows, drafts>>
  BY DEF PruneMark, PruneDies, vars
<1>. QED
  BY <1>1, <1>2, <1>3, <1>4, <1>5, <1>6 DEF Next

\* Honest approvals are of clean diffs.
LEMMA HonestGate == HonestInv => OpenGateIsClean
<1>. SUFFICES ASSUME HonestInv, NEW base \in Commits, NEW head \in Commits, GateOpen(base, head)
              PROVE  Introduced(base, head) \cap Bad = {}
  BY DEF OpenGateIsClean
<1>1. PICK r \in Reviewers : TRUE
  BY ReviewersAssumption
<1>2. PICK x \in rows : /\ x.review.base = base /\ x.review.head = head
                        /\ x.review.verdict = "approved"
  BY DEF GateOpen, Newest, RowsOf
<1>. QED
  BY <1>2 DEF HonestInv, Honest

\* Where every verdict reaches the next round with its prose, an open gate means
\* a clean diff, however the rounds were narrowed and replayed (resolveReviewScope,
\* findCachedVerdict, buildDeltaScopeRatchet).
THEOREM ApprovedDiffsAreClean ==
    ASSUME FullMemory
    PROVE  Spec => []OpenGateIsClean
<1>1. Init => TypeOK /\ HonestInv
  BY InitTypeOK DEF Init, HonestInv
<1>2. TypeOK /\ HonestInv /\ [Next]_vars => (TypeOK /\ HonestInv)'
  BY NextTypeOK, NextHonest
<1>3. TypeOK /\ HonestInv => OpenGateIsClean
  BY HonestGate
<1>. QED
  BY <1>1, <1>2, <1>3, PTL DEF Spec

-----------------------------------------------------------------------------
(* Where the rounds start *)

\* A judged verdict starts at the work of its own branch.
LEMMA JudgedOwn ==
    ASSUME TypeOK, OwnInv, ~RawShas, NEW r \in Reviewers, NEW base \in Commits,
           NEW branch \in Branches \cup {NoBranch}, NEW head \in HeadsOf(branch),
           NEW backend, NEW lost, NEW narrow \in BOOLEAN, NEW keep
    PROVE  OwnRound(Judged(r, base, head, branch, backend,
                           Prior(r, base, head, branch, lost), narrow, keep))
<1>. DEFINE prior == Prior(r, base, head, branch, lost)
            from == IF narrow THEN {x.review.head : x \in {y \in prior : Narrows(y, base, head)}}
                              ELSE {}
            start == IF from = {} THEN NoCommit ELSE CHOOSE c \in from : TRUE
            judged == Judged(r, base, head, branch, backend, prior, narrow, keep)
<1>1. branch # NoBranch => branch \in Branches /\ head \in been[branch]
  BY DEF HeadsOf, OwnInv
<1>2. start # NoCommit => start \in from
  OBVIOUS
<1>3. ASSUME NEW x \in prior
      PROVE  IsAncestor(x.review.head, head) \/ (branch # NoBranch /\ x.review.head \in been[branch])
  <2>1. x \in rows /\ (IsAncestor(x.review.head, head) \/ Amends(x, head, branch))
    BY DEF Prior, Candidates, Newest
  <2>2. Amends(x, head, branch) => branch # NoBranch /\ x.review.branch = branch
    BY DEF Amends
  <2>3. OwnRound(x.review)
    BY <2>1 DEF OwnInv
  <2>. QED
    BY <2>1, <2>2, <2>3 DEF OwnRound
<1>4. judged.head = head /\ judged.branch = branch /\ judged.from = start
  <2>. HIDE DEF prior
  <2>. QED
    BY DEF Judged
<1>. HIDE DEF prior
<1>5. ASSUME start # NoCommit  PROVE \E x \in prior : start = x.review.head
  BY <1>2, <1>5
<1>. HIDE DEF judged, start, from
<1>6. OwnRound(judged)
  BY <1>1, <1>3, <1>4, <1>5 DEF OwnRound
<1>. QED
  BY <1>6 DEF judged, prior

\* So does every draft of a run.
LEMMA StartOwn ==
    ASSUME TypeOK, OwnInv, ~RawShas, NEW s \in Sessions, StartReview(s)
    PROVE  OwnInv'
<1>1. PICK branch, head, base :
         /\ branch \in Branches \cup {NoBranch} /\ head \in HeadsOf(branch)
         /\ base \in MergeBase(head)
         /\ \A d \in drafts'[s] : IsDraft(d, base, head, branch)
  BY DraftOfRun
<1>2. head \in Commits /\ base \in Commits
  BY <1>1, ScopeType
<1>3. ASSUME NEW d \in drafts'[s]  PROVE OwnRound(d)
  <2>1. IsDraft(d, base, head, branch)
    BY <1>1
  <2>2. PICK r \in Reviewers, backend \in Backends, keep \in KeepsProse :
        \/ \E x \in Cached(r, base, head, branch, backend) : d = Replayed(x, base, keep)
        \/ \E lost \in {NoCommit} \cup {x.review.head : x \in rows}, narrow \in BOOLEAN :
              d = Judged(r, base, head, branch, backend,
                         Prior(r, base, head, branch, lost), narrow, keep)
    BY <2>1 DEF IsDraft
  <2>3. keep \in BOOLEAN
    BY ReviewersAssumption
  <2>4. ASSUME NEW x \in Cached(r, base, head, branch, backend), d = Replayed(x, base, keep)
        PROVE  OwnRound(d)
    <3>1. x \in rows
      BY FoundRows
    <3>2. d.head = x.review.head /\ d.branch = x.review.branch /\ d.from = x.review.from
      BY <1>2, <2>3, <2>4, <3>1, ReplayedType
    <3>3. OwnRound(x.review)
      BY <3>1 DEF OwnInv
    <3>. QED
      BY <3>2, <3>3 DEF OwnRound
  <2>5. ASSUME NEW lost, NEW narrow \in BOOLEAN,
               d = Judged(r, base, head, branch, backend,
                          Prior(r, base, head, branch, lost), narrow, keep)
        PROVE  OwnRound(d)
    BY <1>1, <1>2, <2>5, JudgedOwn
  <2>. QED
    BY <2>2, <2>4, <2>5
<1>4. /\ rows' = rows /\ been' = been /\ tip' = tip
      /\ \A t \in Sessions \ {s} : drafts'[t] = drafts[t]
  BY StartFrame
<1>5. ASSUME NEW d, OwnRound(d)  PROVE OwnRound(d)'
  BY <1>4, <1>5 DEF OwnRound
<1>. QED
  BY <1>3, <1>4, <1>5 DEF OwnInv

\* Every step keeps the rounds to the work of their branches.
LEMMA NextOwn ==
    ASSUME TypeOK, OwnInv, ~RawShas, [Next]_vars
    PROVE  OwnInv'
<1>1. ASSUME NEW s \in Sessions, StartReview(s)  PROVE OwnInv'
  BY <1>1, StartOwn
<1>2. ASSUME UNCHANGED <<tip, been>>, \A x \in rows' : OwnRound(x.review),
             \A t \in Sessions : drafts'[t] \subseteq drafts[t]
      PROVE  OwnInv'
  BY <1>2 DEF OwnInv, OwnRound
<1>3. ASSUME NEW s \in Sessions, Record(s) \/ LoseVerdict(s)  PROVE OwnInv'
  <2>1. PICK d \in drafts[s] :
          /\ drafts' = [drafts EXCEPT ![s] = @ \ {d}]
          /\ rows' \in {rows, rows \cup {[id |-> lastId + 1, review |-> d]}}
          /\ UNCHANGED <<tip, been>>
    BY <1>3 DEF Record, LoseVerdict
  <2>2. \A t \in Sessions : drafts'[t] \subseteq drafts[t]
    BY <2>1 DEF TypeOK
  <2>3. \A x \in rows' : x \in rows \/ x.review = d
    BY <2>1
  <2>4. \A x \in rows' : OwnRound(x.review)
    BY <2>1, <2>3 DEF OwnInv
  <2>. QED
    BY <1>2, <2>1, <2>2, <2>4
<1>4. CASE PruneDelete
  <2>1. UNCHANGED <<tip, been, drafts>>
    BY <1>4 DEF PruneDelete
  <2>2. ASSUME NEW y \in rows'  PROVE OwnRound(y.review)
    <3>1. PICK x \in rows : y = x \/ y = [x EXCEPT !.review.prose = {}]
      BY <1>4, PruneRows
    <3>2. y.review.from = x.review.from /\ y.review.head = x.review.head /\ y.review.branch = x.review.branch
      BY <3>1 DEF TypeOK, Rows, Drafts
    <3>3. OwnRound(x.review)
      BY DEF OwnInv
    <3>. QED
      BY <3>2, <3>3 DEF OwnRound
  <2>. QED
    BY <1>2, <2>1, <2>2
<1>5. ASSUME NEW b \in Branches, Advance(b)  PROVE OwnInv'
  <2>1. PICK c \in Commits : /\ tip' = [tip EXCEPT ![b] = c]
                             /\ been' = [been EXCEPT ![b] = @ \cup {c}]
                             /\ UNCHANGED <<rows, drafts>>
    BY <1>5 DEF Advance
  <2>2. \A q \in Branches : been[q] \subseteq been'[q] /\ tip'[q] \in been'[q]
    BY <2>1 DEF TypeOK, OwnInv
  <2>3. ASSUME NEW d \in Drafts, OwnRound(d)  PROVE OwnRound(d)'
    BY <2>2, <2>3 DEF OwnRound, Drafts
  <2>4. ASSUME NEW x \in rows  PROVE OwnRound(x.review)'
    <3>1. x.review \in Drafts /\ OwnRound(x.review)
      BY DEF TypeOK, Rows, OwnInv
    <3>. QED
      BY <2>3, <3>1
  <2>5. ASSUME NEW s \in Sessions, NEW d \in drafts[s]  PROVE OwnRound(d)'
    BY <2>3 DEF TypeOK, OwnInv
  <2>. QED
    BY <2>1, <2>2, <2>4, <2>5 DEF OwnInv
<1>6. ASSUME UNCHANGED <<tip, been, rows, drafts>>  PROVE OwnInv'
  BY <1>6 DEF OwnInv, OwnRound
<1>7. ASSUME NEW b \in Branches, Land(b)  PROVE UNCHANGED <<tip, been, rows, drafts>>
  BY <1>7 DEF Land
<1>8. PruneMark \/ PruneDies \/ UNCHANGED vars => UNCHANGED <<tip, been, rows, drafts>>
  BY DEF PruneMark, PruneDies, vars
<1>. QED
  BY <1>1, <1>3, <1>4, <1>5, <1>6, <1>7, <1>8 DEF Next

\* Where no revspec names a head by its SHA, no round is narrowed to start at a
\* sibling's head (selectPriorReview).
THEOREM NarrowedToOwnWork ==
    ASSUME ~RawShas
    PROVE  Spec => []OwnChangesOnly
<1>1. Init => TypeOK /\ OwnInv
  BY InitTypeOK DEF Init, OwnInv
<1>2. TypeOK /\ OwnInv /\ [Next]_vars => (TypeOK /\ OwnInv)'
  BY NextTypeOK, NextOwn
<1>3. OwnInv => OwnChangesOnly
  BY DEF OwnInv, OwnRound, OwnChangesOnly
<1>. QED
  BY <1>1, <1>2, <1>3, PTL DEF Spec
=============================================================================
