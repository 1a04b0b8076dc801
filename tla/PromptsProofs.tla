--------------------------- MODULE PromptsProofs ---------------------------
(***************************************************************************)
(* What is read from the cache of prompts was signed, and no refresh that   *)
(* is cut off loses the cache, for every history of the prompts repository  *)
(* and any number of reviews and of deaths.                                 *)
(***************************************************************************)
EXTENDS Prompts, TLAPS

SignedFile == Signed \cup {None}

\* No file of the checkout is of a commit that was not signed.
Clean(dir) == dir.over \in SignedFile /\ dir.dflt \in SignedFile

\* Where the HEAD verifies, the files are clean; so they are in a server that
\* is up; and .old is the cache that a failed swap brings back.
CleanInv ==
    /\ root.head \in Signed \/ phase = "up" \/ job.pc = "tidy" => Clean(root)
    /\ old.head \in Signed => Clean(old)
    /\ job.pc = "swap_in" /\ phase = "up" => Clean(old)

\* What the steps of a refresh rely on.
JobInv ==
    /\ root = NoDir \/ root.head \in Commits
    /\ job.pc \in {"fetch", "checkout", "write", "swap_out", "tidy"} => root.head \in Commits
    /\ job.pc \in {"checkout", "write"} => job.got \in Signed
    /\ job.pc \in {"swap_out", "swap_in", "place"} => tmp.head \in Signed /\ Clean(tmp)
    /\ job.pc = "swap_in" => old.head \in Commits

\* A review is under way only in a server that is up, and has read a signed
\* prompt; the refresh of a boot does not outlive it.
ReviewInv ==
    /\ job.by = "boot" => phase = "boot"
    /\ \A r \in Reviews :
          /\ review[r].pc # "idle" => phase = "up"
          /\ review[r].pc = "prompted" => review[r].at \in Signed

\* The inductive invariant.
IInv == TypeOK /\ CleanInv /\ JobInv /\ ReviewInv

-----------------------------------------------------------------------------

\* A complete checkout of a commit that verifies is clean, and it is a directory.
LEMMA WholeIsClean ==
    ASSUME NEW c \in Commits
    PROVE  /\ Whole(c) \in DirType /\ Whole(c).head = c
           /\ c \in Signed => Clean(Whole(c))
  BY CommitsAssumption DEF Whole, OverOf, Clean, SignedFile, DirType, None, Commits

\* A missing directory is a checkout of no commit.
LEMMA NoDirType == NoDir \in DirType /\ NoDir.head \notin Commits
  BY CommitsAssumption DEF NoDir, DirType, None, Commits

\* The absent refresh, and the idle review below, are of their types.
LEMMA NoJobType == NoJob \in JobType /\ NoJob.pc = "none"
  BY DEF NoJob, JobType

\* An idle review has the type of a review.
LEMMA NoReviewType == NoReview \in ReviewType /\ NoReview.pc = "idle"
  BY DEF NoReview, ReviewType

\* Goto moves a refresh on and changes nothing else of it.
LEMMA GotoType ==
    ASSUME job \in JobType, NEW pc \in {"checkout", "write", "clone", "swap_out", "swap_in", "tidy", "place"},
           Goto(pc)
    PROVE  job' \in JobType /\ job'.pc = pc /\ job'.by = job.by /\ job'.got = job.got
  BY DEF Goto, JobType

\* The end of a refresh lifts the lock, and brings up only a server whose boot
\* it was.
LEMMA EndType ==
    ASSUME NEW ok \in BOOLEAN, End(ok), phase \in {"down", "boot", "up"},
           workers \in BOOLEAN, trigger \in BOOLEAN, window \in BOOLEAN
    PROVE  /\ lock' = "none" /\ job' = NoJob /\ job' \in JobType
           /\ phase' \in {"down", "boot", "up"}
           /\ workers' \in BOOLEAN /\ trigger' \in BOOLEAN /\ window' \in BOOLEAN
           /\ phase' = "up" => (phase = "up" \/ ok)
           /\ phase = "up" => (phase' = "up" \/ job.by = "boot")
  BY NoJobType DEF End, EndBoot, server

\* A refresh starts under the lock, by a fetch only where there is a cache.
LEMMA StartType ==
    ASSUME NEW by \in {"boot", "poll", "hook"}, StartRefresh(by)
    PROVE  /\ lock' = "fresh" /\ tmp' = NoDir /\ tmp' \in DirType /\ root' = root /\ old' = old
           /\ job' \in JobType /\ job'.pc \in {"clone", "fetch"} /\ job'.by = by
           /\ job'.pc = "fetch" => root # NoDir
  BY NoDirType DEF StartRefresh, JobType, None

\* What git writes into a checkout leaves it a checkout.
LEMMA DirWrites ==
    ASSUME root \in DirType, NEW c \in Commits \cup {None}
    PROVE  /\ OverOf(c) \in Commits \cup {None}
           /\ [root EXCEPT !.over = None] \in DirType
           /\ [root EXCEPT !.over = OverOf(c)] \in DirType
           /\ [root EXCEPT !.dflt = c] \in DirType /\ [root EXCEPT !.head = c] \in DirType
  BY CommitsAssumption DEF DirType, OverOf, None

\* The invariant holds at first.
LEMMA InitIInv == Init => IInv
<1>. SUFFICES ASSUME Init PROVE IInv
  OBVIOUS
<1>1. PICK c \in Commits : root \in {NoDir, Whole(c)}
  BY DEF Init
<1>2. NoDir \in DirType /\ NoDir.head \notin Commits
  BY CommitsAssumption DEF NoDir, DirType, None, Commits
<1>3. TypeOK
  <2>1. root \in DirType /\ tmp \in DirType /\ old \in DirType
    BY <1>1, <1>2, WholeIsClean DEF Init
  <2>2. review \in [Reviews -> ReviewType]
    BY NoReviewType DEF Init
  <2>3. job \in JobType /\ deaths \in 0..MaxDeaths
    BY NoJobType, DeathsAssumption DEF Init
  <2>. QED
    BY <2>1, <2>2, <2>3 DEF Init, TypeOK
<1>4. CleanInv
  BY <1>1, <1>2, WholeIsClean, CommitsAssumption DEF Init, CleanInv, NoJob
<1>5. JobInv /\ ReviewInv
  BY <1>1, WholeIsClean DEF Init, JobInv, ReviewInv, NoJob, NoReview
<1>. QED
  BY <1>3, <1>4, <1>5 DEF IInv

-----------------------------------------------------------------------------

\* Every step keeps the types.
LEMMA TypeStep ==
    ASSUME IInv, [Next]_vars
    PROVE  TypeOK'
<1>. USE CommitsAssumption, DeathsAssumption DEF IInv, TypeOK
<1>0. job.got \in Commits \cup {None}
  BY DEF JobType
<1>1. CASE Push
  BY <1>1 DEF Push, disk, server, Commits
<1>2. CASE Deliver
  BY <1>2 DEF Deliver, disk
<1>3. CASE LoseDelivery
  BY <1>3 DEF LoseDelivery, disk, server
<1>4. CASE Fetch
  BY <1>4, <1>0, NoJobType DEF Fetch, JobType, disk, server
<1>5. CASE Checkout
  BY <1>5, <1>0, NoJobType, GotoType, DirWrites DEF Checkout, server
<1>6. CASE CheckoutDone
  BY <1>6, <1>0, EndType, DirWrites DEF CheckoutDone
<1>7. CASE InPlaceFails
  BY <1>7, <1>0, NoJobType, GotoType DEF InPlaceFails, disk, server
<1>8. CASE Clone
  <2>1. MayKeep(root) \in BOOLEAN
    BY DEF MayKeep
  <2>2. tmp' \in DirType /\ UNCHANGED <<tip, sent, root, old, review, deaths>>
    BY <1>8, WholeIsClean DEF Clone
  <2>3. CASE End(MayKeep(root))
    BY <2>1, <2>2, <2>3, EndType
  <2>4. CASE Goto(IF root = NoDir THEN "place" ELSE "swap_out") /\ UNCHANGED <<lock, server>>
    BY <1>8, <2>2, <2>4, NoJobType, GotoType DEF Clone, server
  <2>. QED
    BY <1>8, <2>3, <2>4 DEF Clone
<1>9. CASE CloneFails
  BY <1>9, EndType DEF CloneFails, disk
<1>10. CASE SwapOut
  BY <1>10, <1>0, NoJobType, GotoType, NoDirType DEF SwapOut, server
<1>11. CASE SwapIn
  BY <1>11, <1>0, NoJobType, GotoType, NoDirType DEF SwapIn, server
<1>12. CASE SwapFails
  BY <1>12, EndType, NoDirType DEF SwapFails
<1>13. CASE Tidy
  BY <1>13, EndType, NoDirType DEF Tidy
<1>14. CASE Place
  BY <1>14, EndType, NoDirType DEF Place
<1>15. CASE Boot
  BY <1>15, StartType DEF Boot
<1>16. CASE Poll
  BY <1>16, StartType DEF Poll, server
<1>17. CASE Watch
  BY <1>17, StartType DEF Watch, disk
<1>18. CASE WindowEnds
  BY <1>18 DEF WindowEnds, disk
<1>19. CASE LockAges
  BY <1>19 DEF LockAges, disk, server
<1>20. CASE Die
  <2>1. deaths' \in 0..MaxDeaths
    BY <1>20 DEF Die
  <2>2. CASE Stop
    BY <2>1, <2>2, NoJobType, NoReviewType DEF Stop, disk
  <2>3. CASE workers' = FALSE /\ job' = NoJob /\ window' = FALSE
             /\ UNCHANGED <<tip, sent, disk, lock, phase, trigger, review>>
    BY <2>1, <2>3, NoJobType DEF disk
  <2>. QED
    BY <1>20, <2>2, <2>3 DEF Die
<1>21. CASE RestartWorkers
  BY <1>21 DEF RestartWorkers, disk
<1>22. CASE \E r \in Reviews : Choose(r)
  BY <1>22 DEF Choose, NoReview, ReviewType, DirType, None, disk, server
<1>23. CASE \E r \in Reviews : Read(r)
  BY <1>23 DEF Read, NoReview, ReviewType, DirType, None, disk, server
<1>24. CASE \E r \in Reviews : Answer(r)
  BY <1>24 DEF Answer, NoReview, ReviewType, DirType, None, disk, server
<1>25. CASE UNCHANGED vars
  BY <1>25 DEF vars
<1>. QED
  BY <1>1, <1>2, <1>3, <1>4, <1>5, <1>6, <1>7, <1>8, <1>9, <1>10, <1>11, <1>12, <1>13, <1>14, <1>15, <1>16, <1>17, <1>18, <1>19, <1>20, <1>21, <1>22, <1>23, <1>24, <1>25 DEF Next, Refresh

-----------------------------------------------------------------------------

\* The steps that leave the directories, the refresh and the phase alone.
LEMMA QuietStep ==
    ASSUME CleanInv, JobInv, UNCHANGED <<root, tmp, old, job, phase>>
    PROVE  CleanInv' /\ JobInv'
  BY DEF CleanInv, JobInv, Clean

\* Every step keeps what is known of the directories and of the refresh.
LEMMA CacheStep ==
    ASSUME IInv, [Next]_vars
    PROVE  CleanInv' /\ JobInv'
<1>. USE DEF IInv
<1>0. /\ tip \in Commits /\ root \in DirType /\ old \in DirType /\ tmp \in DirType /\ job \in JobType
      /\ phase \in {"down", "boot", "up"} /\ workers \in BOOLEAN /\ trigger \in BOOLEAN
      /\ window \in BOOLEAN
      /\ Signed \subseteq Commits
  BY CommitsAssumption DEF TypeOK
<1>1. CASE Push \/ Deliver \/ LoseDelivery \/ WindowEnds \/ LockAges \/ UNCHANGED vars
  <2>. UNCHANGED <<root, tmp, old, job, phase>>
    BY <1>1 DEF Push, Deliver, LoseDelivery, WindowEnds, LockAges, vars, disk, server
  <2>. QED
    BY QuietStep
<1>2. CASE \E r \in Reviews : Choose(r) \/ Read(r) \/ Answer(r)
  <2>. UNCHANGED <<root, tmp, old, job, phase>>
    BY <1>2 DEF Choose, Read, Answer, disk, server
  <2>. QED
    BY QuietStep
<1>3. CASE Fetch
  BY <1>0, <1>3 DEF Fetch, Verified, CleanInv, JobInv, Clean, disk, server, JobType
<1>4. CASE Checkout
  <2>1. job.got \in Signed /\ OverOf(job.got) \in SignedFile /\ root.head \in Commits
    BY <1>4 DEF Checkout, JobInv, OverOf, SignedFile
  <2>2. root'.head = root.head /\ (Clean(root) => Clean(root'))
    BY <1>0, <1>4, <2>1 DEF Checkout, Clean, SignedFile, DirType
  <2>3. job' = job \/ \E pc \in {"checkout", "write"} : Goto(pc)
    BY <1>4 DEF Checkout
  <2>4. job'.pc \in {"checkout", "write"} /\ job'.got = job.got
    BY <1>0, <1>4, <2>3, GotoType DEF Checkout
  <2>. QED
    BY <1>4, <2>1, <2>2, <2>4 DEF Checkout, CleanInv, JobInv, Clean, server
<1>5. CASE CheckoutDone
  <2>1. job.got \in Signed /\ root.over \in SignedFile /\ root.dflt \in SignedFile
    BY <1>5 DEF CheckoutDone, JobInv, OverOf, SignedFile
  <2>2. root'.head = job.got /\ Clean(root')
    BY <1>0, <1>5, <2>1 DEF CheckoutDone, Clean, DirType
  <2>3. job'.pc = "none"
    BY <1>0, <1>5, EndType, NoJobType DEF CheckoutDone
  <2>. QED
    BY <1>0, <1>5, <2>1, <2>2, <2>3 DEF CheckoutDone, CleanInv, JobInv, Clean
<1>6. CASE InPlaceFails
  BY <1>0, <1>6, GotoType DEF InPlaceFails, CleanInv, JobInv, Clean, disk, server
<1>7. CASE Clone
  <2>1. tmp'.head = tip /\ (tip \in Signed => Clean(tmp')) /\ root' = root /\ old' = old
    BY <1>0, <1>7, WholeIsClean DEF Clone, Clean
  <2>2. CASE Verified(tip) /\ Goto(IF root = NoDir THEN "place" ELSE "swap_out") /\ UNCHANGED <<lock, server>>
    <3>1. job'.pc \in {"place", "swap_out"} /\ (job'.pc = "swap_out" => root # NoDir) /\ phase' = phase
      BY <1>0, <2>2, GotoType DEF server
    <3>. QED
      BY <2>1, <2>2, <3>1 DEF Verified, CleanInv, JobInv, Clean
  <2>3. CASE End(MayKeep(root))
    <3>1. MayKeep(root) \in BOOLEAN
      BY DEF MayKeep
    <3>2. job'.pc = "none" /\ (phase' = "up" => (phase = "up" \/ MayKeep(root)))
      BY <1>0, <2>3, <3>1, EndType, NoJobType
    <3>. QED
      BY <2>1, <3>2 DEF MayKeep, CleanInv, JobInv, Clean
  <2>. QED
    BY <1>7, <2>2, <2>3 DEF Clone
<1>8. CASE CloneFails
  <2>1. job'.pc = "none" /\ (phase' = "up" => phase = "up")
    BY <1>0, <1>8, EndType, NoJobType DEF CloneFails
  <2>. QED
    BY <1>8, <2>1 DEF CloneFails, CleanInv, JobInv, Clean, disk
<1>9. CASE SwapOut
  <2>1. job'.pc = "swap_in" /\ job.pc = "swap_out" /\ phase' = phase /\ old' = root /\ root' = NoDir /\ tmp' = tmp
    BY <1>0, <1>9, GotoType DEF SwapOut, server
  <2>2. root'.head \notin Signed /\ Clean(root')
    BY <1>0, <2>1, NoDirType DEF NoDir, Clean, SignedFile
  <2>. QED
    BY <1>0, <2>1, <2>2 DEF CleanInv, JobInv, Clean
<1>10. CASE SwapIn
  <2>1. job'.pc = "tidy" /\ job.pc = "swap_in" /\ phase' = phase /\ root' = tmp /\ old' = old
    BY <1>0, <1>10, GotoType DEF SwapIn, server
  <2>. QED
    BY <1>0, <2>1 DEF CleanInv, JobInv, Clean
<1>11. CASE SwapFails
  <2>1. /\ job'.pc = "none" /\ job.pc = "swap_in" /\ (phase' = "up" => phase = "up")
        /\ root' = old /\ old' = NoDir
    BY <1>0, <1>11, EndType, NoJobType DEF SwapFails
  <2>. QED
    BY <1>0, <2>1, NoDirType DEF CleanInv, JobInv, Clean
<1>12. CASE Tidy
  <2>1. job'.pc = "none" /\ job.pc = "tidy" /\ root' = root /\ old' = NoDir
    BY <1>0, <1>12, EndType, NoJobType DEF Tidy
  <2>. QED
    BY <1>0, <2>1, NoDirType DEF CleanInv, JobInv, Clean
<1>13. CASE Place
  <2>1. job'.pc = "none" /\ job.pc = "place" /\ root' = tmp /\ old' = old
    BY <1>0, <1>13, EndType, NoJobType DEF Place
  <2>. QED
    BY <1>0, <2>1 DEF CleanInv, JobInv, Clean
<1>14. CASE Boot \/ Poll \/ (Watch /\ StartRefresh("hook"))
  <2>1. PICK by \in {"boot", "poll", "hook"} : StartRefresh(by)
    BY <1>14 DEF Boot, Poll, Watch
  <2>2. phase' = "up" => phase = "up"
    BY <1>14 DEF Boot, Poll, Watch, server
  <2>. QED
    BY <1>0, <2>1, <2>2, StartType DEF CleanInv, JobInv, Clean
<1>15. CASE Watch /\ UNCHANGED <<disk, job>>
  BY <1>15, QuietStep DEF Watch, disk
<1>16. CASE Die
  <2>1. UNCHANGED disk /\ job' = NoJob /\ (phase' = "up" => phase = "up")
    BY <1>16 DEF Die, Stop
  <2>. QED
    BY <2>1, NoJobType DEF disk, CleanInv, JobInv, Clean
<1>17. CASE RestartWorkers
  BY <1>17, QuietStep DEF RestartWorkers, disk
<1>. QED
  BY <1>1, <1>2, <1>3, <1>4, <1>5, <1>6, <1>7, <1>8, <1>9, <1>10, <1>11, <1>12, <1>13, <1>14,
     <1>15, <1>16, <1>17
  DEF Next, Refresh, Watch

-----------------------------------------------------------------------------

\* The steps that leave the reviews alone and do not take the server down.
LEMMA IdleStep ==
    ASSUME ReviewInv, review' = review, phase = "up" => phase' = "up",
           job'.by = "boot" => phase' = "boot"
    PROVE  ReviewInv'
  BY DEF ReviewInv

\* A step that ends a refresh does neither.
LEMMA EndStep ==
    ASSUME IInv, NEW ok \in BOOLEAN, End(ok), review' = review
    PROVE  ReviewInv'
<1>1. phase = "up" => phase' = "up"
  BY EndType DEF IInv, TypeOK, ReviewInv
<1>2. job'.by # "boot"
  BY DEF End, NoJob
<1>. QED
  BY <1>1, <1>2, IdleStep DEF IInv

\* Every step keeps what is known of the reviews: one reads only while the
\* server is up, and then the files of the cache are clean.
LEMMA ReviewStep ==
    ASSUME IInv, [Next]_vars
    PROVE  ReviewInv'
<1>. USE DEF IInv
<1>0. job \in JobType /\ ReviewInv /\ review \in [Reviews -> ReviewType]
  BY DEF TypeOK
<1>1. CASE Push \/ Deliver \/ LoseDelivery \/ WindowEnds \/ LockAges \/ UNCHANGED vars
  <2>. UNCHANGED <<review, job, phase>>
    BY <1>1 DEF Push, Deliver, LoseDelivery, WindowEnds, LockAges, vars, server
  <2>. QED
    BY IdleStep DEF ReviewInv
<1>2. CASE Fetch \/ Checkout \/ InPlaceFails \/ SwapOut \/ SwapIn
  <2>. /\ UNCHANGED <<review, phase>>
       /\ job'.by = job.by
    BY <1>0, <1>2, GotoType DEF Fetch, Checkout, InPlaceFails, SwapOut, SwapIn, JobType, server
  <2>. QED
    BY IdleStep DEF ReviewInv
<1>3. CASE Clone /\ UNCHANGED server
  <2>. UNCHANGED <<review, phase>> /\ (job'.by = job.by \/ job' = NoJob)
    BY <1>0, <1>3, GotoType DEF Clone, End, server
  <2>. QED
    BY IdleStep DEF ReviewInv, NoJob
<1>4. CASE Clone /\ End(MayKeep(root))
  <2>. MayKeep(root) \in BOOLEAN
    BY DEF MayKeep
  <2>. QED
    BY <1>4, EndStep DEF Clone
<1>5. CASE CheckoutDone \/ CloneFails \/ SwapFails \/ Tidy \/ Place
  BY <1>5, EndStep DEF CheckoutDone, CloneFails, SwapFails, Tidy, Place
<1>6. CASE Boot \/ Poll \/ (Watch /\ StartRefresh("hook"))
  <2>1. review' = review /\ (phase = "up" => phase' = "up")
    BY <1>6 DEF Boot, Poll, Watch, server
  <2>2. job'.by = "boot" => phase' = "boot"
    BY <1>6, StartType DEF Boot, Poll, Watch
  <2>. QED
    BY <2>1, <2>2, IdleStep
<1>7. CASE Watch /\ UNCHANGED job
  BY <1>7, IdleStep DEF Watch, ReviewInv
<1>8. CASE Die
  <2>1. job'.by # "boot"
    BY <1>8 DEF Die, Stop, NoJob
  <2>2. CASE Stop
    BY <2>1, <2>2, NoReviewType DEF Stop, ReviewInv
  <2>3. CASE UNCHANGED <<phase, review>>
    BY <2>1, <2>3, IdleStep
  <2>. QED
    BY <1>8, <2>2, <2>3 DEF Die
<1>9. CASE \E r \in Reviews : Choose(r)
  BY <1>0, <1>9 DEF Choose, ReviewInv, server
<1>10. CASE \E r \in Reviews : Read(r)
  <2>1. PICK r \in Reviews : Read(r)
    BY <1>10
  <2>2. phase = "up" /\ Clean(root) /\ UNCHANGED <<job, phase>>
    BY <2>1 DEF Read, ReviewInv, CleanInv, server
  <2>3. review'[r].pc = "prompted" => review'[r].at \in Signed
    BY <1>0, <2>1, <2>2 DEF Read, Clean, SignedFile, NoReview
  <2>4. \A q \in Reviews \ {r} : review'[q] = review[q]
    BY <1>0, <2>1 DEF Read
  <2>. QED
    BY <1>0, <2>2, <2>3, <2>4 DEF ReviewInv
<1>11. CASE \E r \in Reviews : Answer(r)
  BY <1>0, <1>11, NoReviewType DEF Answer, ReviewInv, server
<1>12. CASE RestartWorkers
  BY <1>12, IdleStep DEF RestartWorkers, ReviewInv
<1>. QED
  BY <1>1, <1>2, <1>3, <1>4, <1>5, <1>6, <1>7, <1>8, <1>9, <1>10, <1>11, <1>12 DEF Next, Refresh, Clone, Watch

\* The invariant is one.
LEMMA InvariantHolds == Spec => []IInv
<1>1. IInv /\ [Next]_vars => IInv'
  BY TypeStep, CacheStep, ReviewStep DEF IInv
<1>. QED
  BY <1>1, InitIInv, PTL DEF Spec

\* The variables of the server keep their types, and a refresh holds its lock
\* from acquireLock to releaseLock, unless its process dies.
THEOREM PromptsTypeCorrect == Spec => []TypeOK
<1>1. IInv => TypeOK
  BY DEF IInv
<1>. QED
  BY <1>1, InvariantHolds, PTL

\* A review reads, through getPromptPath, only what an allowed signer signed.
THEOREM ReviewsReadSignedPrompts == Spec => []PromptsAreVerified
<1>1. IInv => PromptsAreVerified
  BY DEF IInv, ReviewInv, PromptsAreVerified
<1>. QED
  BY <1>1, InvariantHolds, PTL

\* Wherever a refresh is cut off, there is a cache to go on from if there was one.
THEOREM CacheSurvives == Spec => CacheIsNotLost
<1>1. ASSUME IInv, [Next]_vars, root # NoDir \/ old # NoDir
      PROVE  root' # NoDir \/ old' # NoDir
  <2>. USE <1>1 DEF IInv
  <2>0. root \in DirType /\ NoDir.head \notin Commits /\ Signed \subseteq Commits /\ tip \in Commits
    BY CommitsAssumption, NoDirType DEF TypeOK
  <2>1. CASE Checkout \/ CheckoutDone
    <3>1. root.head \in Commits /\ job.got \in Commits
      BY <2>0, <2>1 DEF Checkout, CheckoutDone, JobInv
    <3>2. root'.head \in Commits
      BY <2>0, <2>1, <3>1 DEF Checkout, CheckoutDone, DirType
    <3>. QED
      BY <2>0, <3>2
  <2>2. CASE SwapOut
    BY <2>0, <2>2 DEF SwapOut, JobInv
  <2>3. CASE SwapIn \/ Place
    BY <2>0, <2>3 DEF SwapIn, Place, JobInv
  <2>4. CASE SwapFails
    BY <2>0, <2>4 DEF SwapFails, JobInv
  <2>5. CASE Tidy
    BY <2>0, <2>5 DEF Tidy, JobInv
  <2>6. CASE UNCHANGED <<root, old>>
    BY <1>1, <2>6
  <2>. QED
    BY <1>1, <2>1, <2>2, <2>3, <2>4, <2>5, <2>6
    DEF Next, Refresh, Push, Deliver, LoseDelivery, Fetch, InPlaceFails, Clone, CloneFails, Boot, Poll,
        Watch, WindowEnds, LockAges, Die, RestartWorkers, Stop, Choose, Read, Answer, StartRefresh, disk, vars
<1>2. IInv /\ [Next]_vars => [(root # NoDir \/ old # NoDir) => (root' # NoDir \/ old' # NoDir)]_vars
  BY <1>1
<1>. QED
  BY <1>2, InvariantHolds, PTL DEF Spec, CacheIsNotLost
=============================================================================
