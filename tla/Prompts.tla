------------------------------ MODULE Prompts ------------------------------
(***************************************************************************)
(* The cache of reviewer prompts on the stamp server: a git checkout that  *)
(* the boot and then stamp-workers refresh from the prompts repository     *)
(* (src/server/prompts-cache.ts), while the stamp-review verbs of SSH      *)
(* sessions read files out of it.  One process refreshes at a time and     *)
(* blocks on git, but it can die at every step of a refresh.               *)
(***************************************************************************)
EXTENDS Integers

CONSTANTS
    LastCommit,   \* the commits of the prompts repository are 1..LastCommit
    Signed,       \* those signed by an allowed signer
    Override,     \* those that hold a prompt for the repository under review
    Reviews,      \* stamp-review sessions
    MaxDeaths     \* bound on the deaths of processes

Commits == 1..LastCommit
ASSUME CommitsAssumption ==
    LastCommit \in Nat \ {0} /\ Signed \subseteq Commits /\ Override \subseteq Commits
ASSUME DeathsAssumption == MaxDeaths \in Nat

None == 0

VARIABLES
    tip,       \* the tracked ref of the prompts repository
    sent,      \* a webhook delivery is on its way
    root, tmp, old,   \* <cacheRoot>, .tmp and .old: a checkout, or NoDir
    lock,      \* <cacheRoot>.refresh.lock: "none", "fresh", or "stale" (over 5 minutes)
    phase,     \* of the container: "down", "boot", "up"
    workers,   \* stamp-workers is alive
    job,       \* the refresh under way
    trigger,   \* the trigger file was replaced and the watcher has not seen it
    window,    \* a webhook started a refresh less than 5 seconds ago
    review,    \* what each stamp-review session is at
    deaths

vars == <<tip, sent, root, tmp, old, lock, phase, workers, job, trigger, window, review, deaths>>
disk == <<root, tmp, old>>
server == <<phase, workers, trigger, window>>

\* A checkout: the commit of HEAD, and of which commit the files are that a
\* review may read, the repository's own prompt and the one for all.
NoDir == [head |-> None, over |-> None, dflt |-> None]
OverOf(c) == IF c \in Override THEN c ELSE None
Whole(c) == [head |-> c, over |-> OverOf(c), dflt |-> c]

NoJob == [pc |-> "none", by |-> "none", got |-> None]
NoReview == [pc |-> "idle", path |-> "none", at |-> None]

\* The cache may have been filled before signatures were required.
Init ==
    /\ tip \in Commits
    /\ \E c \in Commits : root \in {NoDir, Whole(c)}
    /\ tmp = NoDir /\ old = NoDir
    /\ sent = FALSE /\ trigger = FALSE /\ window = FALSE
    /\ lock = "none" /\ phase = "down" /\ workers = FALSE
    /\ job = NoJob /\ deaths = 0
    /\ review = [r \in Reviews |-> NoReview]

-----------------------------------------------------------------------------
(* The prompts repository and its webhook                                   *)

Push ==
    /\ tip < LastCommit
    /\ tip' = tip + 1 /\ sent' = TRUE
    /\ UNCHANGED <<disk, lock, server, job, review, deaths>>

\* handleWebhookPrompts: the listener replaces the trigger file.
Deliver ==
    /\ sent /\ phase = "up"
    /\ sent' = FALSE /\ trigger' = TRUE
    /\ UNCHANGED <<tip, disk, lock, phase, workers, window, job, review, deaths>>

\* The delivery never comes, or is answered with an error.
LoseDelivery ==
    /\ sent
    /\ sent' = FALSE
    /\ UNCHANGED <<tip, disk, lock, server, job, review, deaths>>

-----------------------------------------------------------------------------
(* cloneOrFetchPromptsCache *)

\* acquireLock
LockFree == lock \in {"none", "stale"}

\* A slip of StartRefresh: the lock file is not created.
StartRefreshUnlocked(by) ==
    /\ LockFree
    /\ tmp' = NoDir
    /\ job' = [pc |-> IF root = NoDir THEN "clone" ELSE "fetch", by |-> by, got |-> None]
    /\ UNCHANGED <<root, old, lock>>

\* The lock is taken, and what an earlier refresh left in .tmp is removed.
StartRefresh(by) ==
    /\ LockFree
    /\ lock' = "fresh" /\ tmp' = NoDir
    /\ job' = [pc |-> IF root = NoDir THEN "clone" ELSE "fetch", by |-> by, got |-> None]
    /\ UNCHANGED <<root, old>>

Goto(pc) == job' = [job EXCEPT !.pc = pc]

\* What a refresh that ends does to the boot; the workers only log it.
EndBoot(ok) ==
    IF job.by # "boot" THEN UNCHANGED server
    ELSE /\ phase' = IF ok THEN "up" ELSE "down"
         /\ workers' = ok /\ trigger' = FALSE /\ window' = FALSE

\* A slip of MayKeep: any cache is good enough.
MayKeepAny(dir) == dir # NoDir

\* The boot keeps a cache whose own HEAD verifies when the new tip is refused.
MayKeep(dir) == dir # NoDir /\ dir.head \in Signed

End(ok) == lock' = "none" /\ job' = NoJob /\ EndBoot(ok)

\* verifyPromptsCommit
Verified(c) == c \in Signed

\* git fetch, then the fetched tip is verified before the tree is touched.
Fetch ==
    /\ job.pc = "fetch"
    /\ job' = IF Verified(tip) THEN [job EXCEPT !.pc = "checkout", !.got = tip]
              ELSE [job EXCEPT !.pc = "clone"]
    /\ UNCHANGED <<tip, sent, disk, lock, server, review, deaths>>

\* git removes a file that differs before it writes the new one; HEAD comes last.
Checkout ==
    /\ job.pc \in {"checkout", "write"}
    /\ \/ /\ job.pc = "checkout" /\ root.over # OverOf(job.got)
          /\ root' = [root EXCEPT !.over = None]
          /\ Goto("write")
       \/ /\ job.pc = "write"
          /\ root' = [root EXCEPT !.over = OverOf(job.got)]
          /\ Goto("checkout")
       \/ /\ job.pc = "checkout" /\ root.over = OverOf(job.got) /\ root.dflt # job.got
          /\ root' = [root EXCEPT !.dflt = job.got]
          /\ UNCHANGED job
    /\ UNCHANGED <<tip, sent, tmp, old, lock, server, review, deaths>>

CheckoutDone ==
    /\ job.pc = "checkout" /\ root.over = OverOf(job.got) /\ root.dflt = job.got
    /\ root' = [root EXCEPT !.head = job.got]
    /\ End(TRUE)
    /\ UNCHANGED <<tip, sent, tmp, old, review, deaths>>

\* Anything that fails in place is answered by a rebuild.
InPlaceFails ==
    /\ job.pc \in {"fetch", "checkout", "write"}
    /\ Goto("clone")
    /\ UNCHANGED <<tip, sent, disk, lock, server, review, deaths>>

\* git clone into .tmp; a tip that does not verify ends the refresh.
Clone ==
    /\ job.pc = "clone"
    /\ tmp' = Whole(tip)
    /\ \/ /\ Verified(tip)
          /\ Goto(IF root = NoDir THEN "place" ELSE "swap_out")
          /\ UNCHANGED <<lock, server>>
       \/ /\ ~Verified(tip)
          /\ End(MayKeep(root))
    /\ UNCHANGED <<tip, sent, root, old, review, deaths>>

CloneFails ==
    /\ job.pc = "clone"
    /\ End(FALSE)
    /\ UNCHANGED <<tip, sent, disk, review, deaths>>

\* A slip of SwapOut: the old cache is removed to make room.
SwapOutRemoving ==
    /\ job.pc = "swap_out"
    /\ root' = NoDir /\ old' = NoDir
    /\ Goto("swap_in")
    /\ UNCHANGED <<tip, sent, tmp, lock, server, review, deaths>>

\* rm -rf .old; rename cacheRoot to .old.  The removal of an older .old is not
\* a step of its own: while it lasts cacheRoot is in place.
SwapOut ==
    /\ job.pc = "swap_out"
    /\ old' = root /\ root' = NoDir
    /\ Goto("swap_in")
    /\ UNCHANGED <<tip, sent, tmp, lock, server, review, deaths>>

\* rename .tmp to cacheRoot; where there was a cache, .old is then removed.
SwapIn ==
    /\ job.pc = "swap_in"
    /\ root' = tmp /\ tmp' = NoDir
    /\ Goto("tidy")
    /\ UNCHANGED <<tip, sent, old, lock, server, review, deaths>>

SwapFails ==
    /\ job.pc = "swap_in"
    /\ root' = old /\ old' = NoDir
    /\ End(FALSE)
    /\ UNCHANGED <<tip, sent, tmp, review, deaths>>

Tidy ==
    /\ job.pc = "tidy"
    /\ old' = NoDir
    /\ End(TRUE)
    /\ UNCHANGED <<tip, sent, root, tmp, review, deaths>>

Place ==
    /\ job.pc = "place"
    /\ root' = tmp /\ tmp' = NoDir
    /\ End(TRUE)
    /\ UNCHANGED <<tip, sent, old, review, deaths>>

-----------------------------------------------------------------------------
(* Who asks for a refresh *)

\* entrypoint.sh runs the bootstrap, which fails while the lock is fresh; the
\* platform restarts a boot that failed.
Boot ==
    /\ phase = "down"
    /\ phase' = "boot" /\ UNCHANGED <<workers, trigger, window>>
    /\ StartRefresh("boot")
    /\ UNCHANGED <<tip, sent, review, deaths>>

\* A slip of Poll: a tick that finds a cache leaves it to the webhook.
PollWithoutCache ==
    /\ phase = "up" /\ workers /\ job = NoJob /\ root = NoDir
    /\ StartRefresh("poll")
    /\ UNCHANGED <<tip, sent, server, review, deaths>>

\* runPollTick
Poll ==
    /\ phase = "up" /\ workers /\ job = NoJob
    /\ StartRefresh("poll")
    /\ UNCHANGED <<tip, sent, server, review, deaths>>

\* The watcher of the trigger file, and scheduleWebhookRefresh.  Refreshes
\* block the process, so none is ever in flight when it is called.
Watch ==
    /\ phase = "up" /\ workers /\ job = NoJob /\ trigger
    /\ trigger' = FALSE /\ UNCHANGED <<phase, workers>>
    /\ \/ /\ ~window /\ window' = TRUE
          /\ StartRefresh("hook")
       \/ /\ window /\ UNCHANGED <<window, disk, lock, job>>
    /\ UNCHANGED <<tip, sent, review, deaths>>

WindowEnds ==
    /\ window
    /\ window' = FALSE
    /\ UNCHANGED <<tip, sent, disk, lock, phase, workers, trigger, job, review, deaths>>

LockAges ==
    /\ lock = "fresh" /\ job = NoJob
    /\ lock' = "stale"
    /\ UNCHANGED <<tip, sent, disk, server, job, review, deaths>>

\* The container stops.
Stop ==
    /\ phase' = "down" /\ workers' = FALSE /\ trigger' = FALSE /\ window' = FALSE
    /\ job' = NoJob
    /\ review' = [r \in Reviews |-> NoReview]
    /\ UNCHANGED <<tip, sent, disk, lock>>

\* The container stops, or stamp-workers alone dies, in a refresh or between two.
Die ==
    /\ deaths < MaxDeaths /\ deaths' = deaths + 1
    /\ \/ phase # "down" /\ Stop
       \/ /\ phase = "up" /\ workers
          /\ workers' = FALSE /\ job' = NoJob /\ window' = FALSE
          /\ UNCHANGED <<tip, sent, disk, lock, phase, trigger, review>>

\* _supervise runs stamp-workers again in place: no boot, and nothing verifies the
\* cache.  Its watcher takes the trigger file as it finds it, so that what was
\* delivered since the death goes unseen; the lock file stays until it ages.
RestartWorkers ==
    /\ phase = "up" /\ ~workers
    /\ workers' = TRUE /\ trigger' = FALSE
    /\ UNCHANGED <<tip, sent, disk, lock, phase, window, job, review, deaths>>

-----------------------------------------------------------------------------
(* fetchCanonicalPrompt, of a stamp-review session *)

\* getPromptPath, for a caller who may or may not use the repository's prompt.
Choose(r) ==
    /\ phase = "up" /\ review[r].pc = "idle"
    /\ \E granted \in BOOLEAN :
          /\ granted \/ root.over = None   \* else the review is refused
          /\ review' = [review EXCEPT ![r] =
                [pc |-> "read", path |-> IF root.over # None THEN "over" ELSE "dflt", at |-> None]]
    /\ UNCHANGED <<tip, sent, disk, lock, server, job, deaths>>

\* readFileSync; a file that is gone fails the review.
Read(r) ==
    /\ review[r].pc = "read"
    /\ LET at == IF review[r].path = "over" THEN root.over ELSE root.dflt IN
        review' = [review EXCEPT ![r] =
            IF at = None THEN NoReview ELSE [pc |-> "prompted", path |-> review[r].path, at |-> at]]
    /\ UNCHANGED <<tip, sent, disk, lock, server, job, deaths>>

\* The review is signed, and the session over.
Answer(r) ==
    /\ review[r].pc = "prompted"
    /\ review' = [review EXCEPT ![r] = NoReview]
    /\ UNCHANGED <<tip, sent, disk, lock, server, job, deaths>>

-----------------------------------------------------------------------------

Refresh == Fetch \/ Checkout \/ CheckoutDone \/ InPlaceFails \/ Clone \/ CloneFails
           \/ SwapOut \/ SwapIn \/ SwapFails \/ Tidy \/ Place

Next ==
    \/ Push \/ Deliver \/ LoseDelivery
    \/ Refresh
    \/ Boot \/ Poll \/ Watch \/ WindowEnds \/ LockAges \/ Die \/ RestartWorkers
    \/ \E r \in Reviews : Choose(r) \/ Read(r) \/ Answer(r)

Spec == Init /\ [][Next]_vars

\* A refresh goes on, a lock ages, the poll comes round; the container platform
\* boots a container that is down, the restart loop of the entrypoint runs
\* stamp-workers again; and git does not fail for ever.
Fairness ==
    /\ WF_vars(Refresh) /\ SF_vars(Fetch) /\ SF_vars(CheckoutDone) /\ SF_vars(Clone) /\ SF_vars(SwapIn)
    /\ WF_vars(Boot) /\ WF_vars(Poll) /\ WF_vars(LockAges) /\ WF_vars(RestartWorkers)

FairSpec == Spec /\ Fairness

-----------------------------------------------------------------------------
(* Properties *)

DirType == [head : Commits \cup {None}, over : Commits \cup {None}, dflt : Commits \cup {None}]
JobType == [pc : {"none", "fetch", "checkout", "write", "clone", "swap_out", "swap_in", "tidy", "place"},
            by : {"none", "boot", "poll", "hook"}, got : Commits \cup {None}]
ReviewType == [pc : {"idle", "read", "prompted"}, path : {"none", "over", "dflt"},
               at : Commits \cup {None}]

\* The variables have their types; a job runs in a live process and holds the
\* lock, and its steps find the directories they need.
TypeOK ==
    /\ tip \in Commits /\ sent \in BOOLEAN /\ trigger \in BOOLEAN /\ window \in BOOLEAN
    /\ root \in DirType /\ tmp \in DirType /\ old \in DirType
    /\ lock \in {"none", "fresh", "stale"} /\ phase \in {"down", "boot", "up"}
    /\ workers \in BOOLEAN /\ deaths \in 0..MaxDeaths
    /\ job \in JobType
    /\ job = NoJob \/ (lock = "fresh" /\ phase # "down")
    /\ review \in [Reviews -> ReviewType]

\* "A refused tip never reaches the cache": a review is prompted with the bytes
\* of a signed commit, whatever the cache held before signatures were required
\* and wherever a refresh was cut off.
PromptsAreVerified ==
    \A r \in Reviews : review[r].pc = "prompted" => review[r].at \in Signed

\* A refresh that is cut off leaves a complete earlier cache to recover from.
CacheIsNotLost ==
    [][(root # NoDir \/ old # NoDir) => (root' # NoDir \/ old' # NoDir)]_vars

\* "The poll is the correctness guarantee": when the ref comes to rest at a
\* signed commit, that is what the cache comes to hold, with every delivery
\* lost, processes dying and git failing on the way.
CatchesUp ==
    \A c \in Signed : <>[](tip = c) => /\ []<>(root = Whole(c))
                                       /\ <>[](root \in {NoDir, Whole(c)} /\ phase = "up")
=============================================================================
