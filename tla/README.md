# A verification project for stamp-cli

stamp-cli lets the reviewers of a repository (language models with prompts that
the repository itself carries) approve a merge, signs what they approved into the
merge commit, and makes a git server refuse every push that is not stamped so.
This directory holds TLA+ models of the parts of it that have state and run
concurrently, the TLC configurations that check them on small instances, and
proofs, checked by TLAPS, of what matters most for every value of the constants.

    tlc -workers 2 -config Review.cfg MCReview     # one run
    tlapm ReviewProofs.tla                         # one module of proofs

Paths below are relative to `src/src/` unless they begin with `src/`.

## 1. Inventory

### 1.1 The parts that run a protocol

**Merge lock** (`lib/mergeLock.ts`).  *State*: one lock file under the git common
directory, holding {pid, host, startedAt}.  *Operations*: exclusive create, write
of the record, judgement of a holder (dead pid, other host, older than staleSec),
unlink by path, retry, release.  *Interaction*: every `stamp merge` of every
worktree.  *Hard*: create and write are two system calls, judging and unlinking
are two more, and unlinking names a path and not the file that was judged.
*Correct when*: two merges are inside only if a lock was stolen; a killed holder
blocks nobody.

**stamp merge** (`commands/merge.ts`).  *State*: the target branch, the checkout,
the reviews table, the rule read from the config.  *Operations*: preflight, gate,
confirmation, `git merge`, required checks, trailers and signature by
`git commit --amend`, rollback by `git reset --hard`.  *Interaction*: merge lock,
reviews, feature branches that move meanwhile.  *Hard*: the time between the
merge and the amend (checks run for minutes), kills in it, failing rollbacks,
state read before the lock and used under it.  *Correct when*: a stamp describes
the commit that carries it, nothing unsigned stays, no other merge undoes it.

**Local reviews and prune** (`commands/review.ts`, `lib/reviewScope.ts`,
`lib/db.ts`, `commands/prune.ts`).  *State*: `state.db`, shared by all worktrees of
a clone: the rows of reviews and the watermark of the verdict cache.  *Operations*:
replay from the cache, choice of the previous round, narrowing of the diff to the
delta since then, recording; deletion by age, expiry of prose, the watermark.
*Hard*: rows of sibling branches in the same table, amended heads, a merge base
that moves, runs that overlap, a prune under a run.  *Correct when*: an open gate
means that the whole diff was seen to be clean, whatever each round showed.

**Reviewer seats** (`lib/serverDb.ts`).  *State*: two seats per patch, each a holder
and a timestamp.  *Operations*: claim (a transaction), heartbeat, release, sweep.
*Correct when*: two different people, neither the author, and nobody loses a seat
while alive.

**Reviewer listener** (`commands/prListen.ts`, `lib/seatClient.ts`,
`server/http-server.ts`).  *State*: an event queue, the seat it believes to hold,
heartbeats under way.  *Hard*: lost answers of calls that were carried out, late
ones, suspension past the TTL, a crash with a seat held, re-review requests.
*Correct when*: who works under a seat has it; an unused seat becomes free.

**Push gate** (`hooks/pre-receive.ts`, `lib/v4Trust.ts`, `lib/attestationV4.ts`).
*State*: the refs of the bare repository; each hook's reading of the old tip.
*Hard*: several refs in one push, concurrent pushes verified against the same tip,
rules and keys read from one commit and used after others have landed.
*Correct when*: whatever sequence of pushes, a protected branch only moves over
commits verified under the rule and keys of the very tip it moved from.

**Mirror** (`hooks/post-receive.ts`).  *State*: GitHub's refs and commit statuses.
*Hard*: two sessions mirror one branch, pushes are neither forced nor retried.
*Correct when*: GitHub has the last tip, or that push failed and said so.

**Membership** (`lib/userOps.ts`, `server/users-cli.ts`, `server/mint-invite.ts`,
`server/http-server.ts`).  *State*: tables users, invites, retired_short_names.
*Hard*: each SSH verb is a process; counts, checks and writes are separate
statements; the server may die between using a token and inserting its user.
*Correct when*: the last owner stays, a token enrolls one person, nobody becomes an
operator without an owner's doing.

**Prompts cache and its refresh** (`server/prompts-cache.ts`,
`server/prompts-cache-bootstrap.ts`, `server/http-server.ts`).  *State*: a checkout, `.tmp`,
`.old`, a lock file, a trigger file.  *Hard*: death at every step of a refresh,
lost webhooks, a cache filled before signatures were demanded, reviews that read
while it changes.  *Correct when*: only signed prompts are read, the cache is never
lost, and it catches up.

**Server review pipeline** (`server/stamp-review.ts`, `server/reviewPipeline.ts`,
`lib/serverDb.ts`, `lib/reviewSigningKey.ts`).  *State*: token buckets, the verdict cache,
two prompt files, a key in two files.  *Operations*: authorise, spend a token, read the
diff and the prompt, look up, ask the model, record, have a root helper sign; at
every boot mint the key or rewrite its public half.  *Hard*: each call is a process;
prompts, grants and keys change under it, the model fails or never answers, the
clock is set back.  *Correct when*: no caller exceeds the cap, a signed verdict is the
model's on just that diff and prompt, under the key it names, and every call ends.

**PR attestations and counter-signatures** (`commands/attest.ts`,
`commands/verifyPr.ts`, `commands/adminSign.ts`, `lib/trustAnchor*.ts`).  *State*: the
approvals in each clone, notes with admins' signatures, envelopes under
`refs/stamp/attestations/<patch-id>`.  *Operations*: review, admin sign, attest
(two kinds of envelope), push, verify.  *Hard*: the target advances, the branch is
amended and rebased, clones are behind, keys rotate, signatures are collected from
several clones.  *Correct when*: a green pull request had all its edits approved and
counter-signed, and what attest writes is accepted.

**Peer events** (`server/pr-opened.ts`, `server/http-server.ts`,
`server/peerReviews.ts`).  *State*: patches, an event table, open streams, the poll worker's
cursor.  *Operations*: announce a patch, poll, fan out, re-review request, sweep.
*Hard*: the announcing process is another one than the one that polls; streams are
replaced and their close callbacks come late; grants change in the middle of a tick;
a tick fails.  *Correct when*: one announcement per patch, written to every stream that is
served and entitled and to no other.

**Provisioning** (`commands/provision.ts`, `commands/bootstrap.ts`,
`lib/ghRuleset.ts`, `lib/mirrorKeyRotation.ts`, `commands/serverRepo.ts`).  *State*: the server's
bare repository and key, the GitHub mirror with its deploy keys and ruleset, the clone.
*Operations*: provision, bootstrap, migrate-existing, migrate-bypass, delete,
restore.  *Hard*: three places without a transaction; failures that are warned about
and passed over; a command that dies and is run again.  *Correct when*: what a
command reports done is done everywhere.

How they interact: a developer runs **reviews**, whose rows the gate of **merge**
reads under the **merge lock**; the stamped commit goes through the **push gate**
and from there to the **mirror**, both of which **provisioning** sets up.  With a
server, approvals come from its **review pipeline**, which reads its prompts from the
**prompts cache**; people come in through **membership**; a change is announced by
**peer events** and reviewed by **listeners** under **seats**.  In PR mode the
approvals end in an **attestation** instead of a stamped merge.

### 1.2 The other parts

PROJECT.json lists every part with the reason why it is not modelled, and
section 8 sums them up.  Cryptography is abstract throughout: a signature verifies
or not.

## 2. Plan

Order, and what depends on what:

| # | module | composes | status |
|---|---|---|---|
| 1 | `MergeLock` | | modelled, checked, safety proved |
| 2 | `Merge`, `MergeProofs` | `MergeLock` (EXTENDS) | modelled, checked, safety proved |
| 3 | `TwoSeats` (abstract), `Seats` | `Seats` implements `TwoSeats` | modelled, checked, proved |
| 4 | `PeerReview`, `PeerReviewProofs` | `Seats` (EXTENDS) | modelled, checked, safety proved |
| 5 | `PushGate`, `PushGateProofs` | both hooks around git's ref update | modelled, checked, safety proved |
| 6 | `Members`, `MembersProofs` | | modelled, checked, safety proved |
| 7 | `Prompts`, `PromptsProofs` | boot, workers, reviews around one cache | modelled, checked, safety proved |
| 8 | `Review`, `ReviewProofs` | reviews, prune and merges around one table | modelled, checked, safety proved |
| 9 | `PeerEvents` | pr-opened, the HTTP server with its poll worker and streams, the sweep; the source of the events that `PeerReview` takes as given | modelled, checked, safety proved (in `PeerReviewProofs`) |
| 10 | `ServerReview`, `ServerReviewProofs` | review processes, the boot, the sweep around one database; its prompts are those of `Prompts` | modelled, checked, safety proved |
| 11 | `PrAttestation`, `PrAttestationProofs` | attest, admin sign and verify-pr in two clones | modelled, checked, proved |
| 12 | `Provision` | provision, bootstrap, migrations, server repository verbs | modelled, checked, safety proved (in `PushGateProofs`) |

Abstract specifications worth stating besides `TwoSeats`: a verified history (what
`PushGate` promises of one protected branch), and a channel that loses no event
(what `PeerEvents` promises under `EventsReachTheStreams`).

## 3. The modules

Each definition that models code is listed in PROJECT.json under "map" with the
lines it stands for.  A definition whose comment begins "A slip of X" is a mutated
X: no action uses it, and it records which mistake each property would notice.

**MergeLock.**  One action per system call: `OpenExclusive`, `WriteRecord`,
`ReadRecord`, `JudgeHolder`, `UnlinkStale`, `Release`.  The lock file is the inode of
its creator; time is one bit per invocation (`overdue`: started more than staleSec
ago); a kill is possible anywhere.  `robbed` is a history variable: the
invocations whose file another one unlinked while they relied on it.

**Merge** extends it with the git state.  The target branch is the sequence of
its first-parent commits, so that `git merge` appends, `commit --amend` replaces
the last element *whatever it is*, and `reset --hard` restores a prefix.  The
ghosts `moved` and `orphaned` name the circumstances the properties except: the
branch advanced after it had been resolved, a process was killed in the window.
The content of trailers is reduced to who stamped what with which approvals.

**TwoSeats, Seats, PeerReview.**  `Seats` has the two columns of a patch row and the
functions that write them, with the age of a seat capped just above the TTL.
`TwoSeats` promises a set of at most two holders without the author.  `PeerReview`
puts listeners around `Seats`: a call whose connection breaks counts as failed for
its caller and stays in `late`, from where the server may still carry it out or
not; heartbeats are sent without waiting.  `Interrupt` is the start of shutdown(), which
awaits the release of the seat while the review under it goes on: `leaving` says how
far that call is, `Exit` is its answer, or the end of the event loop, whichever comes
first.  `evicted` records a listener's own silence past the TTL and an old release of
its own that came in late.  `Gone` names listeners that died for
good with a claim under way: their seat is held by nobody.

**PushGate.**  The commit graph is a constant: trees (rules, keys, manifest, repo
id, mirrored refs) and trailers.  A session passes its list of commands through
`Gate` (one ref after the other, all before any ref moves), then `Update` (git's
compare-and-swap, and receive.denyNonFastForwards, which `scripts/setup-repo.sh`
sets), then `MirrorPush`, `MirrorFails` or `SkipMirror` and `PostStatuses`.
`VerifyCommit` is the conjunction of the phases.  Not modelled: refs other than
heads and tags, which the hook lets through; an unreadable config; GitHub's own
protections.

**Members.**  One action per SQL statement outside of a transaction: `LookUp`,
`JudgeRole`, `WriteRole`, `JudgeRemove`, `WriteRemove`, `Retire`, and so on; a verb can die
between any two.  The HTTP server accepts one invite at a time (its handler does
not await between `Consume`, `Insert` and `Mark`) but can die in between.

**Prompts.**  A checkout is three numbers: the commit HEAD names, and of which
commit the two files are that a review may read; so a half-finished
`git checkout` is a state of its own.  Refreshes are synchronous and hold the lock
file; the boot, the poll and the webhook start them; each step may be the last
before a death.  A dead stamp-workers is run again in place, without a boot
(`RestartWorkers`).  A review chooses its path, and reads it, in two steps.

**Review.**  Commits, their parents, trees and lines are constants.  Reviewers are
diligent: one objects to exactly the `Bad` contents it is shown, and keeps, as the
ratchet instruction asks, the earlier objections it is told of and that are still
there.  So whatever goes wrong is the fault of what the rounds show.  A run
reads the table once (`StartReview`) and inserts its rows one by one later (`Record`),
so other runs, commits, merges and prunes come in between.  `lost` is a git call
that fails while the previous round is looked for.

**ServerReview.**  A call is a process with a control point and locals: `Start`,
`TakeToken`, `ReadDiff`, `ReadPrompt`, `LookUp`, `Answer` or `NoAnswer`, `Record`, `Sign`.
Everything else happens between any two of them: `Grant`, `EditPrompts`,
`ReplaceKey`, `Sweep`, `Tick` and `SetBack` of the wall clock, `Crash`, and `BootKey` and
`BootPub`, the two file writes of the boot.  The bucket counts in parts of 1/`Hour`, so
that the refill is exact.  `said` and `signed` are histories: what the model said of
which diff under which prompt, and every approval ever signed.

**PrAttestation.**  A commit is the set of edits it makes on top of its fork, so that a
rebase or a squash has the same patch-id, as in git; the target is 0 .. `MaxMain` and
`Configs` is what `.stamp/` says at each of its commits.  A clone has its own
approvals, notes and view of the target.  `Review`, `AdminSign`, `ReadTip`, `Write`,
`PushBoth` are the commands (`ReadTip` and `Write` the two halves of attest between
which the target may move); `MintServer` and `MintBootstrap` build the envelope; `Green`
is verify-pr.  `agreed` is the history of what each admin put a signature under.

**PeerEvents.**  `Check`, `Insert` and `AppendEvent` are the three statements of pr-opened,
`PollStart`, `CallerFor`, `PollClient`, `PollRow` and `PollFails` the steps of a tick, between which
other processes act.  A stream is opened by `Connect`, which replaces the one before,
whose callback `Closed` comes any time later.  `sse` and `listener` are the server's two
registries; `told` and `asked` are histories.

**Provision.**  One action per call to the server, to GitHub or to git.  A call
fails, or (GitHub) is carried out and its answer lost; a command may die at any
step and another one is run.  What .stamp/ the commits of a main carry is one of real
reviewers, the placeholder, or nothing (`Carried`): `stamp init` can leave each behind, and
`--migrate-existing` takes them all.  `EditMirror`, `ReplaceServerKey`, `RemoveClone`, `DeleteRepo` and
`RestoreRepo` happen in between.  `report` is what the last command printed as done,
cleared as soon as anyone disturbs what it is about.

## 4. What the runs check

Symmetry is used for interchangeable sessions or reviewers only, and in runs
without liveness.  `CHECK_DEADLOCK FALSE` is set where the system may come to rest:
invocations that have ended, listeners without events, reviews at the bound.

| run | distinct states | shows |
|---|---|---|
| `MergeLock.cfg` | 150,101 | the lock is exclusive unless a file was unlinked by another; a lock left behind does not block |
| `Merge.cfg` | 1,903,670 | stamps describe their merges; nothing unsigned stays; stamped merges are kept |
| `PeerReview.cfg` | 350,759 | who works under a seat has it, up to the exceptions it names; reviewers are independent; unused seats become free; no live seat is taken; the table implements `TwoSeats` |
| `PushGate.cfg` | 566,379 | protected branches move over verified commits; tags stay in history; the mirror is in step |
| `Members.cfg` | 1,911,267 | an invite enrolls one person; the last owner stays; no operators without an owner |
| `MembersOwner.cfg` | violation | two verbs at once leave no owner (5.1) |
| `Prompts.cfg` | 74,976 | reviews read signed prompts; the cache survives and catches up |
| `Review.cfg` | 241,625 | an open gate means a clean diff; rounds start at own work only |
| `ServerReview.cfg` | 366,823 | the cap holds; signed verdicts are the model's, under the key they name; calls end |
| `PrAttestation.cfg` | 1,106,281 | a green pull request is approved and counter-signed in full; what attest writes is accepted |
| `PeerEvents.cfg` | 545,005 | one announcement per patch; it reaches who is entitled and nobody else; the newest stream is served |
| `Provision.cfg` | 2,209,894 | what a command reports done is done |

**Bounds, and why they are enough.**

- `MergeLock`: three invocations, because the thief of a stale lock can itself be
  robbed by a third that judged earlier (which `ExclusionUnlessRobbed` excuses, like
  every theft; what it shows is that there is no other way in); two hosts, one slow invocation, two turns
  of the retry loop (`MaxRetries`): the first judges, the second gives up.
- `Merge`: two invocations of one branch with up to two commits that adds a
  required reviewer: the second merge sees the first one's commit, rule and base.
- `PeerReview`: three reviewers for two seats, so that the table fills up and one
  posts as an extra: one reliable, one that loses connections, is interrupted, dies and restarts, one
  that died with its claim under way; TTL 0 ticks (a heartbeat counts in the tick it
  arrives in, every silence may be too long); one re-review request (`MaxAsks`).
- `PushGate`: two sessions and fifteen commits: racing merges, a merge of another
  one's result, an unstamped merge below a stamped one, a v3 stamp, a rotation of
  keys, a commit attributed to an AI, a push of a branch together with a tag,
  deletions; `MaxOutages` 1: one mirror call that fails.
- `Members`: three people and names, one invite, three rows (`MaxId`); one verb at a
  time, for a second one breaks `OwnerRemains` (that is run `MembersOwner`).
- `Prompts`: three commits, the middle one unsigned and the last without the
  repository's own prompt: signed after unsigned, and a file that vanishes.
  `MaxDeaths` 2: a death, and another in the recovery from it.
- `ServerReview`: two calls (`MaxCalls`) of one member over one diff, so that they race for
  one token and one cache row; `MemberCap` 1, `Hour` 2 and `MaxNow` 2: the bucket is
  empty after one call, refilled by half, and full again; `Retention` 1: a row expires
  under a call; two prompts, two keys, and `MaxEvents` 2 of what operators do.
- `PrAttestation`: two clones, of which one can be behind; a branch with a commit under
  the path rule, one beside it, both, the rebase of the first, and an activation; a
  target that advances once; three configurations (a reviewer with one signature and
  a key rotated by the advance, two signatures without a reviewer, a strict base);
  one review, three signatures, moves or pushes (`MaxEvents`).
- `PeerEvents`: two callers of one patch, one of whom listens with two streams in turn;
  two events, and `PollLimit` 2, so that a tick may have both and fails before, between
  and after them (no tick is cut short by the limit here; the theorems hold for any);
  `Retention` 0 and `MaxNow` 1: rows expire under a verb; one change of grants or
  enrolment; one failed tick or one restart (`MaxFaults`) of a server that is up at first.
- `Provision`: three commands in a row (`MaxCalls`): one that dies, its repetition, and
  one that builds on both; three disturbances (`MaxEvents`); two keys, the server's and
  an older or foreign one; repositories of a person and of an organization, with each
  kind of .stamp/ committed, with and without a ruleset and a key on GitHub.
- `Review`: a branch of three commits, one of them amended, and a sibling; two runs;
  three rows (`MaxRows`): a first round, a second narrowed to the delta, and one that
  is replayed or narrowed in turn.

**Fairness.**  `MergeLock`: a running invocation goes on (WF on the steps of each
process; none on kills, disk faults or the passing of time).  `PeerReview`: the
clock and the sweep's interval timer; nothing of listeners, the network or the author.
`Prompts`: WF on the steps of a refresh, on the poll and the ageing of a lock file, which
are timers, on `RestartWorkers`, since `_supervise` (`src/server/entrypoint.sh:442-453`)
runs stamp-workers again whenever it ends, and on `Boot`, which assumes that the platform
starts a container that is down.  SF on the git calls of a refresh says that git does
not fail for ever.  `ServerReview`: WF on the steps of a call, among them `NoAnswer`,
because the request to the model has a timeout; nothing makes the model answer, and
`Answer` has no fairness.  That `ReadDiff` ends is an assumption about the client and
sshd: the server reads its input without a timeout (`server/stamp-review.ts:306`).
`PeerEvents`: WF on the poll, whose timer is an interval and whose ticks do not await;
none on streams, callers or administrators.  The other modules check safety only.

`ServerReview`, `PrAttestation`, `PeerEvents` and `Provision` define no type
invariant: their values are checked by what they do.  The proofs of the first two
have one of their own (`Typed`).

## 5. Where code and words differ

### 5.1 Found by a run

- **Last owner** (`MembersOwner`): `lib/userOps.ts:22-25` says that any operation that
  would leave zero owners is refused; owners are counted in one statement and roles
  written in another, so a demotion that overlaps a prune leaves no owner.

### 5.2 Seen while modelling, without a run of their own

The model of the part has each of these behaviours; what its properties say
excepts them, or does not speak of them.

Local:

- *The lock's create and write* (`lib/mergeLock.ts:108`): a contender that
  reads between them finds an empty file and judges it stale, so even two merges
  on one host can be inside together; `ExclusionUnlessRobbed` says that this theft is
  the only way, and so does not notice it, nor that a healthy merge slower than
  staleSec is robbed (line 244) and unlinks the thief's file.
- *Merge by name* (`commands/merge.ts:309`): `git merge <branch>` names the branch
  after its tip was resolved and gated; a commit in between is merged under a
  stamp for the older head.  `StampDescribesMerge` excepts `moved` for this.
- *Rule before lock* (`commands/merge.ts:126`): the config is loaded before the lock
  is taken, so that a rule tightened by the merge before is not applied.
- *Nothing to merge* (`commands/merge.ts:458`): with no reviewer required, merging what
  is already merged amends the commit at the tip.

Peers and members:

- *Shutdown* (`commands/prListen.ts:885`): the header (line 38) has SIGINT release any held
  seat and exit; the review goes on while the release is awaited, and may be posted
  under a seat that is free, or another's, by then.
- *Suspended* (`commands/prListen.ts:1426`): a listener that was silent past the TTL posts
  its review all the same.  `SeatIsBacked` excepts this and *Shutdown*.
- *Re-review* (`lib/serverDb.ts:517`): `docs/peer-review-validation.md:248` has the seat
  holders review again; their listener runs the same claim as for a first review
  (`commands/prListen.ts:1282`) and the server refuses whoever holds a seat.
- *Third review* (`lib/serverDb.ts:664`): a posted review keeps its seat without
  heartbeats; it expires, and a third primary review can be made.
- *Fingerprints* (`server/http-server.ts:2666`): `--reviewer` names are resolved to SSH
  fingerprints, the seats hold stamp-key fingerprints: a filtered request
  reaches nobody.
- *Twice told* (`server/http-server.ts:1546`): the row of a re-review request is also
  polled, to everyone who may see the repository.
- *Ping* (`commands/prPing.ts`): the patch id of a re-review request is computed from the
  new head, under which no patch is registered.
- *Announced but not* (`server/pr-opened.ts:282`): a verb that dies between the row of
  the patch and the event answers its repetition with `already_broadcast`.
- *Missed* (`server/http-server.ts:1606`): the poll worker starts at the newest event, so
  that what was announced while the server was down reaches nobody.
- *No timeout* (`lib/seatClient.ts:96`): a call that hangs stops the event loop.
- *Removal* (`lib/userOps.ts:194`): invites refer to users without ON DELETE (and foreign
  keys are on, `lib/serverDb.ts:140`) and are never deleted, so that removing who
  minted or accepted one throws, though `docs/quickstart-server.md:33` says to.

Gate, server and PR mode:

- *Keys of the tip* (`hooks/post-receive.ts:349`): the gate verifies a merge with its
  base's keys, the status is decided with the tip's; a merge that rotates its
  signer's key is accepted and marked as a failure.
- *Protection that changes* (`hooks/pre-receive.ts:417`): the gate lets a tag in if it
  is in the history of a branch that the default branch's config protects just
  then.  A push that lands meanwhile, or later, can take the protection from that
  branch, and the tag is left outside of all protected history.  `TagsStayInHistory`
  is therefore stated, checked and proved for a protection that stays
  (`SteadyProtection`).
- *Schema 4* (`lib/attestationV4.ts:55`): comments send schema 4 to the v4 phases, the
  hook to the v3 ones.
- *Fallback* (`server/prompts-cache.ts:309`): the path of a prompt is chosen by existsSync, so
  a checkout cut off, or in progress, makes a review use the default prompt.
- *Workers* (`server/start-workers.ts:40`): the comment has dead workers stay away until
  the next redeployment; the entrypoint's loop runs them again after five seconds.
- *Coalescing* (`server/http-server.ts:596`): a delivery within five seconds of an earlier one is
  dropped, and the branch that would run a trailing refresh cannot be reached,
  since refreshes block; the poll brings the change in.
- *Already signed* (`commands/adminSign.ts:429`): an admin's signature in the note is taken
  as done although the approvals it covers changed; attest and verify-pr then drop it
  (`lib/trustAnchorCollection.ts:274`), and admin sign does not repair it.
- *First parent* (`commands/adminSign.ts:360`): the base signed is the head's first parent
  in one mode and the merge base in the other (`lib/trustAnchorPayload.ts:4-8`).
- *Guessed target* (`commands/adminSign.ts:774`): without `--into` the target is guessed;
  a signature over another target never counts.
- *Whose approvals* (`lib/db.ts:505`): approvals carry the time they were issued and live in
  one clone's database, so an admin's clone signs a payload of its own, which
  matches the operator's only if the rows were shared.
- *Activation* (`docs/migration-1.x-to-2.x.md:377`): what it says of the bootstrap payload
  is not what `lib/migrationBootstrap.ts:439-464` matches.
- *Raw SHA* (`lib/reviewScope.ts:60`): a comment says that a raw SHA has no branch; the
  code takes the branch checked out.  `Review` with `RawShas = TRUE` violates
  `OwnChangesOnly`; the theorem assumes it FALSE.
- *No prose* (`commands/review.ts:997`): lines 164-165 say that `--no-prose` affects neither
  verdict nor gate; it stores no objection, the next round sees the delta only and is
  told nothing, so the gate opens on the code objected to.  `Review` with
  `KeepsProse = {FALSE}` violates `OpenGateIsClean`, and so do prune's prose TTL and
  one-shot back ends; the theorem assumes all three away.
- *Prune under a run* (`commands/prune.ts:170`): a run that had a cache hit records the
  old verdict after the watermark has moved; a prune that dies between
  deleting and marking leaves the watermark for good.  Neither opens a gate.
- *Back ends* (`lib/db.ts:765`): the previous round is not asked for its back end, so a
  strong model is shown the delta since a weak one's round.
- *Migrated* (`commands/provision.ts:1055`): the headline is "migrated to server-gated"
  although a `.stamp/config.yml` in the work tree is enough (886-894, 937): where the commits
  carry none, or `stamp init --minimal`'s placeholder, the server's main requires no real
  reviewer.  `Migrated` says what is so: the server's main carries what the clone's does.
- *Only by the key* (`commands/provision.ts:1522`): with `--remove-orgadmin` the list is said to
  bypass only via the deploy key; a `User` actor, which `stamp init` puts there for a
  personal repository, is kept (`lib/ghRuleset.ts:1033`, and `docs/github-ruleset-setup.md:64`
  says so).  `Bypassed` excepts it, and nothing else.
- *Swapped key* (`commands/provision.ts:1287`): a command that dies between deleting the
  mirror's deploy key and registering the new one leaves nothing to compare with, so
  its repetition registers what the server says, which lines 1252-1253 rule out.
- *No comparison* (`lib/ghRuleset.ts:476`): a lookup of the deploy key that fails is taken
  as none, and a second key is registered under the same title.
- *Half renamed* (`commands/provision.ts:854`): after a death between renaming and adding a
  remote, the next run says that the migration is done already (927-931).
- *Bootstrap again* (`commands/provision.ts:339`): after a push that failed, the command
  it tells to repeat refuses; the way out it prints (`commands/bootstrap.ts:297`)
  deletes the branch that holds `mirror.yml`.

## 6. What is proved

Every theorem is about any value of the module's constants that satisfies the
assumptions named in it (`SeatsAssumption`, `GraphAssumption` and so on; TLC evaluates
them on the instances).  The third column is what a theorem assumes beyond that.

| theorem | shows | further hypothesis |
|---|---|---|
| `LockTypeCorrect`, `ExclusiveUnlessRobbed` (MergeProofs) | one invocation inside unless a lock was stolen | |
| `MergeTypeCorrect`, `NothingUnsigned` (MergeProofs) | no unsigned merge is left | |
| `StampsDescribe`, `StampedMergesKept` (MergeProofs) | a stamp is of its merge; no stamped merge is undone | some reviewer is required |
| `SeatsTypeCorrect`, `ReviewersAreIndependent`, `LiveSeatsAreKept`, `SeatsKeepPromise` (PeerReviewProofs) | the table by itself, and that it implements `TwoSeats` | |
| `ListenersTypeCorrect`, `ListenersKeepThePromise`, `WorkIsBacked` (PeerReviewProofs) | the same among listeners that crash and repeat calls; who works under a seat has it, but for silence, a late release and a shutdown | |
| `EventsBelong`, `NewestServed`, `OnlyEntitled` (PeerReviewProofs) | a patch is announced once; the newest stream is served; only the entitled are told | |
| `GateTypeCorrect`, `ProtectedBranchesAreVerified`, `MirrorFollows` (PushGateProofs) | protected branches move over verified commits; the mirror is in step | |
| `TagsAreInHistory` (PushGateProofs) | tags stay in protected history | `SteadyProtection` |
| `ReportsAreTrue` (PushGateProofs) | what a provisioning command reports done is done, as far as 5.2 lets it be | |
| `MembersTypeCorrect`, `TokensEnrollOnce` (MembersProofs) | references and unique columns; one person for each token; any number of verbs at once | |
| `LastOwnerStays`, `OperatorsComeFromOwners` (MembersProofs) | the last owner stays; no operators without an owner | one verb at a time (`OneAtATime`) |
| `PromptsTypeCorrect`, `ReviewsReadSignedPrompts`, `CacheSurvives` (PromptsProofs) | signed prompts only; the cache is not lost | |
| `ReviewTypeCorrect` (ReviewProofs) | | |
| `ApprovedDiffsAreClean`, `NarrowedToOwnWork` (ReviewProofs) | an open gate means a clean diff; rounds start at own work | `FullMemory`; no raw SHAs |
| `CapIsKept`, `VerdictsAreTheModels`, `ApprovalsNameTheirKey` (ServerReviewProofs) | the cap holds; a signed verdict is the model's, under the key it names | |
| `GreenWasReviewed`, `GreenWasCounterSigned`, `MintedEnvelopesAreAccepted` (PrAttestationProofs) | all edits of a green pull request are approved and counter-signed; what attest writes is accepted | |

**Arguments.**

- *Lock.*  Exclusion is not inductive by itself: that two invocations do not both
  hold says nothing of a third that is about to create the file.  `Owned` does: an
  invocation that relies on its lock file and was not robbed of it still finds it
  at the path, so an exclusive create cannot succeed beside it.
- *Merge.*  The properties speak of the finished branch; `MergeInv` adds what the
  holder of the lock knows on the way there.  `Resolved`: until it merges, base and
  head are those of the live branch.  `Merged`: between merge and amend the branch is
  what it was plus one unsigned merge of that head, so an amend and a rollback
  touch this commit and no other.  `Locked` brings in the lock: whoever else is past
  the acquire loop has been robbed, or has robbed.  All of it is about runs in which no
  lock was lost (`robbed`), as the properties are.  Without a required reviewer the
  amend can go to somebody else's merge (5.2, *Nothing to merge*).
- *Seats.*  The types already say that holder and age are set together;
  independence follows since a claim is refused to a holder and to the author.
  The refinement maps `holders` to the set of the two columns and treats each
  function as one abstract step or a stutter; capacity is a fact about the
  cardinality of a set of at most two.
- *Listeners.*  Every step of a listener that touches the table is one of `Seats`, so
  what holds of the table holds among listeners (`ListenersFollowTheTable`, a step
  simulation).  `SeatIsBacked` is inductive with the types: a claim fills a free seat and
  evicts nobody, a release empties one's own seat, and that of a listener at work is
  either shutdown()'s (`leaving`) or a late one (`evicted`); the sweep takes a relied-on seat
  only after a silence, which `evicted` records.
- *Event bus.*  `Announced`: between the two statements of a verb its patch is there, is its
  own, is of this moment and has no announcement.  The sweep in between leaves it alone
  since it is not old, so neither statement can be overtaken.  `Served`: whoever is served is served
  through his newest stream; a stream whose user the poll found gone stays without one,
  for the ids of rows only grow and a new row is not the one the stream stands for.
  `TickRemembers`: whatever a tick still holds of a subscriber, who may have lost his role
  since, was true after the tick began, and `lawful` collects what was.
- *Push gate.*  The hook verifies long before git moves the ref.  `SessionsAreGated`
  says of each command still to be applied that it was verified against
  `c.old`; `RefMoves` then demands that `c.old` is the live tip.  A property
  of the refs alone says nothing of the hooks' old reading and is not inductive.
  *Tags* (`TagInv`): a tag about to be set was in the history of a branch at its gate;
  this stays so because the gate creates no branch and deletes no protected one
  (`Fitting`) and git only moves branches forward.  *Mirror* (`MirrorInv`): for each tip
  GitHub has it, or its push failed, or a session has it still to send.  The step that
  needs thought is the push of an older tip by a slower session: what landed
  is behind the tip (`LandedIsBehind`), so GitHub, which refuses to move back, ignores it;
  this uses that ancestry is antisymmetric.
- *Members.*  `MembersInv` is the foreign keys and what each session holds between its
  statements; a DELETE that others refer to fails, so no reference dangles.
  `TokensPay`: the rows inserted, and one more between the use of a token and its
  insert, are no more than the tokens used.  `OwnerInv`, for the two properties that
  fail when verbs overlap: what the session has read still stands, because meanwhile
  only an accept writes, and it adds rows that are not owners; and whoever minted an
  invite for an admin was an owner.
- *Prompts.*  `CleanInv`: where a checkout's HEAD is a signed commit its files are, and so
  they are in a server that is up; `JobInv`: what a refresh relies on at each step.
  `CacheSurvives` needs the latter to know that a swap has something to put in.
- *Review.*  `HonestInv`: the prose of a row, and of a verdict not yet recorded, is
  exactly what one reading of its whole diff would object to.  A delta keeps this, for
  what the diff adds is either in the delta or was there when the previous round
  read it (`DeltaOrBefore`), and an old objection that is still there is part of the
  new diff (`StillThere`).  It needs `FullMemory`: no one-shot back ends, no
  `--no-prose`, no prose TTL; each of them alone has a counterexample.
  `OwnInv`: a row that names a branch has a head the branch was at.

- *Server review.*  `Funded`: the last n calls of a caller cost no more than what the
  bucket was filled with since, less what is in it; the cap over any window follows.
  The arithmetic is of products of variables, so it is done in lemmas of its own.
  `CallsAreSaid` carries a verdict from the model, or the cache, to the signature.
- *Attestations.*  `InOrder(p, e)`: the envelope under patch-id p names a span with these
  edits, its approvals are what the server said of them and its signatures what an
  admin agreed to.  The verifier finds an envelope by the patch-id of the pull
  request: the commits may differ, the edits cannot.  `HistoryAssumption` says that a head has
  edits of its own and forks from a commit of the target.
- *Provisioning.*  `CommandInv` says at each step of a command what it has established so
  far: which steps belong to which command (`StepInv`), how far the bootstrap is, where
  mirror.yml has got to, what is at the mirror.  `OwnMirrorInv`: a provision made its
  mirror itself, so a key found there is the server's, and a ruleset found there is
  its own, which is why the two answers of the final verification are enough.
  `BypassInv`: the key that a bypass works with is the server's or one its lookup had
  missed (`blind`), and of the other actors it leaves the owner's only.  `MigrateInv`: from
  the tarball on, the server's main carries what the clone's does.  It is inductive
  because a death throws the locals away: the next command relies on nothing before it.

**Only model-checked.**  Liveness (`CrashedHolderDoesNotBlock`, `UnusedSeatIsFreed`,
`CatchesUp`, `CallEnds`, `EventsReachTheStreams`): the prover does neither fairness
nor ENABLED.  Every invariant and action property of a passing run is stated by a theorem.
Induction over data and RECURSIVE operators are out of its reach: the
models take ancestry as a constant (`PushGate`) or keep it opaque in proofs
(`Review`, whose `Ancestors` is a recursive function).

## 7. Abstractions to keep in mind

- `Merge` and `Review` have linear feature branches that do not merge the target
  into themselves; a diff is a set of changed files with their contents.
- `Review` orders rows by id, where the code orders by created_at (seconds) and
  then id, and the watermark is the newest id, where the code compares times
  strictly: both only lead to more misses of the cache.  The limit of 25 candidates
  is not reached.  The order in which a run records its rows is free.
  Reviewers with tools could read more than they are shown; diligent ones
  here judge what they are shown.
- `PushGate`: tags that are older than the gate are not seeded.  The tag gate reads the
  default branch's config and the branch gate its own tree, as in the code.
- `Prompts`: a server without an allowed-signers file verifies nothing, and the poll
  can be switched off; both configurations are left out.  A git child of a stamp-workers
  that is killed is taken to die with it.
- `PushGate`: a session that is killed between the update of a ref and the mirror push is
  left out; post-receive has no memory, so the mirror then waits for the next push.
- `PeerReview`: a second SIGINT is left out, and a SIGINT that finds no seat is a death.
- `Seats`: every statement names one patch, so one row stands for all.
- `ServerReview`: one diff stands for all that are not equal to it, `Cut` for what is
  left of one whose upload broke off; last_seen_at and usage figures are left out.
- `PrAttestation`: the hash of a diff, the manifest's snapshot and the schema are functions
  of base, head and target; the binding to a repository and v2 envelopes are left
  out, no check is required, a note is read and written in one step, and the
  capability of an admin is the only one a rule asks for.  Envelopes are those attest
  writes: verify-pr finds one by its ref and does not compare its patch_id.
- `PeerEvents`: one org; rate limits, parsing and scrubbing only decide whether an event is
  made; the handler of a re-review request is one step.
- `Provision`: one command at a time; the scripts on the server are single steps; which
  branches the ruleset covers and its bypass modes are left out, and so are bootstrap's
  `--force`, `--from` and `--no-push` and a placeholder that is not committed (bootstrap
  makes its branch for it and fails at the merge); the key is compared
  only if its lookup succeeded and it is the only one of its title (`blind`
  otherwise).

## 8. Not modelled, and why

The map covers about a fifth of the implementation's lines.  The rest is of five
kinds, none of which has states that interleave:

- *Wiring and texts*: `index.ts` (options of every command), the messages, hints,
  dry runs and reports that make up half of most commands, `ui.tsx`, `agentsMd.ts`,
  `prviewDocument.ts`.
- *Parsing and canonical forms*: `config.ts`, `userConfig.ts`, attestation formats,
  keys and certificates, ref patterns, attribution.  Their results are constants or
  free choices of the models.
- *Language models*: `reviewer.ts`, `oneShotReview.ts` and their tool policies.  A session is
  one conversation whose verdict is arbitrary; `Review` and `ServerReview` have what
  is done with it.
- *Rewriting of files in a working tree*, which its user commits or throws away:
  `init.ts`, `migrateServerAttested.ts`, `reviewers.ts`, `adminRotate.ts`, `trust.ts`.
- *One request and its answer*: `users.ts`, `invites.ts`, `prOpen.ts`, `sshReviewClient.ts`;
  the server's side of each is modelled.  So are the decisions per SSH connection
  (`lib/sshGate.ts`, `server/require-role.ts`), which are one read of the users table.
