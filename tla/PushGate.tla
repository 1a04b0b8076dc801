------------------------------ MODULE PushGate ------------------------------
(***************************************************************************)
(* A bare repository on the stamp server: concurrent pushes, the           *)
(* pre-receive hook (src/hooks/pre-receive.ts with the verification phases *)
(* of src/lib/v4Trust.ts), git's update of the refs, and the post-receive  *)
(* hook that mirrors them to GitHub (src/hooks/post-receive.ts).           *)
(*                                                                         *)
(* The commit graph is a constant: what commits there are, what their      *)
(* trees say under .stamp/, and what their trailers claim.  A push names   *)
(* any of them.  Signatures are abstracted to whether they verify.         *)
(***************************************************************************)
EXTENDS Integers, Sequences, FiniteSets

CONSTANTS
    Sessions,    \* concurrent push sessions
    Branches, Default,    \* refs/heads/*, and the one that HEAD names
    Tags,
    Commits, NoCommit,
    Parents,     \* [Commits -> Seq(Commits)], the first parent first
    Ancestors,   \* [Commits -> SUBSET Commits]: git merge-base --is-ancestor
    Chain,       \* [Commits -> SUBSET Commits]: git rev-list --first-parent
    MergeBase,   \* [Commits \X Commits -> Commits]
    Tree,        \* [Commits -> TreeType]: what is under .stamp/
    Trailer,     \* [Commits -> TrailerType \cup {NoTrailer}]
    NoTrailer,
    Keys, Reviewers, RepoIds,
    Attributed,  \* commits whose message attributes them to an AI agent
    NoRule,
    Initial,     \* [Branches -> Commits]: as the operator seeded them
    Pushes,      \* the pushes clients make: sequences of [ref, new]
    MaxOutages   \* bound on the mirror pushes that fail

Refs == Branches \cup Tags

\* .stamp/config.yml (branches, path_rules, repo_id,
\* commit_policy), .stamp/trusted-keys/*.pub,
\* the manifest beside them, and .stamp/mirror.yml.
TreeType ==
    [rules     : [Branches -> SUBSET Reviewers \cup {NoRule}],
     pathRules : [signatures : Nat, bypass : BOOLEAN] \cup {NoRule},
     repoId    : SUBSET RepoIds,
     keys      : SUBSET Keys,
     manifest  : [Keys -> SUBSET {"admin", "operator", "server"}],
     forbidAI  : BOOLEAN,
     mirrored  : SUBSET Refs]

\* Stamp-Payload and Stamp-Verified.  genuine: the outer signature verifies.
\* Each approval is [reviewer, key, repoId, fits], where fits says that its body
\* is about this base, head, target branch and diff and that key signed it.
TrailerType ==
    [schema    : 2..5,
     base      : Commits, head : Commits, target : Branches,
     signer    : Keys, genuine : BOOLEAN,
     approvals : SUBSET [reviewer : Reviewers, key : Keys,
                         repoId : SUBSET RepoIds, fits : BOOLEAN],
     checks    : BOOLEAN,      \* required checks attested with exit code 0
     snapshot  : [Keys -> SUBSET {"admin", "operator", "server"}],
     admins    : SUBSET Keys,  \* whose trust-anchor signatures verify
     touches   : BOOLEAN]      \* base...head touches a path of the path rule

ASSUME RefsAssumption == Default \in Branches /\ Branches \cap Tags = {}
ASSUME GraphAssumption ==
    /\ NoCommit \notin Commits
    /\ Parents \in [Commits -> Seq(Commits)]
    /\ Ancestors \in [Commits -> SUBSET Commits]
    /\ \A c \in Commits : c \in Ancestors[c]
    /\ \A c, d \in Commits : d \in Ancestors[c] => Ancestors[d] \subseteq Ancestors[c]
    /\ \A c, d \in Commits : d \in Ancestors[c] /\ c \in Ancestors[d] => c = d
    /\ Chain \in [Commits -> SUBSET Commits]
    /\ \A c \in Commits : c \in Chain[c] /\ Chain[c] \subseteq Ancestors[c]
    /\ MergeBase \in [Commits \X Commits -> Commits]
ASSUME ContentAssumption ==
    /\ Tree \in [Commits -> TreeType]
    /\ Attributed \subseteq Commits
    /\ Trailer \in [Commits -> TrailerType \cup {NoTrailer}]
ASSUME InitialAssumption == Initial \in [Branches -> Commits]
ASSUME PushesAssumption ==
    Pushes \subseteq Seq([ref : Refs, new : Commits \cup {NoCommit}]) \ {<<>>}
ASSUME OutagesAssumption == MaxOutages \in Nat

VARIABLES
    ref,       \* the refs of the bare repository
    pc,        \* where each session is: idle, gate, update, mirror
    cmds,      \* its commands [ref, old, new]; old as git advertised it
    pos,       \* the command it is at
    landed,    \* the commands whose ref was updated: post-receive's stdin
    mirror,    \* the refs on GitHub
    status,    \* the stamp/verified status of each commit on GitHub
    unsent,    \* commands whose mirror push failed
    outages

vars == <<ref, pc, cmds, pos, landed, mirror, status, unsent, outages>>

Init ==
    /\ ref = [r \in Refs |-> IF r \in Branches THEN Initial[r] ELSE NoCommit]
    /\ pc = [s \in Sessions |-> "idle"]
    /\ cmds = [s \in Sessions |-> <<>>]
    /\ pos = [s \in Sessions |-> 1]
    /\ landed = [s \in Sessions |-> <<>>]
    /\ mirror = ref
    /\ status = [c \in Commits |-> "none"]
    /\ unsent = {}
    /\ outages = 0

-----------------------------------------------------------------------------
(* pre-receive, commit by commit *)

IsAncestor(c, d) == c \in Ancestors[d]

\* rev-list --first-parent old..new
NewCommits(old, new) == Chain[new] \ Ancestors[old]

\* verifyMergeStructure and verifyV4MergeStructure
MergeStructure(c) ==
    /\ Len(Parents[c]) = 2
    /\ Parents[c][2] = Trailer[c].head
    /\ MergeBase[Parents[c]] = Trailer[c].base

Approved(c) == {a.reviewer : a \in Trailer[c].approvals}

\* COMMIT_PHASES, with the rule and the keys of the tree at old.
VerifyV3(c, b, old) ==
    LET t == Trailer[c] IN
    /\ MergeStructure(c)
    /\ t.target = b
    /\ t.signer \in Tree[old].keys /\ t.genuine
    /\ Tree[old].rules[b] \subseteq Approved(c)
    /\ t.checks
    /\ t.schema >= 3
    /\ \A a \in t.approvals : a.fits

\* verifyV4SignerTrust
SignerTrusted(c) ==
    LET base == Tree[Trailer[c].base] IN
    /\ base.manifest[Trailer[c].signer] \cap {"admin", "operator"} # {}
    /\ Trailer[c].signer \in base.keys

\* verifyV4DiffHash and verifyV4ApprovalSignatures
ApprovalsSigned(c) ==
    LET base == Tree[Trailer[c].base] IN
    \A a \in Trailer[c].approvals :
        a.fits /\ "server" \in base.manifest[a.key] /\ a.key \in base.keys

\* resolveRepoBinding and verifyV4RepoBinding: an id declared at the tip or at
\* the base binds every approval.
RepoBound(c, old) ==
    LET accepted == Tree[old].repoId \cup Tree[Trailer[c].base].repoId IN
    accepted # {} => \A a \in Trailer[c].approvals : a.repoId \cap accepted # {}

\* verifyV4TrustAnchorSignatures and verifyV4StampPathsGuard
AdminsTrusted(c) ==
    LET base == Tree[Trailer[c].base] IN
    \A k \in Trailer[c].admins : "admin" \in base.manifest[k] /\ k \in base.keys

PathsGuarded(c) ==
    LET rule == Tree[Trailer[c].base].pathRules IN
    rule # NoRule /\ Trailer[c].touches =>
        /\ Cardinality(Trailer[c].admins) >= rule.signatures
        /\ rule.bypass \/ Trailer[c].approvals # {}

\* COMMIT_PHASES_V4: rule and repo_id come from old, all else from base_sha.
VerifyV4(c, b, old) ==
    LET t == Trailer[c] IN
    /\ MergeStructure(c)
    /\ t.target = b
    /\ SignerTrusted(c) /\ t.genuine
    /\ t.snapshot = Tree[t.base].manifest
    /\ Tree[old].rules[b] \subseteq Approved(c)
    /\ ApprovalsSigned(c)
    /\ RepoBound(c, old)
    /\ t.checks
    /\ AdminsTrusted(c)
    /\ PathsGuarded(c)

\* verifyCommit: a payload of schema 4 is judged by the v3 phases.
VerifyCommit(c, b, old) ==
    /\ Trailer[c] # NoTrailer
    /\ IF Trailer[c].schema >= 5 THEN VerifyV4(c, b, old) ELSE VerifyV3(c, b, old)

-----------------------------------------------------------------------------
(* pre-receive, ref by ref *)

Rule(c, b) == Tree[c].rules[b]
Present == {r \in Refs : ref[r] # NoCommit}

\* verifyAttributionPolicy: the commits that no ref of the repository has yet.
Introduced(new) == Ancestors[new] \ UNION {Ancestors[ref[r]] : r \in Present}
AttributionAllowed(c) == Tree[c.old].forbidAI => Introduced(c.new) \cap Attributed = {}

\* A slip of BranchUpdateAllowed: only the tip is verified.
BranchUpdateTipOnly(c) ==
    /\ c.old # NoCommit
    /\ AttributionAllowed(c)
    /\ Rule(c.old, c.ref) # NoRule =>
        /\ IsAncestor(c.old, c.new)
        /\ ref[c.ref] # NoCommit => IsAncestor(ref[c.ref], c.new)
        /\ VerifyCommit(c.new, c.ref, c.old)

\* The update of a branch.  Rules and keys are read at the tip git advertised;
\* the tip of this moment is only asked for the fast-forward.
BranchUpdateAllowed(c) ==
    /\ c.old # NoCommit
    /\ AttributionAllowed(c)
    /\ Rule(c.old, c.ref) # NoRule =>
        /\ IsAncestor(c.old, c.new)
        /\ ref[c.ref] # NoCommit => IsAncestor(ref[c.ref], c.new)
        /\ \A d \in NewCommits(c.old, c.new) : VerifyCommit(d, c.ref, c.old)

\* A slip of BranchDeletionAllowed: the default branch's config is not asked.
BranchDeletionByOwnRule(c) == c.old # NoCommit => Rule(c.old, c.ref) = NoRule

\* verifyDeletion: protected by its own tree's config or by the default's.
BranchDeletionAllowed(c) ==
    /\ c.old # NoCommit => Rule(c.old, c.ref) = NoRule
    /\ ref[Default] # NoCommit => Rule(ref[Default], c.ref) = NoRule

\* The branches that the default branch's config protects, and what they hold.
ProtectedBranches == {b \in Branches : Rule(ref[Default], b) # NoRule}
InProtectedHistory(c) ==
    \E b \in ProtectedBranches : ref[b] # NoCommit /\ IsAncestor(c, ref[b])

\* verifyTagPush and verifyTagDeletion
TagPushAllowed(c) == ref[Default] # NoCommit /\ InProtectedHistory(c.new)
TagDeletionAllowed(c) ==
    c.old = NoCommit \/ ref[Default] = NoCommit \/ ~InProtectedHistory(c.old)

\* verifyRef
RefAllowed(c) ==
    /\ c.new = NoCommit /\ c.ref \in Branches => BranchDeletionAllowed(c)
    /\ c.new = NoCommit /\ c.ref \in Tags     => TagDeletionAllowed(c)
    /\ c.new # NoCommit /\ c.ref \in Tags     => TagPushAllowed(c)
    /\ c.new # NoCommit /\ c.ref \in Branches => BranchUpdateAllowed(c)

\* The condition under which a tag cannot lose its branch: the default branch's
\* config protects the default branch, and the same branches at every commit
\* that can follow the first one.  The hook reads these rules when it gates, so
\* a branch protected only later, or no longer, may be deleted under a tag.
SteadyBranches == {b \in Branches : Rule(Initial[Default], b) # NoRule}
SteadyProtection ==
    /\ Default \in SteadyBranches
    /\ \A c \in Commits : IsAncestor(Initial[Default], c) =>
          {b \in Branches : Rule(c, b) # NoRule} = SteadyBranches

-----------------------------------------------------------------------------
(* A push session *)

\* git push: the client asks for the refs and sends those that differ.
Open(s, push) ==
    LET cmd(x) == [ref |-> x.ref, old |-> ref[x.ref], new |-> x.new]
    IN  /\ pc[s] = "idle"
        /\ \A i \in DOMAIN push : push[i].new # ref[push[i].ref]
        /\ cmds' = [cmds EXCEPT ![s] = [i \in DOMAIN push |-> cmd(push[i])]]
        /\ pos' = [pos EXCEPT ![s] = 1]
        /\ landed' = [landed EXCEPT ![s] = <<>>]
        /\ pc' = [pc EXCEPT ![s] = "gate"]
        /\ UNCHANGED <<ref, mirror, status, unsent, outages>>

\* A slip of Advance: one more than the list has.
AdvancePast(s, list, next) ==
    IF pos[s] <= Len(list)
    THEN pos' = [pos EXCEPT ![s] = @ + 1] /\ UNCHANGED pc
    ELSE pos' = [pos EXCEPT ![s] = 1] /\ pc' = [pc EXCEPT ![s] = next]

\* The session is at the end of list: go to the next phase.  Or it is not.
Advance(s, list, next) ==
    IF pos[s] < Len(list)
    THEN pos' = [pos EXCEPT ![s] = @ + 1] /\ UNCHANGED pc
    ELSE pos' = [pos EXCEPT ![s] = 1] /\ pc' = [pc EXCEPT ![s] = next]

\* main of pre-receive, one line of its stdin.  One refusal refuses them all.
Gate(s) ==
    /\ pc[s] = "gate"
    /\ \/ /\ RefAllowed(cmds[s][pos[s]])
          /\ Advance(s, cmds[s], "update")
       \/ /\ ~RefAllowed(cmds[s][pos[s]])
          /\ pc' = [pc EXCEPT ![s] = "idle"]
          /\ UNCHANGED pos
    /\ UNCHANGED <<ref, cmds, landed, mirror, status, unsent, outages>>

\* git moves one ref: only if it still has the old value, and a branch only
\* forward (receive.denyNonFastForwards).
RefMoves(c) ==
    /\ ref[c.ref] = c.old
    /\ c.ref \in Branches /\ c.new # NoCommit /\ c.old # NoCommit => IsAncestor(c.old, c.new)

Update(s) ==
    LET c == cmds[s][pos[s]] IN
    /\ pc[s] = "update"
    /\ \/ /\ RefMoves(c)
          /\ ref' = [ref EXCEPT ![c.ref] = c.new]
          /\ landed' = [landed EXCEPT ![s] = Append(@, c)]
       \/ ~RefMoves(c) /\ UNCHANGED <<ref, landed>>
    /\ Advance(s, cmds[s], IF landed'[s] = <<>> THEN "idle" ELSE "mirror")
    /\ UNCHANGED <<cmds, mirror, status, unsent, outages>>

\* main of post-receive: deletions are never mirrored; the config is read at
\* the commit pushed to a branch, and at the default branch for a tag.
Mirrored(c) ==
    /\ c.new # NoCommit
    /\ \/ c.ref \in Branches /\ c.ref \in Tree[c.new].mirrored
       \/ /\ c.ref \in Tags /\ ref[Default] # NoCommit
          /\ c.ref \in Tree[ref[Default]].mirrored

\* git push new:ref to GitHub, not forced.
MirrorAccepts(c) ==
    \/ mirror[c.ref] \in {NoCommit, c.new}
    \/ c.ref \in Branches /\ IsAncestor(mirror[c.ref], c.new)

SkipMirror(s) ==
    /\ pc[s] = "mirror"
    /\ ~Mirrored(landed[s][pos[s]])
    /\ Advance(s, landed[s], "idle")
    /\ UNCHANGED <<ref, cmds, landed, mirror, status, unsent, outages>>

\* A slip of MirrorPush: the push to the mirror is forced.
MirrorPushForced(s) ==
    LET c == landed[s][pos[s]] IN
    /\ pc[s] = "mirror"
    /\ Mirrored(c)
    /\ mirror' = [mirror EXCEPT ![c.ref] = c.new]
    /\ pc' = [pc EXCEPT ![s] = "post"]
    /\ UNCHANGED <<ref, cmds, pos, landed, status, unsent, outages>>

MirrorPush(s) ==
    LET c == landed[s][pos[s]] IN
    /\ pc[s] = "mirror"
    /\ Mirrored(c) /\ MirrorAccepts(c)
    /\ mirror' = [mirror EXCEPT ![c.ref] = c.new]
    /\ pc' = [pc EXCEPT ![s] = "post"]
    /\ UNCHANGED <<ref, cmds, pos, landed, status, unsent, outages>>

\* GitHub refuses the push, or cannot be reached: a warning, nothing is retried.
MirrorFails(s) ==
    LET c == landed[s][pos[s]] IN
    /\ pc[s] = "mirror"
    /\ Mirrored(c)
    /\ \/ ~MirrorAccepts(c) /\ UNCHANGED outages
       \/ outages < MaxOutages /\ outages' = outages + 1
    /\ unsent' = unsent \cup {c}
    /\ Advance(s, landed[s], "idle")
    /\ UNCHANGED <<ref, cmds, landed, mirror, status>>

\* decideMirrorStatus, with the keys of the tree that was pushed.
StatusOf(c, new) ==
    IF /\ Trailer[c] # NoTrailer
       /\ Trailer[c].signer \in Tree[new].keys
       /\ Trailer[c].genuine
    THEN "success" ELSE "failure"

\* postStatuses: one POST for every commit of the range, each of which may fail.
PostStatuses(s) ==
    LET c == landed[s][pos[s]]
        range == IF c.old = NoCommit \/ c.ref \in Tags THEN {c.new}
                 ELSE NewCommits(c.old, c.new)
    IN  /\ pc[s] = "post"
        /\ \E posted \in SUBSET range :
            /\ \/ posted = range /\ UNCHANGED outages
               \/ outages < MaxOutages /\ outages' = outages + 1
            /\ status' = [d \in Commits |->
                            IF d \in posted /\ Tree[c.new].keys # {}
                            THEN StatusOf(d, c.new) ELSE status[d]]
        /\ IF pos[s] < Len(landed[s])
           THEN pos' = [pos EXCEPT ![s] = @ + 1] /\ pc' = [pc EXCEPT ![s] = "mirror"]
           ELSE pos' = [pos EXCEPT ![s] = 1] /\ pc' = [pc EXCEPT ![s] = "idle"]
        /\ UNCHANGED <<ref, cmds, landed, mirror, unsent>>

Step(s) ==
    \/ Gate(s) \/ Update(s) \/ SkipMirror(s) \/ MirrorPush(s) \/ MirrorFails(s)
    \/ PostStatuses(s)

Next == \E s \in Sessions : Step(s) \/ \E push \in Pushes : Open(s, push)

Spec == Init /\ [][Next]_vars

-----------------------------------------------------------------------------

Commands == [ref : Refs, old : Commits \cup {NoCommit}, new : Commits \cup {NoCommit}]

TypeOK ==
    /\ ref \in [Refs -> Commits \cup {NoCommit}]
    /\ pc \in [Sessions -> {"idle", "gate", "update", "mirror", "post"}]
    /\ cmds \in [Sessions -> Seq(Commands)]
    /\ pos \in [Sessions -> Nat]
    /\ landed \in [Sessions -> Seq(Commands)]
    /\ \A s \in Sessions :
        /\ pc[s] \in {"gate", "update"} => pos[s] \in DOMAIN cmds[s]
        /\ pc[s] \in {"mirror", "post"} => pos[s] \in DOMAIN landed[s]
    /\ mirror \in [Refs -> Commits \cup {NoCommit}]
    /\ status \in [Commits -> {"none", "success", "failure"}]
    /\ unsent \subseteq Commands
    /\ outages \in 0..MaxOutages

\* A protected branch only moves forward, and over commits each of which the
\* gate has verified under the rule and the keys of the very tip it moves from,
\* however many pushes are under way.
ProtectedMovesAreVerified ==
    [][\A b \in Branches :
          /\ ref'[b] # ref[b]
          /\ ref[b] # NoCommit
          /\ Rule(ref[b], b) # NoRule
          => /\ ref'[b] # NoCommit
             /\ IsAncestor(ref[b], ref'[b])
             /\ \A c \in NewCommits(ref[b], ref'[b]) : VerifyCommit(c, b, ref[b])]_vars

\* A tag that a push created stays in the history of a branch: no branch that
\* holds it is deleted or rewound under it.
TagsStayInHistory ==
    \A t \in Tags : ref[t] # NoCommit =>
        \E b \in Branches : ref[b] # NoCommit /\ IsAncestor(ref[t], ref[b])

\* When no push is under way GitHub has the tip of every mirrored branch, unless
\* the push of that very tip has failed: however sessions overlap, the last
\* update of a branch is the last one sent.
MirrorInSync ==
    (\A s \in Sessions : pc[s] = "idle") =>
        \A b \in Branches :
            ref[b] # NoCommit /\ b \in Tree[ref[b]].mirrored =>
                \/ mirror[b] = ref[b]
                \/ \E x \in unsent : x.ref = b /\ x.new = ref[b]
=============================================================================
