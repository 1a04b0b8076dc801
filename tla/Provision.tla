----------------------------- MODULE Provision -----------------------------
(***************************************************************************)
(* `stamp provision` with its variants --migrate-existing and               *)
(* --migrate-bypass, and `stamp bootstrap`, which it ends with.  A command  *)
(* walks through three places that share no transaction, the stamp server,  *)
(* GitHub and the clone; any lookup or call may fail, GitHub's answer to a  *)
(* request may be lost, the command may die, and it is run again, one       *)
(* command at a time.  Administrators act in between.                       *)
(***************************************************************************)
EXTENDS Naturals, FiniteSets, FiniteSetsExt

CONSTANTS
    SshKeys, NoKey,
    NoId, NoRuleset,
    MaxCalls, MaxEvents

ASSUME ProvisionAssumption ==
    /\ NoKey \notin SshKeys /\ SshKeys # {} /\ NoId \notin Nat
    /\ MaxCalls \in Nat /\ MaxEvents \in Nat

VARIABLES
    org,        \* whether the mirror's owner is an organization
    repo,       \* the server's bare repository: what the commits of its main carry
    trash,      \* the copies of it that were deleted
    serverKey,  \* the server's deploy key for the repository
    hub,        \* the mirror: whether it exists, its deploy keys, its ruleset
    nextId,
    local,      \* the clone: its remotes, its branches, what its main's commits carry
    step, cmd,  \* the command under way and its locals
    report,     \* history: what the last command reported done, if none disturbed it
    calls, events

provisionVars == <<org, repo, trash, serverKey, hub, nextId, local, step, cmd, report, calls, events>>

-----------------------------------------------------------------------------
\* What .stamp/config.yml is in the commits of a main: the seed's or stamp init
\* --minimal's placeholder, real reviewers, or nothing ("plain"): stamp init
\* --no-bootstrap-commit leaves it in the work tree.
Carried == {"plain", "placeholder", "real"}

NoClone == [there |-> FALSE, origin |-> "none", github |-> FALSE, config |-> "none",
            head |-> "main", boot |-> FALSE, dirty |-> FALSE, yml |-> "none"]

\* A clone of what the server seeds: one reviewer, the placeholder "example".
Fresh == [NoClone EXCEPT !.there = TRUE, !.origin = "stamp", !.config = "placeholder"]

\* mirror.yml is in the work tree: untracked, or on the branch checked out.
HasYml == local.yml \in {"untracked", "main"} \/ (local.yml = "boot" /\ local.head = "boot")

NoCommand == [kind |-> "none", mirror |-> FALSE, guard |-> FALSE, replace |-> FALSE,
              expect |-> NoKey, removeOrgadmin |-> FALSE, keyId |-> NoId, blind |-> FALSE]

NoRepo == [main |-> "none", yml |-> FALSE]

Absent == [exists |-> FALSE, keys |-> {}, ruleset |-> NoRuleset]

OrgAdmin == [type |-> "OrganizationAdmin", id |-> NoId]
User == [type |-> "User", id |-> NoId]
DeployKey(i) == [type |-> "DeployKey", id |-> i]

\* Whom stamp init lets bypass the ruleset.
Owner == IF org THEN OrgAdmin ELSE User

Titled == {k \in hub.keys : k.title = "stamp-mirror"}

\* A gh query returns what is there, or null when it fails.
FindDeployKey ==
    {NoId} \cup (IF Titled = {} THEN {} ELSE {Min({k.id : k \in Titled})})

FindExistingStampRuleset == {NoRuleset, hub.ruleset}

ProvisionInit ==
    /\ org \in BOOLEAN /\ serverKey \in SshKeys
    /\ repo = NoRepo /\ trash = {}
    /\ \/ hub = Absent /\ local = NoClone
       \/ \* a repository on GitHub that stamp init has been run in, in any of its ways:
          \* its ruleset is the owner's, to which a deploy key may have been added since
          /\ \E carried \in Carried :
                local = [Fresh EXCEPT !.origin = "github", !.config = carried]
          /\ \E keys \in {{}} \cup {{[id |-> 1, title |-> "stamp-mirror", key |-> k]} : k \in SshKeys},
                actors \in {NoRuleset, {Owner}, {Owner, DeployKey(1)}} :
                hub = [exists |-> TRUE, keys |-> keys, ruleset |-> actors]
    /\ nextId = 2 /\ step = "idle" /\ cmd = NoCommand /\ report = NoCommand
    /\ calls = 0 /\ events = 0

Goto(from, to) == step = from /\ step' = to

\* A command ends with an error, or dies, leaving what it did.
End == step' = "idle" /\ cmd' = NoCommand /\ UNCHANGED report

Done == step' = "idle" /\ cmd' = NoCommand /\ report' = cmd

places == <<org, repo, trash, serverKey, hub, nextId, local>>

Die == step # "idle" /\ End /\ UNCHANGED <<places, calls, events>>

-----------------------------------------------------------------------------
(* stamp provision <name> *)

Start(command, first) ==
    /\ calls < MaxCalls /\ calls' = calls + 1
    /\ Goto("idle", first) /\ cmd' = command /\ report' = NoCommand
    /\ UNCHANGED <<places, events>>

Provision ==
    /\ ~local.there
    /\ \E mirror, guard \in BOOLEAN :
           Start([NoCommand EXCEPT !.kind = "provision", !.mirror = mirror,
                                   !.guard = mirror /\ guard], "bare")

\* new-stamp-repo refuses a name that is taken.
ProvisionBareRepoOnServer ==
    /\ Goto("bare", "clone") /\ repo.main = "none"
    /\ repo' = [main |-> "placeholder", yml |-> FALSE]
    /\ UNCHANGED <<org, trash, serverKey, hub, nextId, local, cmd, report, calls, events>>

Clone ==
    /\ Goto("clone", IF cmd.mirror THEN "create" ELSE "bootstrap")
    /\ local' = [Fresh EXCEPT !.config = repo.main]
    /\ UNCHANGED <<org, repo, trash, serverKey, hub, nextId, cmd, report, calls, events>>

\* gh repo create, then the remote, whose failure is a warning.
CreateGithubMirrorRepo ==
    /\ Goto("create", "yml") /\ ~hub.exists
    /\ hub' = [Absent EXCEPT !.exists = TRUE]
    /\ \E added \in BOOLEAN : local' = [local EXCEPT !.github = added]
    /\ UNCHANGED <<org, repo, trash, serverKey, nextId, cmd, report, calls, events>>

WriteMirrorYml ==
    /\ Goto("yml", IF cmd.guard THEN "ruleset"
                   ELSE IF cmd.kind = "provision" THEN "bootstrap" ELSE "success")
    /\ local' = [local EXCEPT !.yml = "untracked"]
    /\ UNCHANGED <<org, repo, trash, serverKey, hub, nextId, cmd, report, calls, events>>

-----------------------------------------------------------------------------
(* applyMirrorRuleset: whatever fails here is a warning, and the command goes on *)

AfterRuleset == IF cmd.kind = "provision" THEN "bootstrap" ELSE "success"

\* A ruleset that is there is left as it is; otherwise the owner and, for an
\* organization, the server's key are looked up.
ApplyMirrorRuleset ==
    /\ \E found \in FindExistingStampRuleset, known \in BOOLEAN :
           Goto("ruleset", IF found # NoRuleset \/ ~known THEN AfterRuleset
                           ELSE IF org THEN "register" ELSE "apply")
    /\ UNCHANGED <<places, cmd, report, calls, events>>

\* registerDeployKey: a key with the title is taken for the one; or it is posted,
\* which GitHub may do without our hearing of it, or refuse, as a key in use is.
Register(done, failed) ==
    \E found \in FindDeployKey :
        IF found # NoId
        THEN step' = done /\ cmd' = [cmd EXCEPT !.keyId = found] /\ UNCHANGED <<hub, nextId, report>>
        ELSE \/ /\ failed /\ UNCHANGED <<hub, nextId>>
             \/ /\ serverKey \notin {k.key : k \in hub.keys} /\ hub.exists
                /\ hub' = [hub EXCEPT !.keys = @ \cup
                       {[id |-> nextId, title |-> "stamp-mirror", key |-> serverKey]}]
                /\ nextId' = nextId + 1
                /\ \/ failed
                   \/ /\ step' = done /\ cmd' = [cmd EXCEPT !.keyId = nextId]
                      /\ UNCHANGED report

RegisterDeployKey ==
    /\ step = "register"
    /\ Register("apply", step' = AfterRuleset /\ UNCHANGED <<cmd, report>>)
    /\ UNCHANGED <<org, repo, trash, serverKey, local, calls, events>>

\* applyStampRuleset, for the key or for the user that gh is logged in as.
ApplyStampRuleset ==
    /\ Goto("apply", AfterRuleset)
    /\ \E found \in FindExistingStampRuleset :
           \/ UNCHANGED hub
           \/ /\ found = NoRuleset /\ hub.ruleset = NoRuleset
              /\ hub' = [hub EXCEPT !.ruleset = {IF org THEN DeployKey(cmd.keyId) ELSE User}]
    /\ UNCHANGED <<org, repo, trash, serverKey, nextId, local, cmd, report, calls, events>>

-----------------------------------------------------------------------------
(* stamp bootstrap, on its own or from stamp provision *)

Bootstrap ==
    /\ local.there
    /\ Start([NoCommand EXCEPT !.kind = "bootstrap"], "bootstrap")

\* Only on the protected branch, clean, with the placeholder for its reviewer
\* and no branch stamp/bootstrap of an earlier attempt: else the command ends.
\* (A placeholder that is not committed would get as far as the merge, which
\* refuses; --force, --from and --no-push are left out.)
CheckBootstrap ==
    /\ Goto("bootstrap", "branched")
    /\ local.head = "main" /\ ~local.dirty /\ ~local.boot /\ local.config = "placeholder"
    /\ local' = [local EXCEPT !.head = "boot", !.boot = TRUE]
    /\ UNCHANGED <<org, repo, trash, serverKey, hub, nextId, cmd, report, calls, events>>

\* The files are written, and committed with whatever is under .stamp.
WriteBootstrapFiles ==
    /\ step = "branched"
    /\ \/ /\ step' = "committed"
          /\ local' = [local EXCEPT !.yml = IF @ = "untracked" THEN "boot" ELSE @]
          /\ UNCHANGED <<cmd, report>>
       \/ End /\ local' = [local EXCEPT !.dirty = TRUE]
    /\ UNCHANGED <<org, repo, trash, serverKey, hub, nextId, calls, events>>

\* The review by the placeholder is taken; then back to the protected branch.
ReviewAndCheckout ==
    /\ Goto("committed", "merge")
    /\ local' = [local EXCEPT !.head = "main"]
    /\ UNCHANGED <<org, repo, trash, serverKey, hub, nextId, cmd, report, calls, events>>

MergeBootstrap ==
    /\ Goto("merge", "push")
    /\ local' = [local EXCEPT !.config = "real", !.yml = IF @ = "boot" THEN "main" ELSE @]
    /\ UNCHANGED <<org, repo, trash, serverKey, hub, nextId, cmd, report, calls, events>>

\* To wherever origin is: GitHub, or the server, if its main is still the one that
\* was cloned.  It may have taken the push although the command hears of a failure.
PushBootstrap ==
    /\ step = "push"
    /\ \/ local.origin = "github" /\ UNCHANGED repo
       \/ /\ local.origin = "stamp" /\ repo.main = "placeholder"
          /\ repo' = [main |-> local.config, yml |-> local.yml = "main"]
    /\ \/ End
       \/ step' = (IF cmd.guard THEN "verify" ELSE "success") /\ UNCHANGED <<cmd, report>>
    /\ UNCHANGED <<org, trash, serverKey, hub, nextId, local, calls, events>>

-----------------------------------------------------------------------------
(* The end of stamp provision *)

\* A slip of Problems: a mirror with its key is taken for guarded.
ProblemsOfKey(known, keyId, ruleset, covers) ==
    IF ~known THEN {"unreadable"} ELSE IF org /\ keyId = NoId THEN {"no key"} ELSE {}

\* computeMirrorProvisionProblems: what cannot be read is a problem.
Problems(known, keyId, ruleset, covers) ==
    IF ~known THEN {"unreadable"}
    ELSE (IF org /\ keyId = NoId THEN {"no key"} ELSE {}) \cup
         (IF ruleset = NoRuleset THEN {"no ruleset"}
          ELSE IF ~covers THEN {"uncovered"} ELSE {})

VerifyMirrorProvisioned ==
    /\ step = "verify"
    /\ \E known, covers \in BOOLEAN, keyId \in FindDeployKey, ruleset \in FindExistingStampRuleset :
           IF Problems(known, keyId, ruleset, covers) = {}
           THEN step' = "success" /\ UNCHANGED <<cmd, report>> ELSE End
    /\ UNCHANGED <<places, calls, events>>

PrintSuccess == step = "success" /\ Done /\ UNCHANGED <<places, calls, events>>
-----------------------------------------------------------------------------
(* stamp provision --migrate-existing, in a repository with its origin on GitHub *)

\* A config.yml in the work tree is enough, committed or not, and whatever is in it.
MigrateExisting ==
    /\ local.there /\ local.origin = "github" /\ ~local.github /\ ~local.dirty
    /\ \E mirror, guard \in BOOLEAN :
           Start([NoCommand EXCEPT !.kind = "migrate", !.mirror = mirror,
                                   !.guard = mirror /\ guard], "tarball")

\* The tarball is of the commits.
SshRunNewStampRepoFromTarball ==
    /\ Goto("tarball", "rename") /\ repo.main = "none"
    /\ repo' = [main |-> local.config, yml |-> local.yml = "main"]
    /\ UNCHANGED <<org, trash, serverKey, hub, nextId, local, cmd, report, calls, events>>

RenameOrigin ==
    /\ Goto("rename", "add")
    /\ local' = [local EXCEPT !.origin = "none", !.github = TRUE]
    /\ UNCHANGED <<org, repo, trash, serverKey, hub, nextId, cmd, report, calls, events>>

AddOrigin ==
    /\ Goto("add", IF cmd.mirror THEN "yml" ELSE "success")
    /\ local' = [local EXCEPT !.origin = "stamp"]
    /\ UNCHANGED <<org, repo, trash, serverKey, hub, nextId, cmd, report, calls, events>>

-----------------------------------------------------------------------------
(* stamp provision --migrate-bypass *)

MigrateBypass ==
    /\ local.there /\ HasYml
    /\ \E replace, removeOrgadmin \in BOOLEAN, expect \in SshKeys \cup {NoKey} :
           /\ replace => expect # NoKey
           /\ Start([NoCommand EXCEPT !.kind = "bypass", !.replace = replace,
                        !.expect = expect, !.removeOrgadmin = removeOrgadmin], "decide")

\* decideMirrorKeyAction, on the key that was found and its body, each null when
\* it cannot be read: another key is replaced only if that was asked for.
DecideMirrorKeyAction(found, body) ==
    CASE cmd.expect \notin {NoKey, serverKey} -> "refuse"
      [] found = NoId -> "register"
      [] body = serverKey -> "reuse"
      [] OTHER -> IF cmd.replace THEN "replace" ELSE "refuse"

Decide ==
    /\ step = "decide"
    /\ \E found \in FindDeployKey :
       \E body \in {NoKey} \cup {k.key : k \in {t \in Titled : t.id = found}} :
           LET action == DecideMirrorKeyAction(found, body) IN
           IF action = "refuse" THEN End
           ELSE /\ step' = (CASE action = "reuse" -> "lookup"
                            [] action = "replace" -> "delete"
                            [] OTHER -> "reregister")
                /\ cmd' = [cmd EXCEPT !.keyId = found,
                       !.blind = Titled # {} /\ (found = NoId \/ Cardinality(Titled) > 1)]
                /\ UNCHANGED report
    /\ UNCHANGED <<places, calls, events>>

\* A key that is gone already counts as deleted.
DeleteDeployKey ==
    /\ Goto("delete", "reregister")
    /\ hub' = [hub EXCEPT !.keys = {k \in @ : k.id # cmd.keyId}]
    /\ UNCHANGED <<org, repo, trash, serverKey, nextId, local, cmd, report, calls, events>>

RegisterStampMirrorKey ==
    /\ step = "reregister"
    /\ Register("lookup", End)
    /\ UNCHANGED <<org, repo, trash, serverKey, local, calls, events>>

\* Without a ruleset, or without an answer, there is no list to update.
LookUpRuleset ==
    /\ step = "lookup"
    /\ \E found \in FindExistingStampRuleset :
           /\ step' = IF found = NoRuleset THEN "success" ELSE "bypass"
           /\ cmd' = [cmd EXCEPT !.guard = found # NoRuleset]
    /\ UNCHANGED <<places, report, calls, events>>

ComputeDesiredBypassActors(current) ==
    {a \in current : a.type # "DeployKey" /\ ~(a.type = "OrganizationAdmin" /\ cmd.removeOrgadmin)}
        \cup {DeployKey(cmd.keyId)}

ReplaceBypassActors ==
    /\ Goto("bypass", "success") /\ hub.ruleset # NoRuleset
    /\ hub' = [hub EXCEPT !.ruleset = ComputeDesiredBypassActors(@)]
    /\ UNCHANGED <<org, repo, trash, serverKey, nextId, local, cmd, report, calls, events>>

-----------------------------------------------------------------------------
(* Between two commands *)

between == events < MaxEvents /\ events' = events + 1 /\ step = "idle" /\ report' = NoCommand
quiet == UNCHANGED <<org, nextId, step, cmd, calls>>

\* The operator follows the hint: git checkout main, git branch -D stamp/bootstrap.
StartOver ==
    /\ between /\ local.boot
    /\ local' = [local EXCEPT !.head = "main", !.boot = FALSE, !.dirty = FALSE,
                              !.yml = IF @ = "boot" THEN "none" ELSE @]
    /\ UNCHANGED <<repo, trash, serverKey, hub>> /\ quiet

RemoveClone ==
    /\ between /\ local.there /\ local.origin = "stamp"
    /\ local' = NoClone
    /\ UNCHANGED <<repo, trash, serverKey, hub>> /\ quiet

\* stamp server-repos delete: to the trash, or --purge, which empties that too;
\* with --also-github the mirror goes next, if gh manages.
DeleteRepo ==
    /\ between
    /\ repo' = NoRepo
    /\ \/ repo # NoRepo /\ trash' = trash \cup {repo}
       \/ trash \cup {repo} # {NoRepo} /\ trash' = {}
    /\ hub' \in {hub, Absent}
    /\ UNCHANGED <<serverKey, local>> /\ quiet

\* stamp server-repos restore, of the latest copy or of one named with --from.
RestoreRepo ==
    /\ between
    /\ repo = NoRepo /\ repo' \in trash /\ trash' = trash \ {repo'}
    /\ UNCHANGED <<serverKey, hub, local>> /\ quiet

\* The server's volume is lost, and its keys with it.
ReplaceServerKey ==
    /\ between
    /\ \E k \in SshKeys : k # serverKey /\ serverKey' = k
    /\ UNCHANGED <<repo, trash, hub, local>> /\ quiet

\* Somebody at the mirror's settings.
EditMirror ==
    /\ between /\ hub.exists
    /\ \/ hub' = Absent
       \/ \E k \in hub.keys : hub' = [hub EXCEPT !.keys = @ \ {k}]
       \/ hub.ruleset # NoRuleset /\ hub' = [hub EXCEPT !.ruleset = NoRuleset]
       \/ hub.ruleset = NoRuleset /\ hub' = [hub EXCEPT !.ruleset = {Owner}]
    /\ UNCHANGED <<repo, trash, serverKey, local>> /\ quiet

ProvisionNext ==
    \/ Provision \/ ProvisionBareRepoOnServer \/ Clone \/ CreateGithubMirrorRepo \/ WriteMirrorYml
    \/ ApplyMirrorRuleset \/ RegisterDeployKey \/ ApplyStampRuleset
    \/ Bootstrap \/ CheckBootstrap \/ WriteBootstrapFiles \/ ReviewAndCheckout
    \/ MergeBootstrap \/ PushBootstrap \/ VerifyMirrorProvisioned \/ PrintSuccess
    \/ MigrateExisting \/ SshRunNewStampRepoFromTarball \/ RenameOrigin \/ AddOrigin
    \/ MigrateBypass \/ Decide \/ DeleteDeployKey \/ RegisterStampMirrorKey
    \/ LookUpRuleset \/ ReplaceBypassActors \/ Die
    \/ StartOver \/ RemoveClone \/ DeleteRepo \/ RestoreRepo \/ ReplaceServerKey \/ EditMirror

ProvisionSpec == ProvisionInit /\ [][ProvisionNext]_provisionVars
-----------------------------------------------------------------------------
\* The clone commits and pushes to the server, whose main has reviewers.
UnderGate == repo.main = "real" /\ local.origin = "stamp"

Provisioned ==
    /\ UnderGate
    /\ report.mirror => repo.yml /\ hub.exists
    /\ report.guard =>
           IF org THEN \E k \in Titled : k.key = serverKey /\ hub.ruleset = {DeployKey(k.id)}
           ELSE hub.ruleset = {User}

\* The reviewers are required where the clone pushes to.
Bootstrapped == local.config = "real" /\ (local.origin = "stamp" => UnderGate)

\* The server's main carries what the clone's did, real reviewers only if that did.
Migrated ==
    /\ local.origin = "stamp" /\ local.github
    /\ repo.main = local.config
    /\ report.mirror => HasYml

\* A key that a failed lookup missed, or that stands behind another of the same
\* title, is not compared with the server's.  Of the actors the list had, only the
\* owner's stay: the organization's unless it was to go, the user's always.
Bypassed ==
    \E k \in Titled :
        /\ report.blind \/ k.key = serverKey
        /\ report.guard =>
               /\ DeployKey(k.id) \in hub.ruleset
               /\ hub.ruleset \ {DeployKey(k.id)} \subseteq
                      IF report.removeOrgadmin THEN {User} ELSE {OrgAdmin, User}

\* What a command reports done is done, in all three places at once, whichever
\* lookups and requests failed on the way, whichever answers were lost and whatever
\* the commands before it left half done when they died.  (Two headlines say more
\* than is so, "migrated to server-gated" and "bypasses ONLY via the per-repo deploy
\* key"; Migrated and Bypassed say what is left of them.)
ReportedIsSo ==
    CASE report.kind = "none" -> TRUE
      [] report.kind = "provision" -> Provisioned
      [] report.kind = "bootstrap" -> Bootstrapped
      [] report.kind = "migrate" -> Migrated
      [] report.kind = "bypass" -> Bypassed
=============================================================================
