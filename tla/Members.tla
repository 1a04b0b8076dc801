------------------------------ MODULE Members ------------------------------
(***************************************************************************)
(* The membership database of the stamp server: the users verbs            *)
(* (src/server/users-cli.ts over src/lib/userOps.ts), mint-invite, and the *)
(* acceptance of an invite by the HTTP server.  Every SSH verb is a process *)
(* with its own connection, and most of them run several SQL statements    *)
(* outside of a transaction: each statement is a step.                     *)
(***************************************************************************)
EXTENDS Integers, FiniteSets

CONSTANTS
    Verbs,       \* SSH sessions that run a verb, concurrently
    Keys,        \* SSH keys, one for each person
    Names,       \* short names
    Seeded,      \* [SUBSET Keys -> Names]: the admins of the first boot
    Tokens,      \* invite tokens
    MaxId        \* bound on the rows ever inserted in users

Roles == {"owner", "admin", "member"}
Ids == 1..MaxId

ASSUME SeededAssumption ==
    /\ DOMAIN Seeded \subseteq Keys /\ IsFiniteSet(Keys)
    /\ \A k \in DOMAIN Seeded : Seeded[k] \in Names
    /\ \A k, l \in DOMAIN Seeded : Seeded[k] = Seeded[l] => k = l
ASSUME BoundsAssumption == MaxId \in Nat /\ Cardinality(DOMAIN Seeded) <= MaxId

VARIABLES
    user,      \* the users table: a function on the ids that are rows
    nextId,    \* AUTOINCREMENT
    retired,   \* retired_short_names: [Names -> last holder's id, or 0]
    invite,    \* the invites table: a function on the tokens minted
    verb,      \* what each session is at
    accept     \* what the HTTP server's one synchronous accept is at

vars == <<user, nextId, retired, invite, verb, accept>>

Live == DOMAIN user
Named(n) == {i \in Live : user[i].name = n}
Owners == {i \in Live : user[i].role = "owner"}

Idle == [pc |-> "idle"]
NoAccept == [pc |-> "idle"]

\* The first boot imports AUTHORIZED_KEYS, everyone as an admin.
Init ==
    /\ LET n == Cardinality(DOMAIN Seeded) IN
        \E at \in [1..n -> DOMAIN Seeded] :
            /\ \A i, j \in 1..n : at[i] = at[j] => i = j
            /\ user = [i \in 1..n |-> [name |-> Seeded[at[i]], key |-> at[i],
                                       role |-> "admin", by |-> 0]]
            /\ nextId = n + 1
    /\ retired = [n \in Names |-> 0]
    /\ invite = [t \in {} |-> 0]
    /\ verb = [v \in Verbs |-> Idle]
    /\ accept = NoAccept

-----------------------------------------------------------------------------
(* Helpers of the verbs *)

Only(f, S) == [x \in S |-> f[x]]

\* A slip of Referenced: the invites do not count.
ReferencedByUsers(i) == \E j \in Live \ {i} : user[j].by = i

\* The foreign keys on users(id): no row that another refers to is deleted.
Referenced(i) ==
    \/ \E j \in Live \ {i} : user[j].by = i
    \/ \E t \in DOMAIN invite : invite[t].by = i \/ invite[t].to = i

\* DELETE FROM users
Delete(i) == user' = Only(user, Live \ {i})

Requests ==
    [op : {"role"}, name : Names, to : Roles] \cup [op : {"remove"}, name : Names]
    \cup [op : {"name"}, name : Names, to : Names] \cup [op : {"prune"}]
    \cup [op : {"mint"}, name : Names, to : {"admin", "member"}]

\* The caller stands above the target.
Outranks(c, t) == \/ c.role = "owner"
                  \/ c.role = "admin" /\ t.role = "member"

\* removeUser; the caller's row c is the one read when the verb began.
MayRemove(c, t, owners) ==
    /\ t.id # c.id
    /\ Outranks(c, t)
    /\ t.role = "owner" => owners > 1

\* A slip of MaySetRole: the owners are not counted.
MaySetRoleUncounted(c, t, to, owners) ==
    \/ c.role = "owner"
    \/ c.role = "admin" /\ owners = 0 /\ to = "owner" /\ t.id = c.id
    \/ c.role = "admin" /\ t.role = "member" /\ to = "member"

\* checkSetRoleAuthority and the last-owner guard, given the count of owners.
MaySetRole(c, t, to, owners) ==
    /\ \/ c.role = "owner"
       \/ c.role = "admin" /\ owners = 0 /\ to = "owner" /\ t.id = c.id
       \/ c.role = "admin" /\ t.role = "member" /\ to = "member"
    /\ (t.role = "owner" /\ to # "owner") => owners > 1

\* setUserName, up to the two lookups of the new name.
MayRename(c, t) == t.id = c.id \/ Outranks(c, t)

Operator(c) == c.role \in {"owner", "admin"}

-----------------------------------------------------------------------------
(* The verbs *)

Finish(v) == verb' = [verb EXCEPT ![v] = Idle]
Goto(v, pc) == verb' = [verb EXCEPT ![v].pc = pc]
Fail(v) == verb' = [verb EXCEPT ![v] = [pc |-> "failed", op |-> @.req.op]]
GoRetire(v) == verb' = [verb EXCEPT ![v] = [pc |-> "retire", target |-> @.target]]

\* What a verb keeps of the row it read.
Self(i) == [id |-> i, role |-> user[i].role]
Row(i) == [id |-> i, role |-> user[i].role, name |-> user[i].name]

\* resolveCaller
Begin(v, i, q) ==
    /\ verb[v] = Idle /\ i \in Live
    /\ verb' = [verb EXCEPT ![v] = [pc |-> "look", req |-> q, caller |-> Self(i)]]
    /\ UNCHANGED <<user, nextId, retired, invite, accept>>

Op(v) == verb[v].req.op
Caller(v) == verb[v].caller

\* findUserByShortName: no such user ends the verb.
LookUp(v) ==
    /\ verb[v].pc = "look" /\ Op(v) \in {"role", "remove", "name"}
    /\ \/ /\ Named(verb[v].req.name) = {}
          /\ Finish(v)
       \/ \E t \in Named(verb[v].req.name) :
            verb' = [verb EXCEPT ![v] =
                       [pc |-> "judge", req |-> verb[v].req, caller |-> Caller(v), target |-> Row(t)]]
    /\ UNCHANGED <<user, nextId, retired, invite, accept>>

Target(v) == verb[v].target

\* setUserRole: the owners are counted, then judged.
JudgeRole(v) ==
    /\ verb[v].pc = "judge" /\ Op(v) = "role"
    /\ IF /\ MaySetRole(Caller(v), Target(v), verb[v].req.to, Cardinality(Owners))
          /\ Target(v).role # verb[v].req.to
       THEN Goto(v, "write") ELSE Finish(v)
    /\ UNCHANGED <<user, nextId, retired, invite, accept>>

\* An UPDATE of a row that is gone changes nothing.
WriteRole(v) ==
    /\ verb[v].pc = "write" /\ Op(v) = "role"
    /\ user' = [i \in Live |-> IF i = Target(v).id
                               THEN [user[i] EXCEPT !.role = verb[v].req.to] ELSE user[i]]
    /\ Finish(v)
    /\ UNCHANGED <<nextId, retired, invite, accept>>

\* removeUser
JudgeRemove(v) ==
    /\ verb[v].pc = "judge" /\ Op(v) = "remove"
    /\ IF MayRemove(Caller(v), Target(v), Cardinality(Owners))
       THEN Goto(v, "write") ELSE Finish(v)
    /\ UNCHANGED <<user, nextId, retired, invite, accept>>

\* The DELETE fails on a row that others refer to, and the verb with it.
WriteRemove(v) ==
    /\ verb[v].pc = "write" /\ Op(v) = "remove"
    /\ LET i == Target(v).id IN
        \/ /\ i \in Live /\ Referenced(i)
           /\ Fail(v)
           /\ UNCHANGED user
        \/ /\ ~(i \in Live /\ Referenced(i))
           /\ Delete(i)
           /\ GoRetire(v)
    /\ UNCHANGED <<nextId, retired, invite, accept>>

\* retireShortName: also the end of a rename.
Retire(v) ==
    /\ verb[v].pc = "retire"
    /\ retired' = [retired EXCEPT ![Target(v).name] = Target(v).id]
    /\ Finish(v)
    /\ UNCHANGED <<user, nextId, invite, accept>>

\* setUserName
JudgeName(v) ==
    LET n == verb[v].req.to IN
    /\ verb[v].pc = "judge" /\ Op(v) = "name"
    /\ IF /\ MayRename(Caller(v), Target(v))
          /\ Target(v).name # n
          /\ Named(n) \subseteq {Target(v).id}
          /\ retired[n] \in {0, Target(v).id} \/ Operator(Caller(v))
       THEN Goto(v, "write") ELSE Finish(v)
    /\ UNCHANGED <<user, nextId, retired, invite, accept>>

\* UNIQUE(short_name) fails the verb when the name was taken meanwhile.
WriteName(v) ==
    LET n == verb[v].req.to  i == Target(v).id IN
    /\ verb[v].pc = "write" /\ Op(v) = "name"
    /\ \/ /\ i \in Live /\ Named(n) \ {i} # {}
          /\ Fail(v)
          /\ UNCHANGED user
       \/ /\ i \notin Live \/ Named(n) \subseteq {i}
          /\ user' = [j \in Live |-> IF j = i THEN [user[j] EXCEPT !.name = n] ELSE user[j]]
          /\ GoRetire(v)
    /\ UNCHANGED <<nextId, retired, invite, accept>>

\* pruneIdleUsers: whom the caller may prune if they are idle.
Prunable(c) ==
    {i \in Live \ {c.id} :
        user[i].role # "owner" /\ (c.role = "admin" => user[i].role = "member")}

\* The SELECT; the idle among them are any subset.
LookPrune(v) ==
    /\ verb[v].pc = "look" /\ Op(v) = "prune"
    /\ \/ /\ ~Operator(Caller(v))
          /\ Finish(v)
       \/ /\ Operator(Caller(v))
          /\ \E idle \in SUBSET Prunable(Caller(v)) :
                verb' = [verb EXCEPT ![v] =
                           [pc |-> "prune", req |-> verb[v].req, caller |-> Caller(v),
                            idle |-> {Row(i) : i \in idle}]]
    /\ UNCHANGED <<user, nextId, retired, invite, accept>>

\* One DELETE of the loop with its retireShortName, which no verb comes between
\* to any effect; or the end of it.
Prune(v) ==
    /\ verb[v].pc = "prune"
    /\ \/ /\ verb[v].idle = {}
          /\ Finish(v)
          /\ UNCHANGED <<user, retired>>
       \/ \E r \in verb[v].idle :
            \/ /\ r.id \in Live /\ Referenced(r.id)
               /\ Fail(v)
               /\ UNCHANGED <<user, retired>>
            \/ /\ ~(r.id \in Live /\ Referenced(r.id))
               /\ Delete(r.id)
               /\ retired' = [retired EXCEPT ![r.name] = r.id]
               /\ verb' = [verb EXCEPT ![v].idle = @ \ {r}]
    /\ UNCHANGED <<nextId, invite, accept>>

\* A slip of MayMint: an admin may invite an admin.
MayMintAnyRole(c, to) == Operator(c)

MayMint(c, to) == Operator(c) /\ (c.role = "admin" => to = "member")

\* mint-invite: the name is only looked at, the token is not bound to it.
Mint(v) ==
    LET q == verb[v].req
        c == Caller(v)
        may == MayMint(c, q.to) /\ Named(q.name) = {} /\ c.id \in Live
    IN
    /\ verb[v].pc = "look" /\ Op(v) = "mint"
    /\ \/ /\ ~may
          /\ UNCHANGED invite
       \/ /\ may
          /\ \E t \in Tokens \ DOMAIN invite :
                invite' = [u \in DOMAIN invite \cup {t} |->
                             IF u = t THEN [state |-> "minted", role |-> q.to, by |-> c.id, to |-> 0]
                             ELSE invite[u]]
    /\ Finish(v)
    /\ UNCHANGED <<user, nextId, retired, accept>>

\* The session ends: it failed, or the connection or the server died.
Die(v) ==
    /\ verb[v] # Idle
    /\ Finish(v)
    /\ UNCHANGED <<user, nextId, retired, invite, accept>>

-----------------------------------------------------------------------------
(* acceptInvite runs to its end before the server takes the next request;   *)
(* the verbs of the SSH sessions interleave with its statements.            *)

\* The name must not be retired; then the token is consumed, in a transaction.
Present(t, n, k) ==
    /\ accept = NoAccept
    /\ t \in DOMAIN invite /\ retired[n] = 0
    /\ accept' = [pc |-> "consume", token |-> t, name |-> n, key |-> k]
    /\ UNCHANGED <<user, nextId, retired, invite, verb>>

\* A slip of Consumable: a token that was used is good again.
ConsumableAgain(t) == invite[t].state # "expired"

Consumable(t) == invite[t].state = "minted"

\* consumeInviteToken
Consume ==
    LET t == accept.token IN
    /\ accept.pc = "consume"
    /\ \/ /\ Consumable(t)
          /\ invite' = [invite EXCEPT ![t].state = "used"]
          /\ accept' = [accept EXCEPT !.pc = "insert"]
       \/ /\ ~Consumable(t)
          /\ accept' = NoAccept
          /\ UNCHANGED invite
    /\ UNCHANGED <<user, nextId, retired, verb>>

\* UNIQUE(short_name) and UNIQUE(ssh_fp)
Collides(r) == \E i \in Live : user[i].name = r.name \/ user[i].key = r.key

\* A slip of NewRow: the inviter's rights are handed on.
NewRowOfInviter(r) ==
    [name |-> r.name, key |-> r.key, role |-> user[invite[r.token].by].role,
     by |-> invite[r.token].by]

NewRow(r) ==
    [name |-> r.name, key |-> r.key, role |-> invite[r.token].role, by |-> invite[r.token].by]

\* insertUser; a collision of names or keys leaves the token used.
Insert ==
    /\ accept.pc = "insert"
    /\ \/ /\ Collides(accept)
          /\ accept' = NoAccept
          /\ UNCHANGED <<user, nextId>>
       \/ /\ ~Collides(accept) /\ nextId <= MaxId
          /\ user' = [i \in Live \cup {nextId} |->
                        IF i = nextId THEN NewRow(accept) ELSE user[i]]
          /\ nextId' = nextId + 1
          /\ accept' = [pc |-> "mark", token |-> accept.token, id |-> nextId]
    /\ UNCHANGED <<retired, invite, verb>>

\* markInviteConsumer; a reference to a row that is gone fails.
Mark ==
    /\ accept.pc = "mark"
    /\ invite' = IF accept.id \in Live THEN [invite EXCEPT ![accept.token].to = accept.id]
                 ELSE invite
    /\ accept' = NoAccept
    /\ UNCHANGED <<user, nextId, retired, verb>>

\* The HTTP server dies: the request with it, what it wrote stays.
DropAccept ==
    /\ accept # NoAccept
    /\ accept' = NoAccept
    /\ UNCHANGED <<user, nextId, retired, invite, verb>>

\* expires_at passes.
Expire(t) ==
    /\ t \in DOMAIN invite /\ invite[t].state = "minted"
    /\ invite' = [invite EXCEPT ![t].state = "expired"]
    /\ UNCHANGED <<user, nextId, retired, verb, accept>>

-----------------------------------------------------------------------------

VerbStep(v) ==
    \/ LookUp(v) \/ JudgeRole(v) \/ WriteRole(v) \/ JudgeRemove(v) \/ WriteRemove(v)
    \/ Retire(v) \/ JudgeName(v) \/ WriteName(v) \/ LookPrune(v) \/ Prune(v)
    \/ Mint(v) \/ Die(v)
    \/ \E i \in Live, q \in Requests : Begin(v, i, q)

AcceptStep ==
    \/ Consume \/ Insert \/ Mark \/ DropAccept
    \/ \E t \in Tokens, n \in Names, k \in Keys : Present(t, n, k)

Next ==
    \/ \E v \in Verbs : VerbStep(v)
    \/ AcceptStep
    \/ \E t \in Tokens : Expire(t)

Spec == Init /\ [][Next]_vars

-----------------------------------------------------------------------------
(* Properties *)

UserType == [name : Names, key : Keys, role : Roles, by : 0..MaxId]
InviteType == [state : {"minted", "used", "expired"}, role : {"admin", "member"},
               by : Ids, to : 0..MaxId]
SelfType == [id : Ids, role : Roles]
RowType == [id : Ids, role : Roles, name : Names]

\* The tables hold rows of their types, no name and no key twice; a grant and
\* an invite refer to rows that exist; no session is at a step it has no data for.
TypeOK ==
    /\ Live \subseteq 1..(nextId - 1) /\ nextId \in 1..(MaxId + 1)
    /\ \A i \in Live : user[i] \in UserType
    /\ \A i, j \in Live :
          (user[i].name = user[j].name \/ user[i].key = user[j].key) => i = j
    /\ \A i \in Live : user[i].by \in Live \cup {0}
    /\ retired \in [Names -> 0..MaxId]
    /\ DOMAIN invite \subseteq Tokens
    /\ \A t \in DOMAIN invite :
          invite[t] \in InviteType /\ invite[t].by \in Live /\ invite[t].to \in Live \cup {0}
    /\ \A v \in Verbs :
          /\ verb[v].pc \in {"idle", "look", "judge", "write", "retire", "prune", "failed"}
          /\ verb[v].pc \in {"look", "judge", "write", "prune"} => Caller(v) \in SelfType
          /\ verb[v].pc \in {"judge", "write", "retire"} => Target(v) \in RowType
    /\ accept.pc \in {"idle", "consume", "insert", "mark"}
    /\ accept.pc # "idle" => accept.token \in DOMAIN invite

\* A server that has an owner never loses the last one (userOps.ts: "any
\* operation that would leave zero owners ... is refused").
OwnerRemains == [][Owners # {} => Owners' # {}]_vars

\* As long as no one is an owner the set of operators does not grow: an admin
\* can neither promote another user nor let in a second admin.
OperatorsNeedAnOwner ==
    [][Owners = {} => \A i \in Live' : user'[i].role # "member"
                                          => (i \in Live /\ user[i].role # "member")]_vars

\* A token enrolls one person at most, whatever is retried and wherever the
\* server dies: the rows ever inserted are no more than the tokens used.
InviteUsedOnce ==
    nextId - 1 - Cardinality(DOMAIN Seeded)
        <= Cardinality({t \in DOMAIN invite : invite[t].state = "used"})

\* The same of verbs that run at once (userOps.ts states it of "any operation").
OwnerRemainsUnderConcurrency == [][Owners # {} => Owners' # {}]_vars
=============================================================================
