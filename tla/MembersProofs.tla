---------------------------- MODULE MembersProofs ----------------------------
(***************************************************************************)
(* The membership database, for any number of users, invites and sessions: *)
(* the tables keep their types, their unique columns and their references, *)
(* and an invite enrolls one person.  Where the verbs run one after the     *)
(* other the last owner stays, and without an owner no operator is made:    *)
(* what a verb has read is then still so when it writes, since the HTTP     *)
(* server's accept only adds members and admins.                            *)
(***************************************************************************)
EXTENDS Members, FiniteSetTheorems, TLAPS

\* What a session has between two of its statements.
VerbType ==
    {Idle}
    \cup [pc : {"look"}, req : Requests, caller : SelfType]
    \cup [pc : {"judge", "write"}, req : Requests, caller : SelfType, target : RowType]
    \cup [pc : {"retire"}, target : RowType]
    \cup [pc : {"prune"}, req : Requests, caller : SelfType, idle : SUBSET RowType]
    \cup [pc : {"failed"}, op : {"role", "remove", "name", "prune", "mint"}]

AcceptType ==
    {NoAccept}
    \cup [pc : {"consume", "insert"}, token : Tokens, name : Names, key : Keys]
    \cup [pc : {"mark"}, token : Tokens, id : Ids]

UsersOK ==
    /\ Live \subseteq 1..(nextId - 1) /\ nextId \in 1..(MaxId + 1)
    /\ \A i \in Live : user[i] \in UserType
    /\ \A i, j \in Live :
          (user[i].name = user[j].name \/ user[i].key = user[j].key) => i = j
    /\ \A i \in Live : user[i].by \in Live \cup {0}

InvitesOK ==
    /\ DOMAIN invite \subseteq Tokens
    /\ \A t \in DOMAIN invite :
          invite[t] \in InviteType /\ invite[t].by \in Live /\ invite[t].to \in Live \cup {0}

SessionsOK ==
    /\ retired \in [Names -> 0..MaxId]
    /\ verb \in [Verbs -> VerbType]
    /\ accept \in AcceptType
    /\ accept # NoAccept => accept.token \in DOMAIN invite

\* The inductive invariant behind TypeOK.
MembersInv == UsersOK /\ InvitesOK /\ SessionsOK

-----------------------------------------------------------------------------
(* Rows *)

\* What the fields of a session are, at each step of its verb.
LEMMA VerbFields ==
    ASSUME MembersInv, NEW v \in Verbs
    PROVE  /\ verb[v] \in VerbType
           /\ verb[v].pc \in {"idle", "look", "judge", "write", "retire", "prune", "failed"}
           /\ verb[v] # Idle => verb[v].pc # "idle"
           /\ verb[v].pc = "look" =>
                 verb[v] = [pc |-> "look", req |-> verb[v].req, caller |-> Caller(v)]
           /\ verb[v].pc \in {"judge", "write"} =>
                 verb[v] = [pc |-> verb[v].pc, req |-> verb[v].req, caller |-> Caller(v),
                            target |-> Target(v)]
           /\ verb[v].pc = "prune" =>
                 /\ verb[v] = [pc |-> "prune", req |-> verb[v].req, caller |-> Caller(v),
                               idle |-> verb[v].idle]
                 /\ verb[v].idle \subseteq RowType
           /\ verb[v].pc \in {"look", "judge", "write", "prune"} =>
                 verb[v].req \in Requests /\ Caller(v) \in SelfType
           /\ verb[v].pc \in {"judge", "write", "retire"} => Target(v) \in RowType
<1>1. verb[v] \in VerbType
  BY DEF MembersInv, SessionsOK
<1>2. CASE verb[v] = Idle
  BY <1>1, <1>2 DEF Idle
<1>3. CASE verb[v] \in [pc : {"look"}, req : Requests, caller : SelfType]
  BY <1>1, <1>3 DEF Caller, Idle
<1>4. CASE verb[v] \in [pc : {"judge", "write"}, req : Requests, caller : SelfType,
                        target : RowType]
  BY <1>1, <1>4 DEF Caller, Target, Idle
<1>5. CASE verb[v] \in [pc : {"retire"}, target : RowType]
  BY <1>1, <1>5 DEF Target, Idle
<1>6. CASE verb[v] \in [pc : {"prune"}, req : Requests, caller : SelfType, idle : SUBSET RowType]
  BY <1>1, <1>6 DEF Caller, Idle
<1>7. CASE verb[v] \in [pc : {"failed"}, op : {"role", "remove", "name", "prune", "mint"}]
  BY <1>1, <1>7 DEF Idle
<1> QED BY <1>1, <1>2, <1>3, <1>4, <1>5, <1>6, <1>7 DEF VerbType

\* What the requests are, by their verb.
LEMMA RequestFields ==
    ASSUME NEW q \in Requests
    PROVE  /\ q.op \in {"role", "remove", "name", "prune", "mint"}
           /\ q.op \in {"role", "remove", "name", "mint"} => q.name \in Names
           /\ q.op = "role" => q.to \in Roles
           /\ q.op = "name" => q.to \in Names
           /\ q.op = "mint" => q.to \in {"admin", "member"}
BY DEF Requests

\* And those of the accept.
LEMMA AcceptFields ==
    ASSUME MembersInv
    PROVE  /\ accept.pc \in {"idle", "consume", "insert", "mark"}
           /\ accept.pc = "idle" => accept = NoAccept
           /\ accept.pc # "idle" => accept.token \in DOMAIN invite /\ accept.token \in Tokens
           /\ accept.pc \in {"consume", "insert"} =>
                 /\ accept.name \in Names /\ accept.key \in Keys
                 /\ accept = [pc |-> accept.pc, token |-> accept.token, name |-> accept.name,
                              key |-> accept.key]
           /\ accept.pc = "mark" => accept.id \in Ids
<1>1. accept \in AcceptType /\ (accept # NoAccept => accept.token \in DOMAIN invite)
  BY DEF MembersInv, SessionsOK
<1>2. CASE accept = NoAccept
  BY <1>1, <1>2 DEF NoAccept
<1>3. CASE accept \in [pc : {"consume", "insert"}, token : Tokens, name : Names, key : Keys]
  BY <1>1, <1>3 DEF NoAccept
<1>4. CASE accept \in [pc : {"mark"}, token : Tokens, id : Ids]
  BY <1>1, <1>4 DEF NoAccept
<1> QED BY <1>1, <1>2, <1>3, <1>4 DEF AcceptType

\* The ids are within the bound.
LEMMA LiveIds ==
    ASSUME UsersOK
    PROVE  /\ Live \subseteq Ids /\ nextId \notin Live
           /\ \A i \in Live : Self(i) \in SelfType /\ Row(i) \in RowType
           /\ IsFiniteSet(Live)
<1>1. Live \subseteq Ids /\ nextId \notin Live /\ Live \subseteq 1..MaxId
  BY BoundsAssumption DEF UsersOK, Ids
<1>2. \A i \in Live : Self(i) \in SelfType /\ Row(i) \in RowType
  BY <1>1 DEF UsersOK, UserType, Self, Row, SelfType, RowType
<1>3. IsFiniteSet(1..MaxId)
  BY FS_Interval, BoundsAssumption
<1> QED BY <1>1, <1>2, <1>3, FS_Subset

\* The invariant gives what the run checks.
LEMMA InvIsTyped == MembersInv => TypeOK
<1> SUFFICES ASSUME MembersInv PROVE TypeOK
  OBVIOUS
<1>1. \A v \in Verbs :
        /\ verb[v].pc \in {"idle", "look", "judge", "write", "retire", "prune", "failed"}
        /\ verb[v].pc \in {"look", "judge", "write", "prune"} => Caller(v) \in SelfType
        /\ verb[v].pc \in {"judge", "write", "retire"} => Target(v) \in RowType
  BY VerbFields
<1> QED BY <1>1, AcceptFields DEF MembersInv, UsersOK, InvitesOK, SessionsOK, TypeOK

-----------------------------------------------------------------------------
(* The tables *)

\* DELETE FROM users, of a row that none refers to.
LEMMA DeletionKeepsReferences ==
    ASSUME UsersOK, InvitesOK, NEW i, ~(i \in Live /\ Referenced(i)), Delete(i),
           UNCHANGED <<nextId, invite>>
    PROVE  UsersOK' /\ InvitesOK'
<1>1. Live' = Live \ {i} /\ \A j \in Live \ {i} : user'[j] = user[j]
  BY DEF Delete, Only, Live
<1>2. \A j \in Live \ {i} : user[j].by \in (Live \ {i}) \cup {0}
  BY DEF Referenced, UsersOK
<1>3. \A t \in DOMAIN invite :
        invite[t].by \in Live \ {i} /\ invite[t].to \in (Live \ {i}) \cup {0}
  BY DEF Referenced, InvitesOK
<1>4. UsersOK'
  <2>1. \A j \in Live' : user'[j] \in UserType /\ user'[j].by \in Live' \cup {0}
    BY <1>1, <1>2 DEF UsersOK
  <2>2. \A j, k \in Live' :
          (user'[j].name = user'[k].name \/ user'[j].key = user'[k].key) => j = k
    BY <1>1 DEF UsersOK
  <2> QED BY <1>1, <2>1, <2>2 DEF UsersOK
<1>5. InvitesOK'
  BY <1>1, <1>3 DEF InvitesOK
<1> QED BY <1>4, <1>5

\* An UPDATE of the role, or of the name to one that no other row has.
LEMMA UpdateKeepsReferences ==
    ASSUME UsersOK, InvitesOK, NEW x, NEW r,
           user' = [i \in Live |-> IF i = x THEN r ELSE user[i]],
           x \in Live => /\ r \in UserType /\ r.key = user[x].key /\ r.by = user[x].by
                         /\ \A j \in Live \ {x} : user[j].name # r.name,
           UNCHANGED <<nextId, invite>>
    PROVE  UsersOK' /\ InvitesOK'
<1>1. Live' = Live /\ \A j \in Live : user'[j] = IF j = x THEN r ELSE user[j]
  BY DEF Live
<1>2. UsersOK'
  <2>1. \A i, j \in Live' :
          (user'[i].name = user'[j].name \/ user'[i].key = user'[j].key) => i = j
    BY <1>1 DEF UsersOK
  <2> QED BY <1>1, <2>1 DEF UsersOK
<1>3. InvitesOK'
  BY <1>1 DEF InvitesOK
<1> QED BY <1>2, <1>3
\* The database is seeded with the keys of the first boot.
LEMMA SeededIsTyped == Init => MembersInv
<1> SUFFICES ASSUME Init PROVE MembersInv
  OBVIOUS
<1> DEFINE n == Cardinality(DOMAIN Seeded)
<1>0. IsFiniteSet(DOMAIN Seeded) /\ n \in Nat
  BY SeededAssumption, FS_Subset, FS_CardinalityType
<1> HIDE DEF n
<1>1. PICK at \in [1..n -> DOMAIN Seeded] :
        /\ \A i, j \in 1..n : at[i] = at[j] => i = j
        /\ user = [i \in 1..n |-> [name |-> Seeded[at[i]], key |-> at[i],
                                   role |-> "admin", by |-> 0]]
        /\ nextId = n + 1
  BY DEF Init, n
<1>2. Live = 1..n /\ nextId = n + 1 /\ n <= MaxId
  BY <1>1, BoundsAssumption DEF Live, n
<1>3. \A i \in Live : /\ user[i].name = Seeded[at[i]] /\ user[i].key = at[i]
                      /\ user[i].role = "admin" /\ user[i].by = 0
                      /\ user[i] \in UserType
  BY <1>1, <1>2, SeededAssumption, BoundsAssumption DEF UserType, Roles
<1>4. \A i, j \in Live :
        (user[i].name = user[j].name \/ user[i].key = user[j].key) => i = j
  BY <1>1, <1>2, <1>3, SeededAssumption
<1>5. UsersOK
  BY <1>0, <1>2, <1>3, <1>4, BoundsAssumption DEF UsersOK
<1>6. InvitesOK /\ SessionsOK
  BY BoundsAssumption DEF Init, InvitesOK, SessionsOK, VerbType, AcceptType
<1> QED BY <1>5, <1>6 DEF MembersInv

-----------------------------------------------------------------------------
(* The steps of the verbs *)

\* A session goes on to a step that it has the data for.
LEMMA SessionGoesOn ==
    ASSUME MembersInv, NEW v \in Verbs, NEW s \in VerbType, verb' = [verb EXCEPT ![v] = s],
           UNCHANGED <<accept, DOMAIN invite>>, retired' \in [Names -> 0..MaxId]
    PROVE  SessionsOK'
BY DEF MembersInv, SessionsOK

\* The statements that only read.
LEMMA ReadingSteps ==
    ASSUME MembersInv, NEW v \in Verbs,
           \/ LookUp(v) \/ JudgeRole(v) \/ JudgeRemove(v) \/ JudgeName(v) \/ LookPrune(v) \/ Die(v)
           \/ \E i \in Live, q \in Requests : Begin(v, i, q)
    PROVE  MembersInv'
<1>0. UNCHANGED <<user, nextId, retired, invite, accept>>
  BY DEF LookUp, JudgeRole, JudgeRemove, JudgeName, LookPrune, Die, Begin
<1>1. UsersOK' /\ InvitesOK'
  BY <1>0 DEF MembersInv, UsersOK, InvitesOK, Live
<1>2. ASSUME NEW s \in VerbType, verb' = [verb EXCEPT ![v] = s] PROVE MembersInv'
  <2>1. SessionsOK'
    BY <1>0, <1>2, SessionGoesOn DEF MembersInv, SessionsOK
  <2> QED BY <1>1, <2>1 DEF MembersInv
<1>3. Idle \in VerbType
  BY DEF VerbType
<1>4. ASSUME NEW i \in Live, NEW q \in Requests, Begin(v, i, q) PROVE MembersInv'
  <2>1. [pc |-> "look", req |-> q, caller |-> Self(i)] \in VerbType
    BY LiveIds DEF MembersInv, VerbType
  <2> QED BY <1>2, <1>4, <2>1 DEF Begin
<1>5. CASE LookUp(v)
  <2>1. verb[v].req \in Requests /\ Caller(v) \in SelfType
    BY <1>5, VerbFields DEF LookUp
  <2>2. CASE Finish(v)
    BY <1>2, <1>3, <2>2 DEF Finish
  <2>3. ASSUME NEW t \in Named(verb[v].req.name),
               verb' = [verb EXCEPT ![v] = [pc |-> "judge", req |-> verb[v].req,
                                            caller |-> Caller(v), target |-> Row(t)]]
        PROVE  MembersInv'
    <3>1. Row(t) \in RowType
      BY LiveIds DEF Named, MembersInv
    <3>2. [pc |-> "judge", req |-> verb[v].req, caller |-> Caller(v), target |-> Row(t)]
             \in VerbType
      BY <2>1, <3>1 DEF VerbType
    <3> QED BY <1>2, <2>3, <3>2
  <2> QED BY <1>5, <2>2, <2>3 DEF LookUp
<1>6. ASSUME verb[v].pc = "judge", Goto(v, "write") \/ Finish(v) PROVE MembersInv'
  <2>1. CASE Finish(v)
    BY <1>2, <1>3, <2>1 DEF Finish
  <2>2. CASE Goto(v, "write")
    <3>1. /\ verb[v] = [pc |-> "judge", req |-> verb[v].req, caller |-> Caller(v),
                        target |-> Target(v)]
          /\ verb[v].req \in Requests /\ Caller(v) \in SelfType /\ Target(v) \in RowType
      BY <1>6, VerbFields
    <3>2. PICK s : s = [verb[v] EXCEPT !.pc = "write"]
      OBVIOUS
    <3>3. s = [pc |-> "write", req |-> verb[v].req, caller |-> Caller(v), target |-> Target(v)]
      BY <3>1, <3>2
    <3>4. s \in VerbType
      BY <3>1, <3>3 DEF VerbType
    <3>5. verb' = [verb EXCEPT ![v] = s]
      BY <2>2, <3>2 DEF Goto, MembersInv, SessionsOK
    <3> QED BY <1>2, <3>4, <3>5
  <2> QED BY <1>6, <2>1, <2>2
<1>7. CASE JudgeRole(v) \/ JudgeRemove(v) \/ JudgeName(v)
  BY <1>6, <1>7 DEF JudgeRole, JudgeRemove, JudgeName
<1>8. CASE LookPrune(v)
  <2>1. verb[v].req \in Requests /\ Caller(v) \in SelfType
    BY <1>8, VerbFields DEF LookPrune
  <2>2. CASE Finish(v)
    BY <1>2, <1>3, <2>2 DEF Finish
  <2>3. ASSUME NEW idle \in SUBSET Prunable(Caller(v)),
               verb' = [verb EXCEPT ![v] = [pc |-> "prune", req |-> verb[v].req,
                                            caller |-> Caller(v), idle |-> {Row(i) : i \in idle}]]
        PROVE  MembersInv'
    <3>1. PICK rows : rows = {Row(i) : i \in idle}
      OBVIOUS
    <3>2. rows \subseteq RowType
      BY <3>1, LiveIds DEF Prunable, MembersInv
    <3>3. [pc |-> "prune", req |-> verb[v].req, caller |-> Caller(v), idle |-> rows] \in VerbType
      BY <2>1, <3>2 DEF VerbType
    <3> QED BY <1>2, <2>3, <3>1, <3>3
  <2> QED BY <1>8, <2>2, <2>3 DEF LookPrune
<1>9. CASE Die(v)
  BY <1>2, <1>3, <1>9 DEF Die, Finish
<1> QED BY <1>4, <1>5, <1>7, <1>8, <1>9

\* UPDATE users SET role
LEMMA WriteRoleStep ==
    ASSUME MembersInv, NEW v \in Verbs, WriteRole(v)
    PROVE  MembersInv'
<1> DEFINE x == Target(v).id
           r == [user[x] EXCEPT !.role = verb[v].req.to]
<1>1. verb[v].req.to \in Roles
  BY VerbFields, RequestFields DEF WriteRole, Op
<1>2. x \in Live => /\ r \in UserType /\ r.key = user[x].key /\ r.by = user[x].by
                    /\ \A j \in Live \ {x} : user[j].name # r.name
  BY <1>1 DEF MembersInv, UsersOK, UserType
<1>3. user' = [i \in Live |-> IF i = x THEN r ELSE user[i]]
  BY DEF WriteRole
<1>4. UNCHANGED <<nextId, retired, invite, accept>> /\ verb' = [verb EXCEPT ![v] = Idle]
  BY DEF WriteRole, Finish
<1> HIDE DEF x, r
<1>5. UsersOK' /\ InvitesOK'
  BY <1>2, <1>3, <1>4, UpdateKeepsReferences DEF MembersInv
<1>6. SessionsOK'
  BY <1>4, SessionGoesOn DEF VerbType, MembersInv, SessionsOK
<1> QED BY <1>5, <1>6 DEF MembersInv

\* A session that has failed, or goes on to retire the name of its target.
LEMMA FailedOrRetires ==
    ASSUME MembersInv, NEW v \in Verbs, verb[v].pc \in {"write", "prune"},
           \/ Fail(v)
           \/ verb[v].pc = "write" /\ GoRetire(v),
           UNCHANGED <<retired, invite, accept>>
    PROVE  SessionsOK'
<1>1. verb[v].req.op \in {"role", "remove", "name", "prune", "mint"}
  BY VerbFields, RequestFields
<1>2. verb \in [Verbs -> VerbType]
  BY DEF MembersInv, SessionsOK
<1>3. CASE Fail(v)
  <2>1. [pc |-> "failed", op |-> verb[v].req.op] \in VerbType
    BY <1>1 DEF VerbType
  <2>2. verb' = [verb EXCEPT ![v] = [pc |-> "failed", op |-> verb[v].req.op]]
    BY <1>2, <1>3 DEF Fail
  <2> QED BY <2>1, <2>2, SessionGoesOn DEF MembersInv, SessionsOK
<1>4. CASE verb[v].pc = "write" /\ GoRetire(v)
  <2>1. Target(v) \in RowType
    BY <1>4, VerbFields
  <2>2. [pc |-> "retire", target |-> Target(v)] \in VerbType
    BY <2>1 DEF VerbType
  <2>3. verb' = [verb EXCEPT ![v] = [pc |-> "retire", target |-> Target(v)]]
    BY <1>2, <1>4 DEF GoRetire, Target
  <2> QED BY <2>2, <2>3, SessionGoesOn DEF MembersInv, SessionsOK
<1> QED BY <1>3, <1>4

\* DELETE FROM users, which the foreign keys may refuse
LEMMA WriteRemoveStep ==
    ASSUME MembersInv, NEW v \in Verbs, WriteRemove(v)
    PROVE  MembersInv'
<1>1. /\ verb[v].pc = "write" /\ UNCHANGED <<nextId, retired, invite, accept>>
      /\ Fail(v) \/ GoRetire(v)
  BY DEF WriteRemove
<1>2. SessionsOK'
  BY <1>1, FailedOrRetires
<1>3. UsersOK' /\ InvitesOK'
  <2>1. CASE UNCHANGED user
    BY <1>1, <2>1 DEF MembersInv, UsersOK, InvitesOK, Live
  <2>2. PICK i : i = Target(v).id
    OBVIOUS
  <2>3. CASE ~(i \in Live /\ Referenced(i)) /\ Delete(i)
    BY <1>1, <2>3, DeletionKeepsReferences DEF MembersInv
  <2> QED BY <2>1, <2>2, <2>3 DEF WriteRemove
<1> QED BY <1>2, <1>3 DEF MembersInv

\* retireShortName
LEMMA RetireStep ==
    ASSUME MembersInv, NEW v \in Verbs, Retire(v)
    PROVE  MembersInv'
<1>1. /\ Target(v) \in RowType
      /\ retired' = [retired EXCEPT ![Target(v).name] = Target(v).id]
      /\ verb' = [verb EXCEPT ![v] = Idle] /\ UNCHANGED <<user, nextId, invite, accept>>
  BY VerbFields DEF Retire, Finish
<1>2. retired' \in [Names -> 0..MaxId]
  BY <1>1 DEF MembersInv, SessionsOK, RowType, Ids
<1>3. SessionsOK'
  BY <1>1, <1>2, SessionGoesOn DEF VerbType
<1>4. UsersOK' /\ InvitesOK'
  BY <1>1 DEF MembersInv, UsersOK, InvitesOK, Live
<1> QED BY <1>3, <1>4 DEF MembersInv

\* UPDATE users SET short_name, which UNIQUE may refuse
LEMMA WriteNameStep ==
    ASSUME MembersInv, NEW v \in Verbs, WriteName(v)
    PROVE  MembersInv'
<1> DEFINE n == verb[v].req.to
           x == Target(v).id
           r == [user[x] EXCEPT !.name = n]
<1>1. /\ verb[v].pc = "write" /\ UNCHANGED <<nextId, retired, invite, accept>>
      /\ Fail(v) \/ GoRetire(v)
  BY DEF WriteName
<1>2. SessionsOK'
  BY <1>1, FailedOrRetires
<1>3. CASE UNCHANGED user
  BY <1>1, <1>2, <1>3 DEF MembersInv, UsersOK, InvitesOK, Live
<1>4. CASE /\ x \notin Live \/ Named(n) \subseteq {x}
           /\ user' = [j \in Live |-> IF j = x THEN [user[j] EXCEPT !.name = n] ELSE user[j]]
  <2>0. n \in Names
    BY VerbFields, RequestFields DEF WriteName, Op
  <2>1. x \in Live => /\ r \in UserType /\ r.key = user[x].key /\ r.by = user[x].by
                      /\ r.name = n
    BY <2>0 DEF MembersInv, UsersOK, UserType
  <2>2. x \in Live => \A j \in Live \ {x} : user[j].name # r.name
    BY <1>4, <2>1 DEF Named
  <2>3. user' = [i \in Live |-> IF i = x THEN r ELSE user[i]]
    BY <1>4
  <2> HIDE DEF x, r
  <2>4. UsersOK' /\ InvitesOK'
    BY <1>1, <2>1, <2>2, <2>3, UpdateKeepsReferences DEF MembersInv
  <2> QED BY <1>2, <2>4 DEF MembersInv
<1> QED BY <1>3, <1>4 DEF WriteName

\* One deletion of a prune, or its end
LEMMA PruneStep ==
    ASSUME MembersInv, NEW v \in Verbs, Prune(v)
    PROVE  MembersInv'
<1>0. /\ verb[v].pc = "prune" /\ UNCHANGED <<nextId, invite, accept>>
      /\ verb[v].idle \subseteq RowType /\ retired \in [Names -> 0..MaxId]
      /\ verb \in [Verbs -> VerbType]
  BY VerbFields DEF Prune, MembersInv, SessionsOK
<1>1. CASE Finish(v) /\ UNCHANGED <<user, retired>>
  <2>1. SessionsOK'
    BY <1>0, <1>1, SessionGoesOn DEF Finish, VerbType
  <2> QED BY <1>0, <1>1, <2>1 DEF MembersInv, UsersOK, InvitesOK, Live
<1>2. CASE Fail(v) /\ UNCHANGED <<user, retired>>
  <2>1. SessionsOK'
    BY <1>0, <1>2, FailedOrRetires
  <2> QED BY <1>0, <1>2, <2>1 DEF MembersInv, UsersOK, InvitesOK, Live
<1>3. ASSUME NEW r \in verb[v].idle, ~(r.id \in Live /\ Referenced(r.id)), Delete(r.id),
             retired' = [retired EXCEPT ![r.name] = r.id],
             verb' = [verb EXCEPT ![v].idle = @ \ {r}]
      PROVE  MembersInv'
  <2>1. retired' \in [Names -> 0..MaxId]
    <3>1. r.id \in 0..MaxId
      BY <1>0 DEF RowType, Ids
    <3> QED BY <1>0, <1>3, <3>1
  <2>2. PICK s : s = [verb[v] EXCEPT !.idle = @ \ {r}]
    OBVIOUS
  <2>3. s \in VerbType
    <3>1. /\ verb[v] = [pc |-> "prune", req |-> verb[v].req, caller |-> Caller(v),
                        idle |-> verb[v].idle]
          /\ verb[v].req \in Requests /\ Caller(v) \in SelfType
      BY <1>0, VerbFields
    <3>2. s = [pc |-> "prune", req |-> verb[v].req, caller |-> Caller(v),
               idle |-> verb[v].idle \ {r}]
      BY <2>2, <3>1
    <3> QED BY <1>0, <3>1, <3>2 DEF VerbType
  <2>4. verb' = [verb EXCEPT ![v] = s]
    BY <1>0, <1>3, <2>2
  <2>5. SessionsOK'
    BY <1>0, <2>1, <2>3, <2>4, SessionGoesOn
  <2>6. UsersOK' /\ InvitesOK'
    BY <1>0, <1>3, DeletionKeepsReferences DEF MembersInv
  <2> QED BY <2>5, <2>6 DEF MembersInv
<1> QED BY <1>1, <1>2, <1>3 DEF Prune

\* INSERT INTO invites
LEMMA MintStep ==
    ASSUME MembersInv, NEW v \in Verbs, Mint(v)
    PROVE  MembersInv'
<1>0. /\ verb' = [verb EXCEPT ![v] = Idle] /\ UNCHANGED <<user, nextId, retired, accept>>
      /\ verb[v].req \in Requests /\ Op(v) = "mint" /\ Caller(v) \in SelfType
  BY VerbFields DEF Mint, Finish
<1>1. UsersOK' /\ Live' = Live
  BY <1>0 DEF MembersInv, UsersOK, Live
<1>2. InvitesOK' /\ DOMAIN invite \subseteq DOMAIN invite'
  <2>1. CASE UNCHANGED invite
    BY <1>1, <2>1 DEF MembersInv, InvitesOK
  <2>2. ASSUME NEW t \in Tokens \ DOMAIN invite, Caller(v).id \in Live,
               invite' = [u \in DOMAIN invite \cup {t} |->
                             IF u = t THEN [state |-> "minted", role |-> verb[v].req.to,
                                            by |-> Caller(v).id, to |-> 0]
                             ELSE invite[u]]
        PROVE  InvitesOK' /\ DOMAIN invite \subseteq DOMAIN invite'
    <3>1. verb[v].req.to \in {"admin", "member"} /\ Caller(v).id \in Ids
      BY <1>0, RequestFields DEF Op, SelfType
    <3>2. [state |-> "minted", role |-> verb[v].req.to, by |-> Caller(v).id, to |-> 0]
             \in InviteType
      BY <3>1, BoundsAssumption DEF InviteType
    <3> QED BY <1>1, <2>2, <3>2 DEF MembersInv, InvitesOK
  <2> QED BY <2>1, <2>2 DEF Mint
<1>3. SessionsOK'
  BY <1>0, <1>2 DEF MembersInv, SessionsOK, VerbType
<1> QED BY <1>1, <1>2, <1>3 DEF MembersInv

-----------------------------------------------------------------------------
(* The accept of an invite *)

\* The request of the HTTP server goes on, or ends; the users stay.
LEMMA AcceptGoesOn ==
    ASSUME MembersInv, NEW a \in AcceptType, accept' = a,
           a # NoAccept => a.token \in DOMAIN invite,
           DOMAIN invite' = DOMAIN invite,
           \A t \in DOMAIN invite :
              /\ invite'[t] \in InviteType
              /\ invite'[t].by = invite[t].by /\ invite'[t].to \in Live \cup {0},
           UNCHANGED <<user, nextId, retired, verb>>
    PROVE  MembersInv'
BY DEF MembersInv, UsersOK, InvitesOK, SessionsOK, Live

\* The lookup of the name, and a request that is cut off
LEMMA PresentStep ==
    ASSUME MembersInv,
           DropAccept \/ \E t \in Tokens, n \in Names, k \in Keys : Present(t, n, k)
    PROVE  MembersInv'
<1>0. \A t \in DOMAIN invite : invite[t] \in InviteType /\ invite[t].to \in Live \cup {0}
  BY DEF MembersInv, InvitesOK
<1>1. CASE DropAccept
  BY <1>0, <1>1, AcceptGoesOn DEF DropAccept, AcceptType
<1>2. ASSUME NEW t \in Tokens, NEW n \in Names, NEW k \in Keys, Present(t, n, k)
      PROVE  MembersInv'
  <2>1. [pc |-> "consume", token |-> t, name |-> n, key |-> k] \in AcceptType
    BY DEF AcceptType
  <2>2. /\ t \in DOMAIN invite
        /\ accept' = [pc |-> "consume", token |-> t, name |-> n, key |-> k]
        /\ UNCHANGED <<user, nextId, retired, invite, verb>>
    BY <1>2 DEF Present
  <2> QED BY <1>0, <2>1, <2>2, AcceptGoesOn
<1> QED BY <1>1, <1>2

\* consumeInviteToken
LEMMA ConsumeStep ==
    ASSUME MembersInv, Consume
    PROVE  MembersInv'
<1>0. \A t \in DOMAIN invite : invite[t] \in InviteType /\ invite[t].to \in Live \cup {0}
  BY DEF MembersInv, InvitesOK
<1>1. CASE accept' = NoAccept /\ UNCHANGED invite
  BY <1>0, <1>1, AcceptGoesOn DEF Consume, AcceptType
<1>2. CASE /\ invite' = [invite EXCEPT ![accept.token].state = "used"]
           /\ accept' = [accept EXCEPT !.pc = "insert"]
  <2>1. /\ accept = [pc |-> accept.pc, token |-> accept.token, name |-> accept.name,
                     key |-> accept.key]
        /\ accept.token \in DOMAIN invite /\ accept.token \in Tokens
        /\ accept.name \in Names /\ accept.key \in Keys
    BY AcceptFields DEF Consume
  <2>2. accept' = [pc |-> "insert", token |-> accept.token, name |-> accept.name,
                   key |-> accept.key]
    BY <1>2, <2>1
  <2>3. [pc |-> "insert", token |-> accept.token, name |-> accept.name,
         key |-> accept.key] \in AcceptType
    BY <2>1 DEF AcceptType
  <2>4. \A t \in DOMAIN invite :
          /\ invite'[t] \in InviteType
          /\ invite'[t].by = invite[t].by /\ invite'[t].to \in Live \cup {0}
    BY <1>0, <1>2, <2>1 DEF InviteType
  <2>5. DOMAIN invite' = DOMAIN invite
    BY <1>2
  <2> QED BY <2>1, <2>2, <2>3, <2>4, <2>5, AcceptGoesOn DEF Consume
<1> QED BY <1>1, <1>2 DEF Consume

\* What insertUser does to the table.
LEMMA InsertedRow ==
    ASSUME MembersInv, Insert, UNCHANGED nextId => FALSE
    PROVE  /\ ~Collides(accept) /\ nextId \in Ids /\ nextId' = nextId + 1
           /\ accept' = [pc |-> "mark", token |-> accept.token, id |-> nextId]
           /\ Live' = Live \cup {nextId} /\ nextId \notin Live
           /\ user'[nextId] = NewRow(accept) /\ NewRow(accept) \in UserType
           /\ NewRow(accept).role \in {"admin", "member"} /\ NewRow(accept).by \in Live
           /\ \A i \in Live : user'[i] = user[i]
<1>1. /\ ~Collides(accept) /\ nextId <= MaxId /\ nextId' = nextId + 1
      /\ user' = [i \in Live \cup {nextId} |-> IF i = nextId THEN NewRow(accept) ELSE user[i]]
      /\ accept' = [pc |-> "mark", token |-> accept.token, id |-> nextId]
  BY DEF Insert
<1>2. nextId \in Ids /\ nextId \notin Live
  BY <1>1, LiveIds, BoundsAssumption DEF MembersInv, UsersOK, Ids
<1>3. /\ accept.token \in DOMAIN invite /\ accept.name \in Names /\ accept.key \in Keys
      /\ invite[accept.token] \in InviteType /\ invite[accept.token].by \in Live
  BY AcceptFields DEF Insert, MembersInv, InvitesOK
<1>4. /\ NewRow(accept) \in UserType /\ NewRow(accept).by \in Live
      /\ NewRow(accept).role \in {"admin", "member"}
  BY <1>3, BoundsAssumption DEF NewRow, UserType, InviteType, Roles, Ids
<1>5. Live' = Live \cup {nextId} /\ user'[nextId] = NewRow(accept)
      /\ \A i \in Live : user'[i] = user[i]
  BY <1>1, <1>2 DEF Live
<1> QED BY <1>1, <1>2, <1>4, <1>5

\* insertUser
LEMMA InsertStep ==
    ASSUME MembersInv, Insert
    PROVE  MembersInv'
<1>0. UNCHANGED <<retired, invite, verb>> /\ nextId \in Int
  BY DEF Insert, MembersInv, UsersOK
<1>1. CASE nextId' = nextId
  <2>1. accept' = NoAccept /\ UNCHANGED user
    BY <1>0, <1>1 DEF Insert
  <2> QED BY <1>0, <1>1, <2>1, AcceptGoesOn DEF AcceptType, MembersInv, InvitesOK
<1>2. CASE nextId' # nextId
  <2>1. /\ ~Collides(accept) /\ nextId \in Ids /\ nextId' = nextId + 1
        /\ accept' = [pc |-> "mark", token |-> accept.token, id |-> nextId]
        /\ Live' = Live \cup {nextId} /\ nextId \notin Live
        /\ user'[nextId] = NewRow(accept) /\ NewRow(accept) \in UserType
        /\ NewRow(accept).by \in Live
        /\ \A i \in Live : user'[i] = user[i]
    BY <1>2, InsertedRow
  <2>2. \A i \in Live : user[i].name # NewRow(accept).name /\ user[i].key # NewRow(accept).key
    BY <2>1 DEF Collides, NewRow
  <2>3. UsersOK'
    <3>1. Live' \subseteq 1..(nextId' - 1) /\ nextId' \in 1..(MaxId + 1)
      <4>1. Live \subseteq 1..(nextId - 1) /\ nextId \in 1..MaxId /\ MaxId \in Nat
        BY <2>1, BoundsAssumption DEF MembersInv, UsersOK, Ids
      <4>2. nextId' - 1 = nextId /\ nextId' \in 1..(MaxId + 1)
        BY <2>1, <4>1
      <4>3. Live \cup {nextId} \subseteq 1..nextId
        BY <4>1
      <4> QED BY <2>1, <4>2, <4>3
    <3>2. \A i \in Live' : user'[i] \in UserType /\ user'[i].by \in Live' \cup {0}
      BY <2>1 DEF MembersInv, UsersOK
    <3>3. \A i, j \in Live' :
            (user'[i].name = user'[j].name \/ user'[i].key = user'[j].key) => i = j
      BY <2>1, <2>2 DEF MembersInv, UsersOK
    <3> QED BY <3>1, <3>2, <3>3 DEF UsersOK
  <2>4. InvitesOK'
    BY <1>0, <2>1 DEF MembersInv, InvitesOK
  <2>5. SessionsOK'
    <3>1. accept.token \in Tokens /\ accept.token \in DOMAIN invite
      BY AcceptFields DEF Insert
    <3>2. [pc |-> "mark", token |-> accept.token, id |-> nextId] \in AcceptType
      BY <2>1, <3>1 DEF AcceptType
    <3> QED BY <1>0, <2>1, <3>1, <3>2 DEF MembersInv, SessionsOK
  <2> QED BY <2>3, <2>4, <2>5 DEF MembersInv
<1> QED BY <1>1, <1>2

\* markInviteConsumer, and the lapse of an invite
LEMMA MarkStep ==
    ASSUME MembersInv, Mark \/ \E t \in Tokens : Expire(t)
    PROVE  MembersInv'
<1>0. \A t \in DOMAIN invite : invite[t] \in InviteType /\ invite[t].to \in Live \cup {0}
  BY DEF MembersInv, InvitesOK
<1>1. CASE Mark
  <2>1. accept.token \in DOMAIN invite /\ accept.id \in Ids
    BY <1>1, AcceptFields DEF Mark
  <2>2. DOMAIN invite' = DOMAIN invite
    BY <1>1 DEF Mark
  <2>3. \A t \in DOMAIN invite :
          /\ invite'[t] \in InviteType
          /\ invite'[t].by = invite[t].by /\ invite'[t].to \in Live \cup {0}
    <3>1. accept.id \in 0..MaxId
      BY <2>1, BoundsAssumption DEF Ids
    <3> QED BY <1>0, <1>1, <2>1, <3>1 DEF Mark, InviteType
  <2> QED BY <1>1, <2>2, <2>3, AcceptGoesOn DEF Mark, AcceptType
<1>2. ASSUME NEW t \in Tokens, Expire(t) PROVE MembersInv'
  <2>1. /\ DOMAIN invite' = DOMAIN invite
        /\ \A u \in DOMAIN invite :
             /\ invite'[u] \in InviteType
             /\ invite'[u].by = invite[u].by /\ invite'[u].to \in Live \cup {0}
    BY <1>0, <1>2 DEF Expire, InviteType
  <2> QED BY <1>2, <2>1 DEF Expire, MembersInv, UsersOK, InvitesOK, SessionsOK, Live
<1> QED BY <1>1, <1>2

-----------------------------------------------------------------------------

\* Every step keeps it: the verbs, their deaths and the expiry of tokens.
LEMMA NextKeepsMembersInv == MembersInv /\ [Next]_vars => MembersInv'
<1> SUFFICES ASSUME MembersInv, [Next]_vars PROVE MembersInv'
  OBVIOUS
<1>1. ASSUME NEW v \in Verbs, VerbStep(v) PROVE MembersInv'
  BY <1>1, ReadingSteps, WriteRoleStep, WriteRemoveStep, RetireStep, WriteNameStep, PruneStep,
     MintStep DEF VerbStep
<1>2. CASE AcceptStep
  BY <1>2, PresentStep, ConsumeStep, InsertStep, MarkStep DEF AcceptStep
<1>3. CASE \E t \in Tokens : Expire(t)
  BY <1>3, MarkStep
<1>4. CASE UNCHANGED vars
  BY <1>4 DEF vars, MembersInv, UsersOK, InvitesOK, SessionsOK, Live
<1> QED BY <1>1, <1>2, <1>3, <1>4 DEF Next

\* The tables keep their types, their UNIQUE columns and their foreign keys
\* whichever verbs interleave with each other and with an accept; a session has
\* the data of the statement it is at (userOps.ts, users-cli.ts).
THEOREM MembersTypeCorrect == Spec => []TypeOK
<1>1. Init => MembersInv
  BY SeededIsTyped
<1>2. MembersInv /\ [Next]_vars => MembersInv'
  BY NextKeepsMembersInv
<1>3. MembersInv => TypeOK
  BY InvIsTyped
<1> QED BY <1>1, <1>2, <1>3, PTL DEF Spec

-----------------------------------------------------------------------------
(* One person for each token.  Between the token that consumeInviteToken     *)
(* marks and the row of insertUser a token is used that has no row yet.      *)

Used == {t \in DOMAIN invite : invite[t].state = "used"}

Unspent == IF accept.pc = "insert" THEN 1 ELSE 0

TokensPay ==
    /\ IsFiniteSet(Used)
    /\ nextId - 1 - Cardinality(DOMAIN Seeded) + Unspent <= Cardinality(Used)

\* The users of the first database are finitely many.
LEMMA SeededCount == Cardinality(DOMAIN Seeded) \in Nat
BY SeededAssumption, FS_Subset, FS_CardinalityType

\* Nobody is enrolled at first but who was seeded.
LEMMA InitTokensPay == Init => TokensPay
<1> SUFFICES ASSUME Init PROVE TokensPay
  OBVIOUS
<1>1. Used = {} /\ Unspent = 0 /\ nextId = Cardinality(DOMAIN Seeded) + 1
  BY DEF Init, Used, Unspent, NoAccept
<1>2. IsFiniteSet({}) /\ Cardinality({}) = 0
  BY FS_EmptySet
<1> QED BY <1>1, <1>2, SeededCount DEF TokensPay

\* A step that neither uses a token nor inserts a row.
LEMMA NothingSpent ==
    ASSUME TokensPay, UsersOK, UNCHANGED nextId, Used' = Used,
           accept'.pc = "insert" => accept.pc = "insert"
    PROVE  TokensPay'
<1>1. Cardinality(Used) \in Nat
  BY FS_CardinalityType DEF TokensPay
<1>2. Unspent' <= Unspent /\ Unspent \in Int /\ Unspent' \in Int
  BY DEF Unspent
<1>3. nextId \in Int
  BY DEF UsersOK
<1> QED BY <1>1, <1>2, <1>3, SeededCount DEF TokensPay

\* A row is inserted only after a token was used for it, and no token is used twice.
LEMMA NextKeepsTokensPay == MembersInv /\ TokensPay /\ [Next]_vars => TokensPay'
<1> SUFFICES ASSUME MembersInv, TokensPay, [Next]_vars PROVE TokensPay'
  OBVIOUS
<1>0. UsersOK /\ nextId \in Int /\ Cardinality(Used) \in Nat
  <2>1. UsersOK
    BY DEF MembersInv
  <2>2. nextId \in Int
    BY <2>1 DEF UsersOK
  <2>3. Cardinality(Used) \in Nat
    BY FS_CardinalityType DEF TokensPay
  <2> QED BY <2>1, <2>2, <2>3
<1>1. ASSUME NEW v \in Verbs, VerbStep(v) PROVE TokensPay'
  <2>1. UNCHANGED <<nextId, accept>>
    BY <1>1 DEF VerbStep, LookUp, JudgeRole, WriteRole, JudgeRemove, WriteRemove, Retire,
       JudgeName, WriteName, LookPrune, Prune, Mint, Die, Begin
  <2>2. Used' = Used
    <3>1. CASE UNCHANGED invite
      BY <3>1 DEF Used
    <3>2. ASSUME NEW t \in Tokens \ DOMAIN invite, NEW r,
                 r.state = "minted",
                 invite' = [u \in DOMAIN invite \cup {t} |-> IF u = t THEN r ELSE invite[u]]
          PROVE  Used' = Used
      BY <3>2 DEF Used
    <3>3. CASE Mint(v)
      <4>1. ASSUME NEW t \in Tokens \ DOMAIN invite,
                   invite' = [u \in DOMAIN invite \cup {t} |->
                                IF u = t THEN [state |-> "minted", role |-> verb[v].req.to,
                                               by |-> Caller(v).id, to |-> 0]
                                ELSE invite[u]]
            PROVE  Used' = Used
        BY <3>2, <4>1
      <4> QED BY <3>1, <3>3, <4>1 DEF Mint
    <3>4. Mint(v) \/ UNCHANGED invite
      BY <1>1 DEF VerbStep, LookUp, JudgeRole, WriteRole, JudgeRemove, WriteRemove, Retire,
         JudgeName, WriteName, LookPrune, Prune, Die, Begin
    <3> QED BY <3>1, <3>3, <3>4
  <2> QED BY <1>0, <2>1, <2>2, NothingSpent
<1>2. CASE Consume
  <2>1. CASE accept' = NoAccept /\ UNCHANGED <<invite, nextId>>
    <3>1. Used' = Used /\ accept'.pc # "insert"
      BY <2>1 DEF Used, NoAccept
    <3> QED BY <1>0, <2>1, <3>1, NothingSpent
  <2>2. CASE /\ Consumable(accept.token)
             /\ invite' = [invite EXCEPT ![accept.token].state = "used"]
             /\ accept' = [accept EXCEPT !.pc = "insert"]
    <3>1. accept.token \in DOMAIN invite /\ invite[accept.token] \in InviteType
      BY <1>2, AcceptFields DEF Consume, MembersInv, InvitesOK
    <3>2. Used' = Used \cup {accept.token} /\ accept.token \notin Used
      BY <2>2, <3>1 DEF Used, Consumable, InviteType
    <3>3. IsFiniteSet(Used') /\ Cardinality(Used') = Cardinality(Used) + 1
      BY <3>2, FS_AddElement DEF TokensPay
    <3>4. Unspent = 0 /\ Unspent' \in 0..1 /\ nextId' = nextId
      BY <1>2 DEF Consume, Unspent
    <3> QED BY <1>0, <3>3, <3>4, SeededCount DEF TokensPay
  <2> QED BY <1>2, <2>1, <2>2 DEF Consume
<1>3. CASE Insert
  <2>1. Used' = Used /\ Unspent = 1 /\ Unspent' = 0
    BY <1>3 DEF Insert, Used, Unspent, NoAccept
  <2>2. nextId' \in {nextId, nextId + 1}
    BY <1>3 DEF Insert
  <2> QED BY <1>0, <2>1, <2>2, SeededCount DEF TokensPay
<1>4. CASE Mark
  <2>1. accept.token \in DOMAIN invite /\ invite[accept.token] \in InviteType
    BY <1>4, AcceptFields DEF Mark, MembersInv, InvitesOK
  <2>2. Used' = Used /\ accept'.pc # "insert" /\ nextId' = nextId
    BY <1>4, <2>1 DEF Mark, Used, NoAccept, InviteType, MembersInv, InvitesOK
  <2> QED BY <1>0, <2>2, NothingSpent
<1>5. CASE DropAccept \/ \E t \in Tokens, n \in Names, k \in Keys : Present(t, n, k)
  <2>1. Used' = Used /\ accept'.pc # "insert" /\ nextId' = nextId
    BY <1>5 DEF DropAccept, Present, Used, NoAccept
  <2> QED BY <1>0, <2>1, NothingSpent
<1>6. ASSUME NEW t \in Tokens, Expire(t) PROVE TokensPay'
  <2>1. Used' = Used /\ UNCHANGED <<accept, nextId>>
    BY <1>6 DEF Expire, Used, InviteType, MembersInv, InvitesOK
  <2> QED BY <1>0, <2>1, NothingSpent
<1>7. CASE UNCHANGED vars
  <2>1. Used' = Used /\ UNCHANGED <<accept, nextId>>
    BY <1>7 DEF vars, Used
  <2> QED BY <1>0, <2>1, NothingSpent
<1> QED BY <1>1, <1>2, <1>3, <1>4, <1>5, <1>6, <1>7 DEF Next, AcceptStep

\* A token enrolls one person at most, whatever is retried, whichever verbs
\* interleave and wherever the server dies (the single-use UPDATE of
\* consumeInviteToken, and an insert that follows it).
THEOREM TokensEnrollOnce == Spec => []InviteUsedOnce
<1>1. Init => MembersInv /\ TokensPay
  BY SeededIsTyped, InitTokensPay
<1>2. MembersInv /\ TokensPay /\ [Next]_vars => MembersInv' /\ TokensPay'
  BY NextKeepsMembersInv, NextKeepsTokensPay
<1>3. MembersInv /\ TokensPay => InviteUsedOnce
  <2> SUFFICES ASSUME MembersInv, TokensPay PROVE InviteUsedOnce
    OBVIOUS
  <2>1. nextId \in Int /\ Cardinality(Used) \in Nat /\ Unspent \in 0..1
    BY FS_CardinalityType DEF MembersInv, UsersOK, TokensPay, Unspent
  <2> QED BY <2>1, SeededCount DEF TokensPay, InviteUsedOnce, Used
<1> QED BY <1>1, <1>2, <1>3, PTL DEF Spec

-----------------------------------------------------------------------------
(* The last owner, where the verbs run one after the other.  What a verb    *)
(* has read still stands when it writes: in between only the accept writes, *)
(* and it touches no row that was there and makes no owner.                 *)

OneAtATime == \A v, w \in Verbs : v = w

\* The row that a session holds is still of the role it read.
Stands(r) == r.id \in Live /\ user[r.id].role = r.role

\* The checks of a session that is about to write hold.
Judged(v) ==
    /\ Op(v) = "role" =>
          MaySetRole(Caller(v), Target(v), verb[v].req.to, Cardinality(Owners))
    /\ Op(v) = "remove" => MayRemove(Caller(v), Target(v), Cardinality(Owners))

ReadsStand(v) ==
    /\ verb[v].pc \in {"look", "judge", "write"} => Stands(Caller(v))
    /\ verb[v].pc \in {"judge", "write"} => Stands(Target(v))
    /\ verb[v].pc = "write" => Judged(v)
    /\ verb[v].pc = "prune" =>
          \A r \in verb[v].idle : r.id \in Live => user[r.id].role # "owner"

\* Only an owner mints an invite for an admin, and from then on there is one.
AdminsAreInvitedByOwners ==
    (\E t \in DOMAIN invite : invite[t].role = "admin") => Owners # {}

OwnerInv ==
    /\ MembersInv
    /\ \A v \in Verbs : ReadsStand(v)
    /\ AdminsAreInvitedByOwners

\* More than one owner: one of them is not x.
LEMMA AnotherOwner ==
    ASSUME UsersOK, Cardinality(Owners) > 1, NEW x
    PROVE  \E o \in Owners : o # x
<1> SUFFICES ASSUME Owners \subseteq {x} PROVE FALSE
  OBVIOUS
<1>1. IsFiniteSet({x}) /\ Cardinality({x}) = 1
  BY FS_Singleton
<1>2. Cardinality(Owners) <= 1 /\ Cardinality(Owners) \in Nat
  BY <1>1, FS_Subset, FS_CardinalityType
<1> QED BY <1>2

\* No step leaves a server that has an owner without one.
LEMMA OwnersStay == OwnerInv /\ [Next]_vars => (Owners # {} => Owners' # {})
<1> SUFFICES ASSUME OwnerInv, [Next]_vars, Owners # {} PROVE Owners' # {}
  OBVIOUS
<1>0. MembersInv /\ UsersOK
  BY DEF OwnerInv, MembersInv
<1>1. CASE UNCHANGED user
  BY <1>1 DEF Owners, Live
<1>2. ASSUME NEW v \in Verbs, WriteRole(v) PROVE Owners' # {}
  <2> DEFINE x == Target(v).id
             to == verb[v].req.to
  <2>1. /\ x \in Live /\ user[x].role = Target(v).role
        /\ MaySetRole(Caller(v), Target(v), to, Cardinality(Owners))
    BY <1>2 DEF WriteRole, OwnerInv, ReadsStand, Stands, Judged
  <2>2. Live' = Live /\ (\A i \in Live : user'[i] = IF i = x THEN [user[i] EXCEPT !.role = to]
                                                    ELSE user[i])
    BY <1>2 DEF WriteRole, Live
  <2>3. user[x] \in UserType
    BY <1>0, <2>1 DEF UsersOK
  <2> HIDE DEF x
  <2>4. CASE to = "owner"
    <3>1. user'[x].role = "owner"
      BY <2>1, <2>2, <2>3, <2>4 DEF UserType
    <3> QED BY <2>1, <2>2, <3>1 DEF Owners
  <2>5. CASE to # "owner" /\ Target(v).role = "owner"
    <3>1. PICK o \in Owners : o # x
      BY <1>0, <2>1, <2>5, AnotherOwner DEF MaySetRole
    <3> QED BY <2>2, <3>1 DEF Owners
  <2>6. CASE Target(v).role # "owner"
    <3>1. PICK o \in Owners : TRUE
      OBVIOUS
    <3> QED BY <2>1, <2>2, <2>6, <3>1 DEF Owners
  <2> QED BY <2>4, <2>5, <2>6
<1>3. ASSUME NEW x, Delete(x), x \in Live /\ user[x].role = "owner" => Cardinality(Owners) > 1
      PROVE  Owners' # {}
  <2>1. Live' = Live \ {x} /\ \A i \in Live' : user'[i] = user[i]
    BY <1>3 DEF Delete, Only, Live
  <2>2. PICK o \in Owners : o # x
    BY <1>0, <1>3, AnotherOwner DEF Owners
  <2> QED BY <2>1, <2>2 DEF Owners
<1>4. ASSUME NEW v \in Verbs, WriteRemove(v) PROVE Owners' # {}
  <2>1. PICK x : x = Target(v).id
    OBVIOUS
  <2>2. /\ x \in Live /\ user[x].role = Target(v).role
        /\ MayRemove(Caller(v), Target(v), Cardinality(Owners))
    BY <1>4, <2>1 DEF WriteRemove, OwnerInv, ReadsStand, Stands, Judged
  <2>3. UNCHANGED user \/ Delete(x)
    BY <1>4, <2>1 DEF WriteRemove
  <2> QED BY <1>1, <1>3, <2>2, <2>3 DEF MayRemove
<1>5. ASSUME NEW v \in Verbs, WriteName(v) PROVE Owners' # {}
  <2>1. CASE user' = [j \in Live |-> IF j = Target(v).id
                                     THEN [user[j] EXCEPT !.name = verb[v].req.to] ELSE user[j]]
    <3>1. \A j \in Live : user[j] \in UserType
      BY <1>0 DEF UsersOK
    <3>2. Live' = Live /\ \A j \in Live : user'[j].role = user[j].role
      BY <2>1, <3>1 DEF Live, UserType
    <3> QED BY <3>2 DEF Owners
  <2> QED BY <1>1, <1>5, <2>1 DEF WriteName
<1>6. ASSUME NEW v \in Verbs, Prune(v) PROVE Owners' # {}
  <2>1. \A r \in verb[v].idle : r.id \in Live => user[r.id].role # "owner"
    BY <1>6 DEF Prune, OwnerInv, ReadsStand
  <2>2. ASSUME NEW r \in verb[v].idle, Delete(r.id) PROVE Owners' # {}
    BY <1>3, <2>1, <2>2
  <2> QED BY <1>1, <1>6, <2>2 DEF Prune
<1>7. CASE Insert
  <2>1. CASE nextId' # nextId
    BY <1>0, <1>7, <2>1, InsertedRow DEF Owners
  <2>2. nextId + 1 # nextId
    BY <1>0 DEF UsersOK
  <2> QED BY <1>1, <1>7, <2>1, <2>2 DEF Insert
<1>8. ASSUME NEW v \in Verbs,
             \/ LookUp(v) \/ JudgeRole(v) \/ JudgeRemove(v) \/ Retire(v) \/ JudgeName(v)
             \/ LookPrune(v) \/ Mint(v) \/ Die(v)
             \/ \E i \in Live, q \in Requests : Begin(v, i, q)
      PROVE  UNCHANGED user
  BY <1>8 DEF LookUp, JudgeRole, JudgeRemove, Retire, JudgeName, LookPrune, Mint, Die, Begin
<1>9. ASSUME \/ Consume \/ Mark \/ DropAccept
             \/ \E t \in Tokens, n \in Names, k \in Keys : Present(t, n, k)
             \/ \E t \in Tokens : Expire(t)
             \/ UNCHANGED vars
      PROVE  UNCHANGED user
  BY <1>9 DEF Consume, Mark, DropAccept, Present, Expire, vars
<1> QED BY <1>1, <1>2, <1>4, <1>5, <1>6, <1>7, <1>8, <1>9 DEF Next, VerbStep, AcceptStep

\* A step that leaves the session and the rows it may hold alone.
LEMMA OthersLeaveItStanding ==
    ASSUME NEW v \in Verbs, ReadsStand(v), verb'[v] = verb[v], Live \subseteq Live',
           \A i \in Live : user'[i] = user[i],
           \A i \in Live' \ Live : user'[i].role # "owner"
    PROVE  ReadsStand(v)'
<1>1. Owners' = Owners
  BY DEF Owners
<1>2. verb[v].pc = "write" => Judged(v)'
  BY <1>1 DEF ReadsStand, Judged, Op, Caller, Target, MaySetRole, MayRemove
<1> QED BY <1>2 DEF ReadsStand, Stands, Caller, Target

\* With one session, nothing is held once it ended.
LEMMA NothingHeld ==
    ASSUME OneAtATime, NEW v \in Verbs, verb'[v].pc \in {"idle", "failed", "retire"}
    PROVE  \A w \in Verbs : ReadsStand(w)'
BY DEF OneAtATime, ReadsStand

\* What the one session under way has read still holds of the table.
LEMMA ReadsStandNext ==
    OwnerInv /\ OneAtATime /\ [Next]_vars => \A v \in Verbs : ReadsStand(v)'
<1> SUFFICES ASSUME OwnerInv, OneAtATime, [Next]_vars PROVE \A v \in Verbs : ReadsStand(v)'
  OBVIOUS
<1>0. MembersInv /\ UsersOK /\ verb \in [Verbs -> VerbType] /\ \A v \in Verbs : ReadsStand(v)
  BY DEF OwnerInv, MembersInv, SessionsOK
<1>1. CASE UNCHANGED <<user, verb>>
  BY <1>0, <1>1, OthersLeaveItStanding DEF Live
<1>2. CASE Insert
  <2>1. CASE nextId' # nextId
    BY <1>0, <1>2, <2>1, InsertedRow, OthersLeaveItStanding DEF Insert
  <2>2. nextId + 1 # nextId
    BY <1>0 DEF UsersOK
  <2> QED BY <1>1, <1>2, <2>1, <2>2 DEF Insert
<1>3. ASSUME NEW v \in Verbs, Finish(v) \/ Fail(v) \/ GoRetire(v)
      PROVE  \A w \in Verbs : ReadsStand(w)'
  <2>1. verb'[v].pc \in {"idle", "failed", "retire"}
    BY <1>0, <1>3 DEF Finish, Fail, GoRetire, Idle
  <2> QED BY <2>1, NothingHeld
<1>4. ASSUME NEW v \in Verbs, ReadsStand(v)' PROVE \A w \in Verbs : ReadsStand(w)'
  BY <1>4 DEF OneAtATime
<1>5. ASSUME NEW v \in Verbs, NEW i \in Live, NEW q \in Requests, Begin(v, i, q)
      PROVE  ReadsStand(v)'
  <2>1. verb'[v] = [pc |-> "look", req |-> q, caller |-> Self(i)] /\ UNCHANGED user
    BY <1>0, <1>5 DEF Begin
  <2> QED BY <2>1 DEF ReadsStand, Stands, Caller, Self, Live
<1>6. ASSUME NEW v \in Verbs, LookUp(v) PROVE \A w \in Verbs : ReadsStand(w)'
  <2>1. ASSUME NEW t \in Named(verb[v].req.name),
               verb' = [verb EXCEPT ![v] = [pc |-> "judge", req |-> verb[v].req,
                                            caller |-> Caller(v), target |-> Row(t)]]
        PROVE  ReadsStand(v)'
    <3>1. verb'[v] = [pc |-> "judge", req |-> verb[v].req, caller |-> Caller(v),
                      target |-> Row(t)]
      BY <1>0, <2>1
    <3>2. Stands(Caller(v)) /\ Stands(Row(t)) /\ UNCHANGED user
      BY <1>0, <1>6 DEF LookUp, ReadsStand, Stands, Row, Named
    <3> QED BY <3>1, <3>2 DEF ReadsStand, Stands, Caller, Target, Live
  <2> QED BY <1>3, <1>4, <1>6, <2>1 DEF LookUp
<1>7. ASSUME NEW v \in Verbs, verb[v].pc = "judge", Judged(v), Goto(v, "write"), UNCHANGED user
      PROVE  ReadsStand(v)'
  <2>1. verb'[v] = [verb[v] EXCEPT !.pc = "write"]
    BY <1>0, <1>7 DEF Goto
  <2>2. verb[v] = [pc |-> "judge", req |-> verb[v].req, caller |-> Caller(v),
                   target |-> Target(v)]
    BY <1>0, <1>7, VerbFields
  <2>3. /\ verb'[v].pc = "write" /\ verb'[v].req = verb[v].req
        /\ verb'[v].caller = verb[v].caller /\ verb'[v].target = verb[v].target
    BY <2>1, <2>2
  <2>4. Judged(v)' /\ Live' = Live
    <3>1. Owners' = Owners /\ Live' = Live
      BY <1>7 DEF Owners, Live
    <3> QED BY <1>7, <2>3, <3>1 DEF Judged, Op, Caller, Target, MaySetRole, MayRemove
  <2>5. Stands(Caller(v)) /\ Stands(Target(v))
    BY <1>0, <1>7 DEF ReadsStand
  <2> QED BY <1>7, <2>3, <2>4, <2>5 DEF ReadsStand, Stands, Caller, Target
<1>8. ASSUME NEW v \in Verbs, JudgeRole(v) \/ JudgeRemove(v) \/ JudgeName(v)
      PROVE  \A w \in Verbs : ReadsStand(w)'
  <2>1. verb[v].pc = "judge" /\ UNCHANGED user
    BY <1>8 DEF JudgeRole, JudgeRemove, JudgeName
  <2>2. Finish(v) \/ (Goto(v, "write") /\ Judged(v))
    BY <1>8 DEF JudgeRole, JudgeRemove, JudgeName, Judged
  <2> QED BY <1>3, <1>4, <1>7, <2>1, <2>2
<1>9. ASSUME NEW v \in Verbs, LookPrune(v) PROVE \A w \in Verbs : ReadsStand(w)'
  <2>1. ASSUME NEW idle \in SUBSET Prunable(Caller(v)),
               verb' = [verb EXCEPT ![v] = [pc |-> "prune", req |-> verb[v].req,
                                            caller |-> Caller(v), idle |-> {Row(i) : i \in idle}]]
        PROVE  ReadsStand(v)'
    <3>1. verb'[v] = [pc |-> "prune", req |-> verb[v].req, caller |-> Caller(v),
                      idle |-> {Row(i) : i \in idle}]
      BY <1>0, <2>1
    <3>2. \A r \in verb'[v].idle : user[r.id].role # "owner"
      BY <3>1 DEF Prunable, Row
    <3> QED BY <1>9, <3>1, <3>2 DEF ReadsStand, LookPrune
  <2> QED BY <1>3, <1>4, <1>9, <2>1 DEF LookPrune
<1>10. ASSUME NEW v \in Verbs, Prune(v) PROVE \A w \in Verbs : ReadsStand(w)'
  <2>1. ASSUME NEW r \in verb[v].idle, Delete(r.id), verb' = [verb EXCEPT ![v].idle = @ \ {r}]
        PROVE  ReadsStand(v)'
    <3>1. verb'[v].pc = "prune" /\ verb'[v].idle \subseteq verb[v].idle
      <4>1. verb[v] = [pc |-> "prune", req |-> verb[v].req, caller |-> Caller(v),
                       idle |-> verb[v].idle]
        BY <1>0, <1>10, VerbFields DEF Prune
      <4>2. verb'[v] = [verb[v] EXCEPT !.idle = @ \ {r}]
        BY <1>0, <2>1
      <4> QED BY <4>1, <4>2
    <3>2. Live' \subseteq Live /\ \A i \in Live' : user'[i] = user[i]
      BY <2>1 DEF Delete, Only, Live
    <3>3. \A s \in verb[v].idle : s.id \in Live => user[s.id].role # "owner"
      BY <1>0, <1>10 DEF Prune, ReadsStand
    <3> QED BY <3>1, <3>2, <3>3 DEF ReadsStand
  <2> QED BY <1>3, <1>4, <1>10, <2>1 DEF Prune
<1>11. ASSUME NEW v \in Verbs,
              WriteRole(v) \/ WriteRemove(v) \/ Retire(v) \/ WriteName(v) \/ Mint(v) \/ Die(v)
       PROVE  Finish(v) \/ Fail(v) \/ GoRetire(v)
  BY <1>11 DEF WriteRole, WriteRemove, Retire, WriteName, Mint, Die
<1>12. ASSUME \/ Consume \/ Mark \/ DropAccept
              \/ \E t \in Tokens, n \in Names, k \in Keys : Present(t, n, k)
              \/ \E t \in Tokens : Expire(t)
              \/ UNCHANGED vars
       PROVE  UNCHANGED <<user, verb>>
  BY <1>12 DEF Consume, Mark, DropAccept, Present, Expire, vars
<1>13. ASSUME NEW v \in Verbs, VerbStep(v) PROVE \A w \in Verbs : ReadsStand(w)'
  BY <1>3, <1>4, <1>5, <1>6, <1>8, <1>9, <1>10, <1>11, <1>13 DEF VerbStep
<1> QED BY <1>1, <1>2, <1>12, <1>13 DEF Next, AcceptStep

\* The caller of a statement that reads or writes is who it was: without an
\* owner in the table it is no owner.
LEMMA NoOwnerCalls ==
    ASSUME OwnerInv, Owners = {}, NEW v \in Verbs, verb[v].pc \in {"look", "judge", "write"}
    PROVE  Caller(v).role # "owner" /\ Caller(v).id \in Live
                                    /\ user[Caller(v).id].role = Caller(v).role
BY DEF OwnerInv, ReadsStand, Stands, Owners

\* An invite for an admin is minted by an owner.
LEMMA AdminInvitesNext == OwnerInv /\ [Next]_vars => AdminsAreInvitedByOwners'
<1> SUFFICES ASSUME OwnerInv, [Next]_vars, Owners = {} PROVE AdminsAreInvitedByOwners'
  BY OwnersStay DEF AdminsAreInvitedByOwners
<1>0. /\ \A t \in DOMAIN invite : invite[t].role # "admin"
      /\ \A t \in DOMAIN invite : invite[t] \in InviteType
  BY DEF OwnerInv, AdminsAreInvitedByOwners, MembersInv, InvitesOK
<1>1. ASSUME DOMAIN invite' = DOMAIN invite, \A t \in DOMAIN invite : invite'[t].role = invite[t].role
      PROVE  AdminsAreInvitedByOwners'
  BY <1>0, <1>1 DEF AdminsAreInvitedByOwners
<1>2. CASE UNCHANGED invite
  BY <1>1, <1>2
<1>3. ASSUME NEW v \in Verbs, Mint(v) PROVE AdminsAreInvitedByOwners'
  <2>1. ASSUME MayMint(Caller(v), verb[v].req.to), NEW t \in Tokens \ DOMAIN invite,
               invite' = [u \in DOMAIN invite \cup {t} |->
                             IF u = t THEN [state |-> "minted", role |-> verb[v].req.to,
                                            by |-> Caller(v).id, to |-> 0]
                             ELSE invite[u]]
        PROVE  AdminsAreInvitedByOwners'
    <3>1. verb[v].req.to = "member"
      BY <1>3, <2>1, NoOwnerCalls DEF Mint, MayMint, Operator
    <3>2. \A u \in DOMAIN invite' : invite'[u].role # "admin"
      BY <1>0, <2>1, <3>1
    <3> QED BY <3>2 DEF AdminsAreInvitedByOwners
  <2> QED BY <1>2, <1>3, <2>1 DEF Mint
<1>4. CASE Consume
  BY <1>0, <1>1, <1>2, <1>4 DEF Consume, InviteType
<1>5. CASE Mark
  BY <1>0, <1>1, <1>2, <1>5 DEF Mark, InviteType
<1>6. ASSUME NEW t \in Tokens, Expire(t) PROVE AdminsAreInvitedByOwners'
  BY <1>0, <1>1, <1>6 DEF Expire, InviteType
<1>7. ASSUME NEW v \in Verbs, VerbStep(v) PROVE Mint(v) \/ UNCHANGED invite
  BY <1>7 DEF VerbStep, LookUp, JudgeRole, WriteRole, JudgeRemove, WriteRemove, Retire,
     JudgeName, WriteName, LookPrune, Prune, Die, Begin
<1>8. ASSUME \/ Insert \/ DropAccept
             \/ \E t \in Tokens, n \in Names, k \in Keys : Present(t, n, k)
             \/ UNCHANGED vars
      PROVE  UNCHANGED invite
  BY <1>8 DEF Insert, DropAccept, Present, vars
<1> QED BY <1>2, <1>3, <1>4, <1>5, <1>6, <1>7, <1>8 DEF Next, AcceptStep

\* Without an owner the operators after a step are those before it, or fewer.
LEMMA OperatorsDoNotGrow ==
    ASSUME OwnerInv, [Next]_vars, Owners = {}
    PROVE  \A i \in Live' : user'[i].role # "member" => (i \in Live /\ user[i].role # "member")
<1> DEFINE Grows == ~ \A i \in Live' : user'[i].role # "member"
                                          => (i \in Live /\ user[i].role # "member")
<1>0. MembersInv /\ UsersOK /\ \A i \in Live : user[i] \in UserType
  BY DEF OwnerInv, MembersInv, UsersOK
<1>1. ASSUME UNCHANGED user PROVE ~Grows
  BY <1>1 DEF Live
<1>2. ASSUME NEW x, Delete(x) PROVE ~Grows
  <2>1. Live' = Live \ {x} /\ \A i \in Live' : user'[i] = user[i]
    BY <1>2 DEF Delete, Only, Live
  <2> QED BY <2>1
<1>3. ASSUME NEW v \in Verbs, WriteRole(v) PROVE ~Grows
  <2> DEFINE x == Target(v).id
             to == verb[v].req.to
  <2>1. /\ x \in Live /\ user[x].role = Target(v).role
        /\ MaySetRole(Caller(v), Target(v), to, Cardinality(Owners))
    BY <1>3 DEF WriteRole, OwnerInv, ReadsStand, Stands, Judged
  <2>2. Caller(v).role # "owner" /\ user[Caller(v).id].role = Caller(v).role
    BY <1>3, NoOwnerCalls DEF WriteRole
  <2>3. to = "member" \/ user[x].role = "admin"
    BY <2>1, <2>2 DEF MaySetRole
  <2>4. Live' = Live /\ (\A i \in Live : user'[i] = IF i = x THEN [user[i] EXCEPT !.role = to]
                                                    ELSE user[i])
    BY <1>3 DEF WriteRole, Live
  <2>5. user'[x].role = to
    BY <1>0, <2>1, <2>4 DEF UserType
  <2> HIDE DEF x, to
  <2> QED BY <2>1, <2>3, <2>4, <2>5
<1>4. ASSUME NEW v \in Verbs, WriteName(v) PROVE ~Grows
  <2>1. CASE user' = [j \in Live |-> IF j = Target(v).id
                                     THEN [user[j] EXCEPT !.name = verb[v].req.to] ELSE user[j]]
    <3>1. Live' = Live /\ \A j \in Live : user'[j].role = user[j].role
      BY <1>0, <2>1 DEF Live, UserType
    <3> QED BY <3>1
  <2> QED BY <1>1, <1>4, <2>1 DEF WriteName
<1>5. ASSUME NEW v \in Verbs, WriteRemove(v) PROVE ~Grows
  BY <1>1, <1>2, <1>5 DEF WriteRemove
<1>6. ASSUME NEW v \in Verbs, Prune(v) PROVE ~Grows
  BY <1>1, <1>2, <1>6 DEF Prune
<1>7. ASSUME Insert PROVE ~Grows
  <2>1. CASE nextId' # nextId
    <3>1. /\ Live' = Live \cup {nextId} /\ user'[nextId] = NewRow(accept)
          /\ \A i \in Live : user'[i] = user[i]
          /\ NewRow(accept).role \in {"admin", "member"}
      BY <1>0, <1>7, <2>1, InsertedRow
    <3>2. accept.token \in DOMAIN invite
      BY <1>0, <1>7, AcceptFields DEF Insert
    <3>3. NewRow(accept).role # "admin"
      BY <3>2 DEF NewRow, OwnerInv, AdminsAreInvitedByOwners
    <3> QED BY <3>1, <3>3
  <2>2. nextId + 1 # nextId
    BY <1>0 DEF UsersOK
  <2> QED BY <1>1, <1>7, <2>1, <2>2 DEF Insert
<1>8. ASSUME NEW v \in Verbs,
             \/ LookUp(v) \/ JudgeRole(v) \/ JudgeRemove(v) \/ Retire(v) \/ JudgeName(v)
             \/ LookPrune(v) \/ Mint(v) \/ Die(v)
             \/ \E i \in Live, q \in Requests : Begin(v, i, q)
      PROVE  UNCHANGED user
  BY <1>8 DEF LookUp, JudgeRole, JudgeRemove, Retire, JudgeName, LookPrune, Mint, Die, Begin
<1>9. ASSUME \/ Consume \/ Mark \/ DropAccept
             \/ \E t \in Tokens, n \in Names, k \in Keys : Present(t, n, k)
             \/ \E t \in Tokens : Expire(t)
             \/ UNCHANGED vars
      PROVE  UNCHANGED user
  BY <1>9 DEF Consume, Mark, DropAccept, Present, Expire, vars
<1> HIDE DEF Grows
<1>10. ~Grows
  <2>1. ASSUME NEW v \in Verbs, VerbStep(v) PROVE ~Grows
    BY <1>1, <1>3, <1>4, <1>5, <1>6, <1>8, <2>1 DEF VerbStep
  <2>2. CASE AcceptStep \/ (\E t \in Tokens : Expire(t)) \/ UNCHANGED vars
    BY <1>1, <1>7, <1>9, <2>2 DEF AcceptStep
  <2> QED BY <2>1, <2>2 DEF Next
<1> QED BY <1>10 DEF Grows

\* At first there is no session and no invite.
LEMMA InitOwnerInv == Init => OwnerInv
<1> SUFFICES ASSUME Init PROVE OwnerInv
  OBVIOUS
<1>1. MembersInv
  BY SeededIsTyped
<1>2. AdminsAreInvitedByOwners
  <2>1. DOMAIN invite = {}
    BY DEF Init
  <2> QED BY <2>1 DEF AdminsAreInvitedByOwners
<1>3. \A v \in Verbs : ReadsStand(v)
  <2>1. \A v \in Verbs : verb[v].pc = "idle"
    BY DEF Init, Idle
  <2> QED BY <2>1 DEF ReadsStand
<1> QED BY <1>1, <1>2, <1>3 DEF OwnerInv

\* With one verb at a time, every step keeps the owners and what was read of them.
LEMMA NextKeepsOwnerInv == OneAtATime /\ OwnerInv /\ [Next]_vars => OwnerInv'
<1> SUFFICES ASSUME OneAtATime, OwnerInv, [Next]_vars PROVE OwnerInv'
  OBVIOUS
<1>1. MembersInv'
  BY NextKeepsMembersInv DEF OwnerInv
<1>2. (\A v \in Verbs : ReadsStand(v))'
  BY ReadsStandNext
<1>3. AdminsAreInvitedByOwners'
  BY AdminInvitesNext
<1> QED BY <1>1, <1>2, <1>3 DEF OwnerInv

\* While the verbs run one at a time a server that has an owner never loses the
\* last one, whatever an accept does in between (the guards of setUserRole and
\* removeUser, userOps.ts).  Of verbs that run at once it is not true.
THEOREM LastOwnerStays == ASSUME OneAtATime PROVE Spec => OwnerRemains
<1>1. Init => OwnerInv
  BY InitOwnerInv
<1>2. OwnerInv /\ [Next]_vars => OwnerInv'
  BY NextKeepsOwnerInv
<1>3. OwnerInv /\ [Next]_vars => (Owners # {} => Owners' # {})
  BY OwnersStay
<1> QED BY <1>1, <1>2, <1>3, PTL DEF Spec, OwnerRemains

\* While the verbs run one at a time, no one becomes an operator of a server
\* that has no owner: an admin neither promotes another user nor lets one in
\* (checkSetRoleAuthority, mint-invite, and the role that insertUser copies).
THEOREM OperatorsComeFromOwners == ASSUME OneAtATime PROVE Spec => OperatorsNeedAnOwner
<1> DEFINE NoGrowth == Owners = {} => \A i \in Live' : user'[i].role # "member"
                                          => (i \in Live /\ user[i].role # "member")
<1>1. Init => OwnerInv
  BY InitOwnerInv
<1>2. OwnerInv /\ [Next]_vars => OwnerInv'
  BY NextKeepsOwnerInv
<1>3. OwnerInv /\ [Next]_vars => NoGrowth
  BY OperatorsDoNotGrow
<1>4. Spec => [][NoGrowth]_vars
  <2> HIDE DEF NoGrowth
  <2> QED BY <1>1, <1>2, <1>3, PTL DEF Spec
<1> QED BY <1>4 DEF OperatorsNeedAnOwner
=============================================================================
