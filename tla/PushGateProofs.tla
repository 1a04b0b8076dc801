--------------------------- MODULE PushGateProofs ---------------------------
(***************************************************************************)
(* PushGate, for every commit graph, every content of its trees and        *)
(* trailers, and any number of sessions: it keeps its types; every move of *)
(* a protected branch is over verified commits, since the gate lets pass   *)
(* only what is verified against the value that git advertised and git     *)
(* moves a ref only from that value; tags stay in protected history while  *)
(* the protection is steady; and the mirror ends in step, or a push to it  *)
(* has failed.  At the end: Provision, which sets the two up, reports       *)
(* nothing done that is not.                                               *)
(***************************************************************************)
EXTENDS PushGate, Provision, FiniteSetTheorems, WellFoundedInduction, TLAPS

\* What a command that passed the gate is known to be.
Gated(c) ==
    c.ref \in Branches /\ c.old # NoCommit /\ Rule(c.old, c.ref) # NoRule =>
        /\ c.new # NoCommit
        /\ IsAncestor(c.old, c.new)
        /\ \A d \in NewCommits(c.old, c.new) : VerifyCommit(d, c.ref, c.old)

\* The inductive invariant: a session has gated the commands before its
\* position, and all of them when it updates.
SessionsAreGated ==
    \A s \in Sessions :
        /\ pc[s] = "gate" => \A i \in DOMAIN cmds[s] : i < pos[s] => Gated(cmds[s][i])
        /\ pc[s] = "update" => \A i \in DOMAIN cmds[s] : Gated(cmds[s][i])

IInv == TypeOK /\ SessionsAreGated

Phases == {"idle", "gate", "update", "mirror", "post"}

\* The gate lets nothing pass that is not verified: verifyRef.
LEMMA AllowedIsGated ==
    ASSUME NEW c \in Commands, RefAllowed(c)
    PROVE  Gated(c)
<1> USE RefsAssumption DEF Commands, Refs
<1>1. CASE c.ref \notin Branches
  BY <1>1 DEF Gated
<1>2. CASE c.ref \in Branches /\ c.new = NoCommit
  <2>1. BranchDeletionAllowed(c)
    BY <1>2 DEF RefAllowed
  <2> QED BY <2>1 DEF BranchDeletionAllowed, Gated
<1>3. CASE c.ref \in Branches /\ c.new # NoCommit
  <2>1. BranchUpdateAllowed(c)
    BY <1>3 DEF RefAllowed
  <2> QED BY <1>3, <2>1 DEF BranchUpdateAllowed, Gated
<1> QED BY <1>1, <1>2, <1>3

\* What a session's move to its next command or phase does.
LEMMA AdvanceStep ==
    ASSUME TypeOK, NEW s \in Sessions, NEW next \in Phases,
           NEW list \in Seq(Commands), pos[s] \in DOMAIN list, Advance(s, list, next)
    PROVE  /\ pc' \in [Sessions -> Phases]
           /\ pos' \in [Sessions -> Nat]
           /\ \A r \in Sessions \ {s} : pc'[r] = pc[r] /\ pos'[r] = pos[r]
           /\ \/ pc'[s] = pc[s] /\ pos'[s] = pos[s] + 1 /\ pos'[s] \in DOMAIN list
              \/ pc'[s] = next /\ pos'[s] = 1 /\ pos[s] = Len(list)
<1>0. /\ pc \in [Sessions -> Phases] /\ pos \in [Sessions -> Nat]
      /\ Len(list) \in Nat /\ DOMAIN list = 1..Len(list) /\ pos[s] \in 1..Len(list)
  BY DEF TypeOK, Phases
<1>1. CASE pos[s] < Len(list)
  <2>1. pos' = [pos EXCEPT ![s] = @ + 1] /\ pc' = pc
    BY <1>1 DEF Advance
  <2> QED BY <1>0, <1>1, <2>1
<1>2. CASE ~(pos[s] < Len(list))
  <2>1. pos' = [pos EXCEPT ![s] = 1] /\ pc' = [pc EXCEPT ![s] = next]
    BY <1>2 DEF Advance
  <2> QED BY <1>0, <1>2, <2>1
<1> QED BY <1>1, <1>2

\* No session has passed the gate at first.
LEMMA InitIsTyped == Init => IInv
<1> SUFFICES ASSUME Init PROVE IInv
  OBVIOUS
<1> USE DEF Init
<1>1. ref \in [Refs -> Commits \cup {NoCommit}]
  BY InitialAssumption DEF Refs
<1>2. TypeOK
  BY <1>1, OutagesAssumption DEF TypeOK, Commands
<1> QED BY <1>2 DEF IInv, SessionsAreGated

-----------------------------------------------------------------------------
(* Every step keeps the invariant. *)

\* A session that opens has passed nothing.
LEMMA OpenStep ==
    ASSUME IInv, NEW s \in Sessions, NEW push \in Pushes, Open(s, push)
    PROVE  IInv'
<1> DEFINE list == [i \in DOMAIN push |->
                       [ref |-> push[i].ref, old |-> ref[push[i].ref], new |-> push[i].new]]
<1>1. push \in Seq([ref : Refs, new : Commits \cup {NoCommit}]) /\ push # <<>>
  BY PushesAssumption
<1>2. ref \in [Refs -> Commits \cup {NoCommit}]
  BY DEF IInv, TypeOK
<1>3. list \in Seq(Commands) /\ 1 \in DOMAIN list
  <2>1. Len(push) \in Nat \ {0} /\ DOMAIN push = 1..Len(push)
    BY <1>1
  <2>2. \A i \in 1..Len(push) :
          [ref |-> push[i].ref, old |-> ref[push[i].ref], new |-> push[i].new] \in Commands
    <3> TAKE i \in 1..Len(push)
    <3>1. push[i] \in [ref : Refs, new : Commits \cup {NoCommit}]
      <4> DEFINE Moves == [ref : Refs, new : Commits \cup {NoCommit}]
      <4>1. push \in Seq(Moves)
        BY <1>1
      <4> HIDE DEF Moves
      <4>2. push[i] \in Moves
        BY <2>1, <4>1
      <4> QED BY <4>2 DEF Moves
    <3>2. push[i].ref \in Refs /\ push[i].new \in Commits \cup {NoCommit}
      BY <3>1
    <3>3. ref[push[i].ref] \in Commits \cup {NoCommit}
      BY <1>2, <3>2
    <3> QED BY <3>2, <3>3 DEF Commands
  <2>3. list \in [1..Len(push) -> Commands]
    BY <2>1, <2>2
  <2> QED BY <2>1, <2>3
<1>4. /\ cmds' = [cmds EXCEPT ![s] = list]
      /\ pos' = [pos EXCEPT ![s] = 1]
      /\ landed' = [landed EXCEPT ![s] = <<>>]
      /\ pc' = [pc EXCEPT ![s] = "gate"]
      /\ UNCHANGED <<ref, mirror, status, unsent, outages>>
  BY DEF Open
<1> HIDE DEF list
<1>5. TypeOK'
  <2>1. TypeOK
    BY DEF IInv
  <2>2. /\ pc' \in [Sessions -> {"idle", "gate", "update", "mirror", "post"}]
        /\ cmds' \in [Sessions -> Seq(Commands)]
        /\ pos' \in [Sessions -> Nat]
    BY <1>3, <1>4, <2>1 DEF TypeOK
  <2>3. landed' \in [Sessions -> Seq(Commands)]
    <3>1. <<>> \in Seq(Commands)
      OBVIOUS
    <3> QED BY <1>4, <2>1, <3>1 DEF TypeOK
  <2>4. ASSUME NEW r \in Sessions
        PROVE  /\ pc'[r] \in {"gate", "update"} => pos'[r] \in DOMAIN cmds'[r]
               /\ pc'[r] \in {"mirror", "post"} => pos'[r] \in DOMAIN landed'[r]
    <3>1. CASE r = s
      <4>1. pc'[s] = "gate" /\ cmds'[s] = list /\ pos'[s] = 1
        BY <1>4, <2>1 DEF TypeOK
      <4> QED BY <1>3, <3>1, <4>1
    <3>2. CASE r # s
      <4>1. pc'[r] = pc[r] /\ cmds'[r] = cmds[r] /\ pos'[r] = pos[r] /\ landed'[r] = landed[r]
        BY <1>4, <2>1, <3>2 DEF TypeOK
      <4> QED BY <2>1, <4>1 DEF TypeOK
    <3> QED BY <3>1, <3>2
  <2> QED BY <1>4, <2>1, <2>2, <2>3, <2>4 DEF TypeOK, Commands
<1>6. SessionsAreGated'
  <2> SUFFICES ASSUME NEW r \in Sessions
               PROVE  /\ pc'[r] = "gate" =>
                           \A i \in DOMAIN cmds'[r] : i < pos'[r] => Gated(cmds'[r][i])
                      /\ pc'[r] = "update" => \A i \in DOMAIN cmds'[r] : Gated(cmds'[r][i])
    BY DEF SessionsAreGated, Gated
  <2>1. CASE r = s
    <3>1. pc'[s] = "gate" /\ cmds'[s] = list /\ pos'[s] = 1
      BY <1>4 DEF IInv, TypeOK
    <3>2. \A i \in DOMAIN list : ~(i < 1)
      BY <1>3
    <3> QED BY <2>1, <3>1, <3>2
  <2>2. CASE r # s
    <3>1. pc'[r] = pc[r] /\ cmds'[r] = cmds[r] /\ pos'[r] = pos[r]
      BY <1>4, <2>2 DEF IInv, TypeOK
    <3> QED BY <3>1 DEF IInv, SessionsAreGated
  <2> QED BY <2>1, <2>2
<1> QED BY <1>5, <1>6 DEF IInv

\* The other sessions, and this one once it is past its update, have nothing to
\* gate: steps that leave cmds alone.
LEMMA OthersStayGated ==
    ASSUME IInv, NEW s \in Sessions, UNCHANGED cmds,
           \A r \in Sessions \ {s} : pc'[r] = pc[r] /\ pos'[r] = pos[r],
           pc'[s] = "gate" => \A i \in DOMAIN cmds[s] : i < pos'[s] => Gated(cmds[s][i]),
           pc'[s] = "update" => \A i \in DOMAIN cmds[s] : Gated(cmds[s][i])
    PROVE  SessionsAreGated'
BY DEF IInv, SessionsAreGated, Gated

\* Gate adds one command to those that passed.
LEMMA GateStep ==
    ASSUME IInv, NEW s \in Sessions, Gate(s)
    PROVE  IInv'
<1> DEFINE c == cmds[s][pos[s]]
<1>0. /\ TypeOK /\ pc[s] = "gate" /\ cmds[s] \in Seq(Commands) /\ pos[s] \in DOMAIN cmds[s]
      /\ UNCHANGED <<ref, cmds, landed, mirror, status, unsent, outages>>
  BY DEF IInv, TypeOK, Gate
<1>1. CASE RefAllowed(c) /\ Advance(s, cmds[s], "update")
  <2>1. /\ pc' \in [Sessions -> Phases] /\ pos' \in [Sessions -> Nat]
        /\ \A r \in Sessions \ {s} : pc'[r] = pc[r] /\ pos'[r] = pos[r]
        /\ \/ pc'[s] = "gate" /\ pos'[s] = pos[s] + 1 /\ pos'[s] \in DOMAIN cmds[s]
           \/ pc'[s] = "update" /\ pos'[s] = 1 /\ pos[s] = Len(cmds[s])
    BY <1>0, <1>1, AdvanceStep DEF Phases
  <2>2. Len(cmds[s]) \in Nat /\ DOMAIN cmds[s] = 1..Len(cmds[s])
    BY <1>0
  <2>3. TypeOK'
    BY <1>0, <2>1, <2>2 DEF TypeOK, Phases
  <2>4. Gated(c) /\ \A i \in DOMAIN cmds[s] : i < pos[s] => Gated(cmds[s][i])
    <3>1. c \in Commands
      BY <1>0
    <3> QED BY <1>0, <1>1, <3>1, AllowedIsGated DEF IInv, SessionsAreGated
  <2>5. \A i \in DOMAIN cmds[s] : i < pos[s] + 1 => Gated(cmds[s][i])
    BY <1>0, <2>2, <2>4
  <2>6. pc'[s] = "gate" => \A i \in DOMAIN cmds[s] : i < pos'[s] => Gated(cmds[s][i])
    BY <2>1, <2>5
  <2>7. pc'[s] = "update" => \A i \in DOMAIN cmds[s] : Gated(cmds[s][i])
    BY <2>1, <2>2, <2>5
  <2>8. SessionsAreGated'
    BY <1>0, <2>1, <2>6, <2>7, OthersStayGated
  <2> QED BY <2>3, <2>8 DEF IInv
<1>2. CASE pc' = [pc EXCEPT ![s] = "idle"] /\ UNCHANGED pos
  <2>1. TypeOK'
    BY <1>0, <1>2 DEF TypeOK
  <2>2. pc'[s] = "idle" /\ \A r \in Sessions \ {s} : pc'[r] = pc[r] /\ pos'[r] = pos[r]
    BY <1>0, <1>2 DEF TypeOK
  <2>3. SessionsAreGated'
    BY <1>0, <2>2, OthersStayGated
  <2> QED BY <2>1, <2>3 DEF IInv
<1> QED BY <1>1, <1>2 DEF Gate

\* Update moves one ref, and goes on with gated commands.
LEMMA UpdateStep ==
    ASSUME IInv, NEW s \in Sessions, Update(s)
    PROVE  IInv'
<1> DEFINE c == cmds[s][pos[s]]
           next == IF landed'[s] = <<>> THEN "idle" ELSE "mirror"
<1>0. /\ TypeOK /\ pc[s] = "update" /\ cmds[s] \in Seq(Commands) /\ pos[s] \in DOMAIN cmds[s]
      /\ Advance(s, cmds[s], next)
      /\ UNCHANGED <<cmds, mirror, status, unsent, outages>>
      /\ c \in Commands /\ next \in Phases /\ next \in {"idle", "mirror"}
  BY DEF IInv, TypeOK, Update, Phases
<1>1. /\ ref' \in [Refs -> Commits \cup {NoCommit}]
      /\ landed' \in [Sessions -> Seq(Commands)]
      /\ \A r \in Sessions \ {s} : landed'[r] = landed[r]
  <2>1. CASE ref' = [ref EXCEPT ![c.ref] = c.new] /\ landed' = [landed EXCEPT ![s] = Append(@, c)]
    <3> HIDE DEF c
    <3>1. c.new \in Commits \cup {NoCommit}
      BY <1>0 DEF Commands
    <3>2. ref' \in [Refs -> Commits \cup {NoCommit}]
      BY <1>0, <2>1, <3>1 DEF TypeOK
    <3>3. landed \in [Sessions -> Seq(Commands)]
      BY <1>0 DEF TypeOK
    <3>4. Append(landed[s], c) \in Seq(Commands)
      BY <1>0, <3>3
    <3>5. landed' \in [Sessions -> Seq(Commands)]
      BY <2>1, <3>3, <3>4
    <3>6. \A r \in Sessions \ {s} : landed'[r] = landed[r]
      BY <2>1, <3>3
    <3> QED BY <3>2, <3>5, <3>6
  <2>2. CASE UNCHANGED <<ref, landed>>
    BY <1>0, <2>2 DEF TypeOK
  <2> QED BY <2>1, <2>2 DEF Update
<1> HIDE DEF next
<1>2. /\ pc' \in [Sessions -> Phases] /\ pos' \in [Sessions -> Nat]
      /\ \A r \in Sessions \ {s} : pc'[r] = pc[r] /\ pos'[r] = pos[r]
      /\ \/ pc'[s] = "update" /\ pos'[s] \in DOMAIN cmds[s]
         \/ pc'[s] = next /\ pos'[s] = 1
  BY <1>0, AdvanceStep
<1>3. pc'[s] = "mirror" => pos'[s] \in DOMAIN landed'[s]
  <2>1. landed'[s] \in Seq(Commands)
    BY <1>1
  <2>2. landed'[s] # <<>> => 1 \in DOMAIN landed'[s]
    BY <2>1
  <2> QED BY <1>2, <2>2 DEF next
<1>4. TypeOK'
  BY <1>0, <1>1, <1>2, <1>3 DEF TypeOK, Phases
<1>5. \A i \in DOMAIN cmds[s] : Gated(cmds[s][i])
  BY <1>0 DEF IInv, SessionsAreGated
<1>6. pc'[s] # "gate"
  BY <1>0, <1>2
<1>7. SessionsAreGated'
  BY <1>0, <1>2, <1>5, <1>6, OthersStayGated
<1> QED BY <1>4, <1>7 DEF IInv

\* The mirror phase of a session: it leaves the refs of the server alone.
LEMMA SkipMirrorStep ==
    ASSUME IInv, NEW s \in Sessions, SkipMirror(s) \/ MirrorPush(s) \/ MirrorFails(s)
    PROVE  IInv'
<1> DEFINE c == landed[s][pos[s]]
<1>0. /\ TypeOK /\ pc[s] = "mirror" /\ landed[s] \in Seq(Commands)
      /\ pos[s] \in DOMAIN landed[s] /\ c \in Commands
      /\ UNCHANGED <<ref, cmds, landed, status>>
  BY DEF IInv, TypeOK, SkipMirror, MirrorPush, MirrorFails
<1>1. CASE MirrorPush(s)
  <2>1. /\ c.new \in Commits \cup {NoCommit}
        /\ mirror' = [mirror EXCEPT ![c.ref] = c.new]
        /\ pc' = [pc EXCEPT ![s] = "post"]
        /\ UNCHANGED <<pos, unsent, outages>>
    BY <1>0, <1>1 DEF MirrorPush, Commands
  <2>2. TypeOK'
    BY <1>0, <2>1 DEF TypeOK
  <2>3. pc'[s] = "post" /\ \A r \in Sessions \ {s} : pc'[r] = pc[r] /\ pos'[r] = pos[r]
    BY <1>0, <2>1 DEF TypeOK
  <2>4. SessionsAreGated'
    BY <1>0, <2>3, OthersStayGated
  <2> QED BY <2>2, <2>4 DEF IInv
<1>2. CASE SkipMirror(s) \/ MirrorFails(s)
  <2>1. /\ Advance(s, landed[s], "idle")
        /\ UNCHANGED mirror
        /\ unsent' \subseteq Commands /\ outages' \in 0..MaxOutages
    BY <1>0, <1>2, OutagesAssumption DEF SkipMirror, MirrorFails, TypeOK
  <2>2. /\ pc' \in [Sessions -> Phases] /\ pos' \in [Sessions -> Nat]
        /\ \A r \in Sessions \ {s} : pc'[r] = pc[r] /\ pos'[r] = pos[r]
        /\ \/ pc'[s] = "mirror" /\ pos'[s] \in DOMAIN landed[s]
           \/ pc'[s] = "idle"
    BY <1>0, <2>1, AdvanceStep DEF Phases
  <2>3. TypeOK'
    BY <1>0, <2>1, <2>2 DEF TypeOK, Phases
  <2>4. SessionsAreGated'
    BY <1>0, <2>2, OthersStayGated
  <2> QED BY <2>3, <2>4 DEF IInv
<1> QED BY <1>1, <1>2

\* PostStatuses leaves the refs and the commands alone.
LEMMA PostStatusesStep ==
    ASSUME IInv, NEW s \in Sessions, PostStatuses(s)
    PROVE  IInv'
<1>0. /\ TypeOK /\ pc[s] = "post" /\ landed[s] \in Seq(Commands) /\ pos[s] \in DOMAIN landed[s]
      /\ UNCHANGED <<ref, cmds, landed, mirror, unsent>>
  BY DEF IInv, TypeOK, PostStatuses
<1>1. outages' \in 0..MaxOutages
  BY <1>0, OutagesAssumption DEF PostStatuses, TypeOK
<1>2. status' \in [Commits -> {"none", "success", "failure"}]
  <2> DEFINE new == landed[s][pos[s]].new
  <2>1. PICK posted :
          status' = [d \in Commits |-> IF d \in posted /\ Tree[new].keys # {}
                                       THEN StatusOf(d, new) ELSE status[d]]
    BY Zenon DEF PostStatuses
  <2> HIDE DEF new
  <2>2. \A d : StatusOf(d, new) \in {"success", "failure"}
    BY DEF StatusOf
  <2> QED BY <1>0, <2>1, <2>2 DEF TypeOK
<1>3. /\ pc' \in [Sessions -> Phases] /\ pos' \in [Sessions -> Nat]
      /\ \A r \in Sessions \ {s} : pc'[r] = pc[r] /\ pos'[r] = pos[r]
      /\ pc'[s] = "mirror" => pos'[s] \in DOMAIN landed[s]
      /\ pc'[s] \in {"mirror", "idle"}
  <2>0. Len(landed[s]) \in Nat /\ DOMAIN landed[s] = 1..Len(landed[s])
    BY <1>0
  <2>1. CASE /\ pos[s] < Len(landed[s])
             /\ pos' = [pos EXCEPT ![s] = @ + 1] /\ pc' = [pc EXCEPT ![s] = "mirror"]
    BY <1>0, <2>0, <2>1 DEF TypeOK, Phases
  <2>2. CASE pos' = [pos EXCEPT ![s] = 1] /\ pc' = [pc EXCEPT ![s] = "idle"]
    BY <1>0, <2>2 DEF TypeOK, Phases
  <2> QED BY <2>1, <2>2 DEF PostStatuses
<1>4. TypeOK'
  BY <1>0, <1>1, <1>2, <1>3 DEF TypeOK, Phases
<1>5. SessionsAreGated'
  BY <1>0, <1>3, OthersStayGated
<1> QED BY <1>4, <1>5 DEF IInv

\* One step for each action of a session.
LEMMA NextKeepsIInv == IInv /\ [Next]_vars => IInv'
<1> SUFFICES ASSUME IInv, [Next]_vars PROVE IInv'
  OBVIOUS
<1>1. CASE UNCHANGED vars
  BY <1>1 DEF vars, IInv, TypeOK, SessionsAreGated, Gated
<1>2. ASSUME NEW s \in Sessions, Step(s) PROVE IInv'
  BY <1>2, GateStep, UpdateStep, SkipMirrorStep, PostStatusesStep DEF Step
<1>3. ASSUME NEW s \in Sessions, NEW push \in Pushes, Open(s, push) PROVE IInv'
  BY <1>3, OpenStep
<1> QED BY <1>1, <1>2, <1>3 DEF Next

\* TypeOK for every repository and any number of push sessions: refs, cursors
\* and statuses of the two hooks keep their types.
THEOREM GateTypeCorrect == Spec => []TypeOK
<1>1. IInv => TypeOK
  BY DEF IInv
<1> QED BY InitIsTyped, NextKeepsIInv, <1>1, PTL DEF Spec

-----------------------------------------------------------------------------

\* What ProtectedMovesAreVerified asks of one step.
MovesAreVerified ==
    \A b \in Branches :
        /\ ref'[b] # ref[b]
        /\ ref[b] # NoCommit
        /\ Rule(ref[b], b) # NoRule
        => /\ ref'[b] # NoCommit
           /\ IsAncestor(ref[b], ref'[b])
           /\ \A c \in NewCommits(ref[b], ref'[b]) : VerifyCommit(c, b, ref[b])

\* Only the update moves a ref, and it moves it as its gated command says.
LEMMA UpdateMovesVerified ==
    ASSUME IInv, NEW s \in Sessions, Update(s)
    PROVE  MovesAreVerified
<1> DEFINE c == cmds[s][pos[s]]
<1>0. /\ c \in Commands /\ Gated(c)
      /\ ref \in [Refs -> Commits \cup {NoCommit}]
  BY DEF IInv, TypeOK, SessionsAreGated, Update
<1>1. CASE UNCHANGED ref
  BY <1>1 DEF MovesAreVerified
<1>2. CASE RefMoves(c) /\ ref' = [ref EXCEPT ![c.ref] = c.new]
  <2> HIDE DEF c
  <2> SUFFICES ASSUME NEW b \in Branches, ref'[b] # ref[b], ref[b] # NoCommit,
                      Rule(ref[b], b) # NoRule
               PROVE  /\ ref'[b] # NoCommit
                      /\ IsAncestor(ref[b], ref'[b])
                      /\ \A d \in NewCommits(ref[b], ref'[b]) : VerifyCommit(d, b, ref[b])
    BY DEF MovesAreVerified
  <2>1. b = c.ref /\ ref[b] = c.old /\ ref'[b] = c.new
    BY <1>0, <1>2 DEF RefMoves, Refs, Commands
  <2> QED BY <1>0, <2>1 DEF Gated
<1> QED BY <1>1, <1>2 DEF Update

\* Whatever the sessions, the order of their steps and the content of the
\* commits, a protected branch moves only over verified commits: the check of
\* the old value that the hook makes is about the value git replaces.
THEOREM ProtectedBranchesAreVerified == Spec => ProtectedMovesAreVerified
<1>1. IInv /\ [Next]_vars => [MovesAreVerified]_vars
  <2> SUFFICES ASSUME IInv, Next PROVE MovesAreVerified \/ UNCHANGED vars
    OBVIOUS
  <2>1. ASSUME UNCHANGED ref PROVE MovesAreVerified
    BY <2>1 DEF MovesAreVerified
  <2>2. ASSUME NEW s \in Sessions, Step(s) PROVE MovesAreVerified
    BY <2>1, <2>2, UpdateMovesVerified
       DEF Step, Gate, SkipMirror, MirrorPush, MirrorFails, PostStatuses
  <2>3. ASSUME NEW s \in Sessions, NEW push \in Pushes, Open(s, push) PROVE MovesAreVerified
    BY <2>1, <2>3 DEF Open
  <2> QED BY <2>2, <2>3 DEF Next
<1>2. Spec => [][MovesAreVerified]_vars
  BY InitIsTyped, NextKeepsIInv, <1>1, PTL DEF Spec
<1> QED BY <1>2 DEF ProtectedMovesAreVerified, MovesAreVerified
-----------------------------------------------------------------------------
(* What a step does, for the invariants below. *)

\* The commands that passed the gate are of G.
Passed(G) ==
    \A s \in Sessions :
        /\ pc[s] = "gate" => \A i \in DOMAIN cmds[s] : i < pos[s] => cmds[s][i] \in G
        /\ pc[s] = "update" => \A i \in DOMAIN cmds[s] : cmds[s][i] \in G

\* A session in its mirror phase does not come back to gate without opening.
LEMMA MirrorPhaseStep ==
    ASSUME IInv, NEW s \in Sessions,
           SkipMirror(s) \/ MirrorPush(s) \/ MirrorFails(s) \/ PostStatuses(s)
    PROVE  /\ UNCHANGED <<ref, cmds, landed>>
           /\ pc'[s] \notin {"gate", "update"}
           /\ \A r \in Sessions \ {s} : pc'[r] = pc[r] /\ pos'[r] = pos[r]
<1>0. /\ TypeOK /\ pc \in [Sessions -> Phases] /\ pos \in [Sessions -> Nat]
      /\ landed[s] \in Seq(Commands)
      /\ pos[s] \in DOMAIN landed[s]
  BY DEF IInv, TypeOK, Phases, SkipMirror, MirrorPush, MirrorFails, PostStatuses
<1>1. CASE MirrorPush(s)
  BY <1>0, <1>1 DEF MirrorPush
<1>2. CASE SkipMirror(s) \/ MirrorFails(s)
  <2>1. /\ Advance(s, landed[s], "idle") /\ pc[s] = "mirror"
        /\ UNCHANGED <<ref, cmds, landed>>
    BY <1>2 DEF SkipMirror, MirrorFails
  <2> QED BY <1>0, <2>1, AdvanceStep DEF Phases
<1>3. CASE PostStatuses(s)
  <2>1. /\ UNCHANGED <<ref, cmds, landed>>
        /\ \/ pos' = [pos EXCEPT ![s] = @ + 1] /\ pc' = [pc EXCEPT ![s] = "mirror"]
           \/ pos' = [pos EXCEPT ![s] = 1] /\ pc' = [pc EXCEPT ![s] = "idle"]
    BY <1>3 DEF PostStatuses
  <2> QED BY <1>0, <2>1
<1> QED BY <1>1, <1>2, <1>3

\* If the gate only lets commands of H pass, and those that passed were of H.
LEMMA PassedStays ==
    ASSUME IInv, Next, NEW G, NEW H, G \subseteq H, Passed(G),
           \A c \in Commands : RefAllowed(c) => c \in H
    PROVE  Passed(H)'
<1> SUFFICES ASSUME NEW r \in Sessions
             PROVE  /\ pc'[r] = "gate" =>
                         \A i \in DOMAIN cmds'[r] : i < pos'[r] => cmds'[r][i] \in H
                    /\ pc'[r] = "update" => \A i \in DOMAIN cmds'[r] : cmds'[r][i] \in H
  BY DEF Passed
<1>0. /\ TypeOK /\ pc \in [Sessions -> Phases] /\ pos \in [Sessions -> Nat]
      /\ cmds \in [Sessions -> Seq(Commands)]
      /\ \A i \in DOMAIN cmds'[r] : i \in Nat \ {0}
  <2>1. cmds'[r] \in Seq(Commands)
    BY NextKeepsIInv DEF IInv, TypeOK
  <2> QED BY <2>1 DEF IInv, TypeOK, Phases
<1>1. ASSUME pc'[r] = pc[r], pos'[r] = pos[r], cmds'[r] = cmds[r]
      PROVE  /\ pc'[r] = "gate" =>
                  \A i \in DOMAIN cmds'[r] : i < pos'[r] => cmds'[r][i] \in H
             /\ pc'[r] = "update" => \A i \in DOMAIN cmds'[r] : cmds'[r][i] \in H
  BY <1>1 DEF Passed
<1>2. ASSUME NEW s \in Sessions, NEW push \in Pushes, Open(s, push)
      PROVE  /\ pc'[r] = "gate" =>
                  \A i \in DOMAIN cmds'[r] : i < pos'[r] => cmds'[r][i] \in H
             /\ pc'[r] = "update" => \A i \in DOMAIN cmds'[r] : cmds'[r][i] \in H
  <2>1. CASE r = s
    <3>1. pc'[s] = "gate" /\ pos'[s] = 1
      BY <1>0, <1>2 DEF Open
    <3>2. \A i \in DOMAIN cmds'[s] : ~(i < 1)
      BY <1>0, <2>1
    <3> QED BY <2>1, <3>1, <3>2
  <2>2. CASE r # s
    BY <1>0, <1>1, <1>2, <2>2 DEF Open
  <2> QED BY <2>1, <2>2
<1>3. ASSUME NEW s \in Sessions, Gate(s)
      PROVE  /\ pc'[r] = "gate" =>
                  \A i \in DOMAIN cmds'[r] : i < pos'[r] => cmds'[r][i] \in H
             /\ pc'[r] = "update" => \A i \in DOMAIN cmds'[r] : cmds'[r][i] \in H
  <2>0. pc[s] = "gate" /\ cmds' = cmds /\ cmds[s] \in Seq(Commands) /\ pos[s] \in DOMAIN cmds[s]
    BY <1>0, <1>3 DEF Gate, TypeOK
  <2>1. CASE pc' = [pc EXCEPT ![s] = "idle"] /\ UNCHANGED pos
    BY <1>0, <1>1, <2>0, <2>1
  <2>2. CASE RefAllowed(cmds[s][pos[s]]) /\ Advance(s, cmds[s], "update")
    <3>1. /\ \A q \in Sessions \ {s} : pc'[q] = pc[q] /\ pos'[q] = pos[q]
          /\ \/ pc'[s] = "gate" /\ pos'[s] = pos[s] + 1 /\ pos'[s] \in DOMAIN cmds[s]
             \/ pc'[s] = "update" /\ pos'[s] = 1 /\ pos[s] = Len(cmds[s])
      BY <1>0, <2>0, <2>2, AdvanceStep DEF Phases
    <3>2. CASE r = s
      <4>1. Len(cmds[s]) \in Nat /\ DOMAIN cmds[s] = 1..Len(cmds[s]) /\ pos[s] \in Nat
        BY <1>0, <2>0
      <4>2. cmds[s][pos[s]] \in H
        <5>1. cmds[s][pos[s]] \in Commands
          BY <2>0
        <5> QED BY <2>2, <5>1
      <4>3. \A i \in DOMAIN cmds[s] : i < pos[s] => cmds[s][i] \in H
        BY <2>0 DEF Passed
      <4>4. \A i \in DOMAIN cmds[s] : i < pos[s] + 1 => cmds[s][i] \in H
        BY <4>1, <4>2, <4>3
      <4>5. pos[s] = Len(cmds[s]) => \A i \in DOMAIN cmds[s] : cmds[s][i] \in H
        BY <4>1, <4>4
      <4> QED BY <2>0, <3>1, <3>2, <4>4, <4>5
    <3>3. CASE r # s
      BY <1>1, <2>0, <3>1, <3>3
    <3> QED BY <3>2, <3>3
  <2> QED BY <1>3, <2>1, <2>2 DEF Gate
<1>4. ASSUME NEW s \in Sessions, Update(s)
      PROVE  /\ pc'[r] = "gate" =>
                  \A i \in DOMAIN cmds'[r] : i < pos'[r] => cmds'[r][i] \in H
             /\ pc'[r] = "update" => \A i \in DOMAIN cmds'[r] : cmds'[r][i] \in H
  <2> DEFINE next == IF landed'[s] = <<>> THEN "idle" ELSE "mirror"
  <2>0. /\ pc[s] = "update" /\ cmds' = cmds /\ cmds[s] \in Seq(Commands)
        /\ pos[s] \in DOMAIN cmds[s] /\ Advance(s, cmds[s], next)
        /\ next \in Phases /\ next \in {"idle", "mirror"}
    BY <1>0, <1>4 DEF Update, TypeOK, Phases
  <2> HIDE DEF next
  <2>1. /\ \A q \in Sessions \ {s} : pc'[q] = pc[q] /\ pos'[q] = pos[q]
        /\ pc'[s] = "update" \/ pc'[s] = next
    BY <1>0, <2>0, AdvanceStep
  <2>2. \A i \in DOMAIN cmds[s] : cmds[s][i] \in H
    BY <2>0 DEF Passed
  <2> QED BY <1>1, <2>0, <2>1, <2>2
<1>5. ASSUME NEW s \in Sessions,
             SkipMirror(s) \/ MirrorPush(s) \/ MirrorFails(s) \/ PostStatuses(s)
      PROVE  /\ pc'[r] = "gate" =>
                  \A i \in DOMAIN cmds'[r] : i < pos'[r] => cmds'[r][i] \in H
             /\ pc'[r] = "update" => \A i \in DOMAIN cmds'[r] : cmds'[r][i] \in H
  BY <1>1, <1>5, MirrorPhaseStep
<1> QED BY <1>2, <1>3, <1>4, <1>5 DEF Next, Step

\* A ref moves when an update finds the value that git advertised, and then as
\* a command says that passed the gate.
LEMMA HowRefsMove ==
    ASSUME IInv, Next, NEW G, Passed(G)
    PROVE  \/ UNCHANGED ref
           \/ \E c \in Commands :
                 c \in G /\ RefMoves(c) /\ ref' = [ref EXCEPT ![c.ref] = c.new]
<1>1. ASSUME NEW s \in Sessions, Update(s)
      PROVE  \/ UNCHANGED ref
             \/ \E c \in Commands :
                   c \in G /\ RefMoves(c) /\ ref' = [ref EXCEPT ![c.ref] = c.new]
  <2>1. pos[s] \in DOMAIN cmds[s] /\ cmds[s] \in Seq(Commands) /\ pc[s] = "update"
    BY <1>1 DEF IInv, TypeOK, Update
  <2>2. cmds[s][pos[s]] \in Commands /\ cmds[s][pos[s]] \in G
    BY <2>1 DEF Passed
  <2> QED BY <1>1, <2>2 DEF Update
<1> QED BY <1>1 DEF Next, Step, Open, Gate, SkipMirror, MirrorPush, MirrorFails, PostStatuses

-----------------------------------------------------------------------------
(* The tags. *)

\* What holds a tag in place: a protected branch with the commit in its history.
Kept(c) == \E b \in SteadyBranches : ref[b] # NoCommit /\ IsAncestor(c, ref[b])

\* What the gate lets pass while the protection is steady: it creates no branch,
\* deletes no protected one, and tags only what is kept.
Fits(c) ==
    /\ c.ref \in Branches /\ c.new # NoCommit => c.old # NoCommit
    /\ c.ref \in SteadyBranches => c.new # NoCommit
    /\ c.ref \in Tags /\ c.new # NoCommit => Kept(c.new)
Fitting == {c \in Commands : Fits(c)}

\* The protected branches are there, the default branch past its first commit.
BranchesStand ==
    /\ \A b \in SteadyBranches : ref[b] # NoCommit
    /\ IsAncestor(Initial[Default], ref[Default])

TagsAreKept == \A t \in Tags : ref[t] # NoCommit => Kept(ref[t])

\* The inductive invariant behind TagsStayInHistory.
TagInv == IInv /\ Passed(Fitting) /\ BranchesStand /\ TagsAreKept

\* At first there are no tags, and every branch is there.
LEMMA TagsAtFirst == SteadyProtection /\ Init => TagInv
<1> SUFFICES ASSUME SteadyProtection, Init PROVE TagInv
  OBVIOUS
<1>1. IInv
  BY InitIsTyped
<1>2. Passed(Fitting)
  BY DEF Init, Passed
<1>3. \A b \in Branches : ref[b] = Initial[b] /\ Initial[b] \in Commits
  BY InitialAssumption DEF Init, Refs
<1>4. \A t \in Tags : ref[t] = NoCommit
  BY RefsAssumption DEF Init, Refs
<1>5. BranchesStand
  BY <1>3, RefsAssumption, GraphAssumption DEF BranchesStand, SteadyBranches, IsAncestor
<1> QED BY <1>1, <1>2, <1>4, <1>5 DEF TagInv, TagsAreKept

\* The rules that the hook reads at the default branch protect the steady ones.
LEMMA ProtectedAreSteady ==
    ASSUME SteadyProtection, TagInv
    PROVE  ref[Default] # NoCommit /\ ProtectedBranches = SteadyBranches
<1>1. ref[Default] \in Commits
  <2>1. ref[Default] # NoCommit
    BY DEF SteadyProtection, TagInv, BranchesStand
  <2> QED BY <2>1, RefsAssumption DEF TagInv, IInv, TypeOK, Refs
<1>2. {b \in Branches : Rule(ref[Default], b) # NoRule} = SteadyBranches
  BY <1>1 DEF SteadyProtection, TagInv, BranchesStand
<1> QED BY <1>1, <1>2, GraphAssumption DEF ProtectedBranches

\* verifyRef, while the protection is steady.
LEMMA AllowedFits ==
    ASSUME SteadyProtection, TagInv, NEW c \in Commands, RefAllowed(c)
    PROVE  Fits(c)
<1>1. ref[Default] # NoCommit /\ ProtectedBranches = SteadyBranches
  BY ProtectedAreSteady
<1>2. c.ref \in Branches /\ c.new # NoCommit => c.old # NoCommit
  BY DEF RefAllowed, BranchUpdateAllowed
<1>3. ASSUME c.ref \in SteadyBranches PROVE c.new # NoCommit
  <2>1. c.ref \in Branches /\ Rule(ref[Default], c.ref) # NoRule
    BY <1>1, <1>3 DEF ProtectedBranches
  <2> QED BY <1>1, <2>1 DEF RefAllowed, BranchDeletionAllowed
<1>4. c.ref \in Tags /\ c.new # NoCommit => Kept(c.new)
  BY <1>1 DEF RefAllowed, TagPushAllowed, InProtectedHistory, Kept
<1> QED BY <1>2, <1>3, <1>4 DEF Fits

\* A protected branch is moved forward only, so what it keeps it goes on to keep.
LEMMA KeptStays ==
    ASSUME SteadyProtection, TagInv, [Next]_vars
    PROVE  /\ \A b \in SteadyBranches :
                 /\ ref'[b] # NoCommit
                 /\ \A c \in Commits : IsAncestor(c, ref[b]) => IsAncestor(c, ref'[b])
           /\ \A c \in Commits : Kept(c) => Kept(c)'
<1>0. /\ ref \in [Refs -> Commits \cup {NoCommit}]
      /\ \A b \in SteadyBranches : ref[b] # NoCommit /\ b \in Branches /\ b \in Refs
  BY DEF TagInv, IInv, TypeOK, BranchesStand, SteadyBranches, Refs
<1>1. \A b \in SteadyBranches :
         /\ ref'[b] # NoCommit
         /\ \A c \in Commits : IsAncestor(c, ref[b]) => IsAncestor(c, ref'[b])
  <2>1. CASE UNCHANGED ref
    BY <1>0, <2>1
  <2>2. ASSUME NEW x \in Commands, x \in Fitting, RefMoves(x),
               ref' = [ref EXCEPT ![x.ref] = x.new]
        PROVE  \A b \in SteadyBranches :
                 /\ ref'[b] # NoCommit
                 /\ \A c \in Commits : IsAncestor(c, ref[b]) => IsAncestor(c, ref'[b])
    <3> TAKE b \in SteadyBranches
    <3>1. CASE b # x.ref
      BY <1>0, <2>2, <3>1
    <3>2. CASE b = x.ref
      <4>1. x.new # NoCommit /\ x.old = ref[b] /\ x.old # NoCommit /\ ref'[b] = x.new
        BY <1>0, <2>2, <3>2 DEF Fitting, Fits, RefMoves
      <4>2. IsAncestor(x.old, x.new) /\ x.new \in Commits /\ x.old \in Commits
        BY <1>0, <2>2, <3>2, <4>1 DEF RefMoves, Commands
      <4>3. Ancestors[x.old] \subseteq Ancestors[x.new]
        BY <4>2, GraphAssumption DEF IsAncestor
      <4> QED BY <4>1, <4>3 DEF IsAncestor
    <3> QED BY <3>1, <3>2
  <2>3. CASE Next
    <3>1. PICK G : G = Fitting
      OBVIOUS
    <3>2. \/ UNCHANGED ref
          \/ \E c \in Commands : c \in G /\ RefMoves(c) /\ ref' = [ref EXCEPT ![c.ref] = c.new]
      <4>1. Passed(G) /\ IInv
        BY <3>1 DEF TagInv
      <4> QED BY <2>3, <4>1, HowRefsMove
    <3> QED BY <2>1, <2>2, <3>1, <3>2
  <2> QED BY <2>1, <2>3 DEF vars
<1>2. \A c \in Commits : Kept(c) => Kept(c)'
  BY <1>0, <1>1 DEF Kept
<1> QED BY <1>1, <1>2

\* Every step keeps the tags where they are.
LEMMA NextKeepsTagInv == SteadyProtection /\ TagInv /\ [Next]_vars => TagInv'
<1> SUFFICES ASSUME SteadyProtection, TagInv, [Next]_vars PROVE TagInv'
  OBVIOUS
<1>0. /\ IInv' /\ IInv
      /\ ref \in [Refs -> Commits \cup {NoCommit}]
      /\ NoCommit \notin Commits
      /\ Default \in SteadyBranches /\ Initial[Default] \in Commits
  BY NextKeepsIInv, GraphAssumption, InitialAssumption, RefsAssumption
     DEF TagInv, IInv, TypeOK, SteadyProtection
<1>1. BranchesStand'
  BY <1>0, KeptStays DEF TagInv, BranchesStand
<1>2. Fitting \subseteq Fitting'
  <2> SUFFICES ASSUME NEW c \in Commands, Fits(c) PROVE Fits(c)'
    BY DEF Fitting
  <2>1. c.new # NoCommit => c.new \in Commits
    BY DEF Commands
  <2> QED BY <2>1, KeptStays DEF Fits
<1>3. Passed(Fitting)'
  <2>1. CASE UNCHANGED vars
    <3>1. Fitting' = Fitting
      BY <2>1 DEF vars, Fitting, Fits, Kept
    <3> QED BY <2>1, <3>1 DEF vars, TagInv, Passed
  <2>2. CASE Next
    <3>1. PICK G, H : G = Fitting /\ H = Fitting'
      OBVIOUS
    <3>2. \A c \in Commands : RefAllowed(c) => c \in H
      BY <1>2, <3>1, AllowedFits DEF Fitting
    <3>3. Passed(G) /\ G \subseteq H
      BY <1>2, <3>1 DEF TagInv
    <3>4. Passed(H)'
      BY <1>0, <2>2, <3>2, <3>3, PassedStays
    <3> QED BY <3>1, <3>4 DEF Passed
  <2> QED BY <2>1, <2>2
<1>4. TagsAreKept'
  <2> SUFFICES ASSUME NEW t \in Tags, ref'[t] # NoCommit PROVE Kept(ref[t])'
    BY DEF TagsAreKept, Kept
  <2>1. t \in Refs /\ t \notin Branches
    BY RefsAssumption DEF Refs
  <2>2. CASE ref'[t] = ref[t]
    <3>1. ref[t] \in Commits /\ Kept(ref[t])
      BY <1>0, <2>1, <2>2 DEF TagInv, TagsAreKept
    <3> QED BY <2>2, <3>1, KeptStays DEF Kept
  <2>3. CASE ref'[t] # ref[t]
    <3>1. PICK G : G = Fitting
      OBVIOUS
    <3>2. PICK x \in Commands : /\ x \in G /\ RefMoves(x)
                                /\ ref' = [ref EXCEPT ![x.ref] = x.new]
      <4>1. Passed(G) /\ Next
        BY <2>3, <3>1 DEF TagInv, vars
      <4> QED BY <1>0, <2>3, <4>1, HowRefsMove
    <3>3. x.ref = t /\ ref'[t] = x.new /\ x.new \in Commits
      BY <1>0, <2>1, <2>3, <3>2 DEF Commands
    <3>4. Kept(x.new)
      BY <3>1, <3>2, <3>3, <1>0 DEF Fitting, Fits
    <3> QED BY <3>3, <3>4, KeptStays DEF Kept
  <2> QED BY <2>2, <2>3
<1> QED BY <1>0, <1>1, <1>3, <1>4 DEF TagInv

\* While the default branch protects the same branches, a tag that the gate let
\* in stays in the history of a protected branch, whatever the other pushes do:
\* what verifyTagPush found at the gate still holds when git sets the tag, and
\* after it, since those branches are neither deleted nor rewound.
THEOREM TagsAreInHistory ==
    ASSUME SteadyProtection
    PROVE  Spec => []TagsStayInHistory
<1>1. Init => TagInv
  BY TagsAtFirst
<1>2. TagInv /\ [Next]_vars => TagInv'
  BY NextKeepsTagInv
<1>3. TagInv => TagsStayInHistory
  BY DEF TagInv, TagsAreKept, TagsStayInHistory, Kept, SteadyBranches
<1> QED BY <1>1, <1>2, <1>3, PTL DEF Spec

-----------------------------------------------------------------------------
(* The mirror. *)

\* The gate creates no branch.
Uncreating ==
    {c \in Commands : c.ref \in Branches /\ c.new # NoCommit => c.old # NoCommit}

\* What landed on a branch is in its history.
Behind(x) ==
    x.ref \in Branches /\ x.new # NoCommit /\ ref[x.ref] # NoCommit =>
        IsAncestor(x.new, ref[x.ref])
LandedIsBehind == \A s \in Sessions : \A i \in DOMAIN landed[s] : Behind(landed[s][i])

\* Session s has still to push the i-th of the commands that landed.
ToSend(s, i) ==
    /\ i \in DOMAIN landed[s]
    /\ \/ pc[s] = "update"
       \/ pc[s] = "mirror" /\ i >= pos[s]
       \/ pc[s] = "post" /\ i > pos[s]

\* The push of the tip of b has failed, or is still to be made.
Failed(b) == \E x \in unsent : x.ref = b /\ x.new = ref[b]
IsTip(x, b) == x.ref = b /\ x.new = ref[b]
Awaited(b) ==
    \E s \in Sessions : \E i \in DOMAIN landed[s] : ToSend(s, i) /\ IsTip(landed[s][i], b)

InStep(b) ==
    ref[b] # NoCommit /\ b \in Tree[ref[b]].mirrored =>
        mirror[b] = ref[b] \/ Failed(b) \/ Awaited(b)
BranchesInStep == \A b \in Branches : InStep(b)

\* The inductive invariant behind MirrorInSync.
MirrorInv == IInv /\ Passed(Uncreating) /\ LandedIsBehind /\ BranchesInStep

\* At first GitHub has what the server has.
LEMMA MirrorAtFirst == Init => MirrorInv
<1> SUFFICES ASSUME Init PROVE MirrorInv
  OBVIOUS
<1>1. IInv
  BY InitIsTyped
<1>2. Passed(Uncreating)
  BY DEF Init, Passed
<1>3. LandedIsBehind
  BY DEF Init, LandedIsBehind
<1>4. BranchesInStep
  BY DEF Init, BranchesInStep, InStep
<1> QED BY <1>1, <1>2, <1>3, <1>4 DEF MirrorInv

\* A branch moves forward or is deleted; no branch is created.
LEMMA BranchesMoveForward ==
    ASSUME MirrorInv, Next
    PROVE  \A b \in Branches : ref'[b] # NoCommit =>
              ref[b] # NoCommit /\ Ancestors[ref[b]] \subseteq Ancestors[ref'[b]]
<1>0. IInv /\ ref \in [Refs -> Commits \cup {NoCommit}]
  BY DEF MirrorInv, IInv, TypeOK
<1>1. PICK G : G = Uncreating
  OBVIOUS
<1>2. \/ UNCHANGED ref
      \/ \E c \in Commands : c \in G /\ RefMoves(c) /\ ref' = [ref EXCEPT ![c.ref] = c.new]
  <2>1. Passed(G)
    BY <1>1 DEF MirrorInv
  <2> QED BY <1>0, <2>1, HowRefsMove
<1>3. CASE UNCHANGED ref
  BY <1>3
<1>4. ASSUME NEW x \in Commands, x \in G, RefMoves(x), ref' = [ref EXCEPT ![x.ref] = x.new],
             NEW b \in Branches, ref'[b] # NoCommit
      PROVE  ref[b] # NoCommit /\ Ancestors[ref[b]] \subseteq Ancestors[ref'[b]]
  <2>1. b \in Refs
    BY DEF Refs
  <2>2. CASE b # x.ref
    BY <1>0, <1>4, <2>1, <2>2
  <2>3. CASE b = x.ref
    <3>1. x.new = ref'[b] /\ x.new # NoCommit /\ x.old = ref[b]
      BY <1>0, <1>4, <2>1, <2>3 DEF RefMoves
    <3>2. x.old # NoCommit
      BY <1>1, <1>4, <2>3, <3>1 DEF Uncreating
    <3>3. x.old \in Commits /\ x.new \in Commits
      BY <3>1, <3>2 DEF Commands
    <3> QED BY <1>4, <2>3, <3>1, <3>2, <3>3, GraphAssumption DEF RefMoves, IsAncestor
  <2> QED BY <2>2, <2>3
<1> QED BY <1>2, <1>3, <1>4

\* So what landed stays behind its branch.
LEMMA BehindStays ==
    ASSUME MirrorInv, Next, NEW x \in Commands, Behind(x)
    PROVE  Behind(x)'
<1> SUFFICES ASSUME x.ref \in Branches, x.new # NoCommit, ref'[x.ref] # NoCommit
             PROVE  IsAncestor(x.new, ref'[x.ref])
  BY DEF Behind
<1> QED BY BranchesMoveForward DEF Behind, IsAncestor

\* landed gets a command only when it has moved its ref.
LEMMA LandedStaysBehind == MirrorInv /\ Next => LandedIsBehind'
<1> SUFFICES ASSUME MirrorInv, Next, NEW r \in Sessions, NEW i \in DOMAIN landed'[r]
             PROVE  Behind(landed[r][i])'
  BY DEF LandedIsBehind
<1>0. /\ IInv /\ landed \in [Sessions -> Seq(Commands)]
      /\ ref \in [Refs -> Commits \cup {NoCommit}]
  BY DEF MirrorInv, IInv, TypeOK
<1>1. CASE i \in DOMAIN landed[r] /\ landed'[r][i] = landed[r][i]
  <2>1. landed[r][i] \in Commands
    BY <1>0, <1>1
  <2>2. Behind(landed[r][i])
    BY <1>1 DEF MirrorInv, LandedIsBehind
  <2>3. PICK x \in Commands : x = landed[r][i]
    BY <2>1
  <2>4. Behind(x)'
    BY <2>2, <2>3, BehindStays
  <2> QED BY <1>1, <2>3, <2>4 DEF Behind
<1>2. CASE UNCHANGED landed
  BY <1>1, <1>2
<1>3. ASSUME NEW s \in Sessions, NEW push \in Pushes, Open(s, push)
      PROVE  Behind(landed[r][i])'
  <2>1. landed' = [landed EXCEPT ![s] = <<>>]
    BY <1>3 DEF Open
  <2>2. r # s
    BY <1>0, <2>1
  <2> QED BY <1>0, <1>1, <2>1, <2>2
<1>4. ASSUME NEW s \in Sessions, Update(s), ~UNCHANGED landed
      PROVE  Behind(landed[r][i])'
  <2> DEFINE c == cmds[s][pos[s]]
  <2>1. /\ ref' = [ref EXCEPT ![c.ref] = c.new]
        /\ landed' = [landed EXCEPT ![s] = Append(@, c)]
        /\ pc[s] = "update"
    BY <1>4 DEF Update
  <2>2. c \in Commands
    BY <2>1 DEF MirrorInv, IInv, TypeOK
  <2> HIDE DEF c
  <2>3. CASE r = s /\ i \notin DOMAIN landed[s]
    <3>1. landed[s] \in Seq(Commands) /\ landed'[s] = Append(landed[s], c)
      BY <1>0, <2>1
    <3>2. landed'[r][i] = c
      BY <2>3, <3>1
    <3>3. ref'[c.ref] = c.new
      BY <1>0, <2>1, <2>2 DEF Commands
    <3>4. c.new # NoCommit => IsAncestor(c.new, c.new)
      BY <2>2, GraphAssumption DEF Commands, IsAncestor
    <3> QED BY <3>2, <3>3, <3>4 DEF Behind
  <2>4. CASE r # s \/ i \in DOMAIN landed[s]
    <3>1. landed[s] \in Seq(Commands)
      BY <1>0
    <3>2. i \in DOMAIN landed[r] /\ landed'[r][i] = landed[r][i]
      BY <1>0, <2>1, <2>2, <2>4, <3>1
    <3> QED BY <1>1, <3>2
  <2> QED BY <2>3, <2>4
<1> QED BY <1>2, <1>3, <1>4
    DEF Next, Step, Gate, SkipMirror, MirrorPush, MirrorFails, PostStatuses

\* What is still to be sent stays so, but for one command of one session.
LEMMA AwaitedStays ==
    ASSUME NEW b \in Branches, NEW s \in Sessions, NEW k, Awaited(b),
           ref'[b] = ref[b],
           \A r \in Sessions \ {s} :
              pc'[r] = pc[r] /\ pos'[r] = pos[r] /\ landed'[r] = landed[r],
           \A i \in DOMAIN landed[s] :
              ToSend(s, i) /\ i # k => ToSend(s, i)' /\ landed'[s][i] = landed[s][i]
    PROVE  \/ Awaited(b)'
           \/ k \in DOMAIN landed[s] /\ ToSend(s, k) /\ IsTip(landed[s][k], b)
<1>1. PICK r \in Sessions : \E i \in DOMAIN landed[r] : ToSend(r, i) /\ IsTip(landed[r][i], b)
  BY DEF Awaited
<1>2. PICK i \in DOMAIN landed[r] : ToSend(r, i) /\ IsTip(landed[r][i], b)
  BY <1>1
<1>3. CASE r = s /\ i = k
  BY <1>2, <1>3
<1>4. CASE r # s \/ i # k
  <2>1. ToSend(r, i)' /\ landed'[r][i] = landed[r][i]
    BY <1>2, <1>4 DEF ToSend
  <2> QED BY <1>2, <2>1 DEF Awaited, ToSend, IsTip
<1> QED BY <1>3, <1>4

\* A session that opens or gates has nothing to send.
LEMMA GatePhaseInStep ==
    ASSUME MirrorInv, NEW s \in Sessions, Gate(s) \/ \E push \in Pushes : Open(s, push)
    PROVE  BranchesInStep'
<1>0. /\ pc \in [Sessions -> Phases] /\ pos \in [Sessions -> Nat]
      /\ landed \in [Sessions -> Seq(Commands)]
      /\ pc[s] \in {"idle", "gate"}
      /\ UNCHANGED <<ref, mirror, unsent>>
  BY DEF MirrorInv, IInv, TypeOK, Phases, Gate, Open
<1>1. \A r \in Sessions \ {s} : pc'[r] = pc[r] /\ pos'[r] = pos[r] /\ landed'[r] = landed[r]
  <2>1. CASE Gate(s)
    <3>1. pos[s] \in DOMAIN cmds[s] /\ cmds[s] \in Seq(Commands) /\ landed' = landed
      BY <2>1 DEF MirrorInv, IInv, TypeOK, Gate
    <3>2. CASE Advance(s, cmds[s], "update")
      BY <3>1, <3>2, AdvanceStep DEF MirrorInv, IInv, Phases
    <3>3. CASE pc' = [pc EXCEPT ![s] = "idle"] /\ UNCHANGED pos
      BY <1>0, <3>1, <3>3
    <3> QED BY <2>1, <3>2, <3>3 DEF Gate
  <2>2. CASE \E push \in Pushes : Open(s, push)
    BY <1>0, <2>2 DEF Open
  <2> QED BY <2>1, <2>2
<1>2. \A i : ~ToSend(s, i)
  BY <1>0 DEF ToSend
<1> SUFFICES ASSUME NEW b \in Branches PROVE InStep(b)'
  BY DEF BranchesInStep
<1>3. Awaited(b) => Awaited(b)'
  BY <1>0, <1>1, <1>2, AwaitedStays
<1> QED BY <1>0, <1>3 DEF MirrorInv, BranchesInStep, InStep, Failed

\* A ref that moved is to be sent by the session that moved it.
LEMMA UpdateInStep ==
    ASSUME MirrorInv, NEW s \in Sessions, Update(s)
    PROVE  BranchesInStep'
<1> DEFINE c == cmds[s][pos[s]]
           next == IF landed'[s] = <<>> THEN "idle" ELSE "mirror"
<1>0. /\ IInv /\ TypeOK /\ landed \in [Sessions -> Seq(Commands)]
      /\ ref \in [Refs -> Commits \cup {NoCommit}]
      /\ pc[s] = "update" /\ cmds[s] \in Seq(Commands) /\ pos[s] \in DOMAIN cmds[s]
      /\ Advance(s, cmds[s], next)
      /\ UNCHANGED <<cmds, mirror, status, unsent, outages>>
      /\ c \in Commands /\ next \in Phases
  BY DEF MirrorInv, IInv, TypeOK, Update, Phases
<1>1. \/ ref' = [ref EXCEPT ![c.ref] = c.new] /\ landed' = [landed EXCEPT ![s] = Append(@, c)]
      \/ UNCHANGED <<ref, landed>>
  BY DEF Update
<1> HIDE DEF c, next
<1>2. landed[s] \in Seq(Commands) /\ landed'[s] \in Seq(Commands)
  BY <1>0, UpdateStep DEF MirrorInv, IInv, TypeOK
<1>3. /\ \A i \in DOMAIN landed[s] : i \in DOMAIN landed'[s] /\ landed'[s][i] = landed[s][i]
      /\ \A r \in Sessions \ {s} : landed'[r] = landed[r]
  <2>1. CASE landed' = [landed EXCEPT ![s] = Append(@, c)]
    <3>1. landed'[s] = Append(landed[s], c)
      BY <1>0, <2>1
    <3> QED BY <1>0, <1>2, <2>1, <3>1
  <2>2. CASE UNCHANGED landed
    BY <2>2
  <2> QED BY <1>1, <2>1, <2>2
<1>4. /\ \A r \in Sessions \ {s} : pc'[r] = pc[r] /\ pos'[r] = pos[r]
      /\ pc'[s] = "update" \/ (pc'[s] = next /\ pos'[s] = 1)
  BY <1>0, AdvanceStep
<1>5. \A i \in DOMAIN landed'[s] : ToSend(s, i)'
  <2> TAKE i \in DOMAIN landed'[s]
  <2>1. landed'[s] # <<>> /\ i >= 1
    BY <1>2
  <2> QED BY <1>4, <2>1 DEF ToSend, next
<1> SUFFICES ASSUME NEW b \in Branches, InStep(b) PROVE InStep(b)'
  BY DEF MirrorInv, BranchesInStep
<1>6. CASE ref'[b] = ref[b]
  <2>1. Awaited(b) => Awaited(b)'
    <3>1. PICK k : k = Len(landed[s]) + 1
      OBVIOUS
    <3>2. k \notin DOMAIN landed[s]
      BY <1>2, <3>1
    <3> QED BY <1>3, <1>4, <1>5, <1>6, <3>2, AwaitedStays
  <2> QED BY <1>0, <1>6, <2>1 DEF InStep, Failed
<1>7. CASE ref'[b] # ref[b]
  <2>1. /\ ref' = [ref EXCEPT ![c.ref] = c.new]
        /\ landed' = [landed EXCEPT ![s] = Append(@, c)]
    BY <1>1, <1>7
  <2>2. c.ref = b /\ ref'[b] = c.new
    BY <1>0, <1>7, <2>1 DEF Commands, Refs
  <2>3. landed'[s] = Append(landed[s], c)
    BY <1>0, <2>1
  <2>4. /\ Len(landed[s]) + 1 \in DOMAIN landed'[s]
        /\ landed'[s][Len(landed[s]) + 1] = c
    BY <1>0, <1>2, <2>3
  <2>5. Awaited(b)'
    BY <1>5, <2>2, <2>4 DEF Awaited, IsTip
  <2> QED BY <2>5 DEF InStep
<1> QED BY <1>6, <1>7

\* The command that a session is at leaves the list of those to send.
LEMMA OthersToSend ==
    ASSUME IInv, NEW s \in Sessions, UNCHANGED <<ref, cmds, landed>>,
           \/ /\ pc[s] = "mirror"
              /\ \/ pc' = [pc EXCEPT ![s] = "post"] /\ UNCHANGED pos
                 \/ Advance(s, landed[s], "idle")
           \/ /\ pc[s] = "post"
              /\ IF pos[s] < Len(landed[s])
                 THEN pos' = [pos EXCEPT ![s] = @ + 1] /\ pc' = [pc EXCEPT ![s] = "mirror"]
                 ELSE pos' = [pos EXCEPT ![s] = 1] /\ pc' = [pc EXCEPT ![s] = "idle"],
           NEW b \in Branches, Awaited(b)
    PROVE  Awaited(b)' \/ (pc[s] = "mirror" /\ IsTip(landed[s][pos[s]], b))
<1>0. /\ TypeOK /\ pc \in [Sessions -> Phases] /\ pos \in [Sessions -> Nat]
      /\ landed[s] \in Seq(Commands) /\ pos[s] \in DOMAIN landed[s] /\ pos[s] \in Nat
      /\ Len(landed[s]) \in Nat /\ DOMAIN landed[s] = 1..Len(landed[s])
  BY DEF IInv, TypeOK, Phases
<1>1. /\ \A r \in Sessions \ {s} : pc'[r] = pc[r] /\ pos'[r] = pos[r]
      /\ \/ pc'[s] = "post" /\ pos'[s] = pos[s]
         \/ pc'[s] = pc[s] /\ pos'[s] = pos[s] + 1 /\ pc[s] = "mirror"
         \/ pc'[s] = "mirror" /\ pos'[s] = pos[s] + 1
         \/ pc'[s] = "idle" /\ pos[s] = Len(landed[s])
  <2>1. CASE pc[s] = "mirror" /\ Advance(s, landed[s], "idle")
    BY <1>0, <2>1, AdvanceStep DEF Phases
  <2>2. CASE pc' = [pc EXCEPT ![s] = "post"] /\ UNCHANGED pos
    BY <1>0, <2>2
  <2>3. CASE IF pos[s] < Len(landed[s])
             THEN pos' = [pos EXCEPT ![s] = @ + 1] /\ pc' = [pc EXCEPT ![s] = "mirror"]
             ELSE pos' = [pos EXCEPT ![s] = 1] /\ pc' = [pc EXCEPT ![s] = "idle"]
    BY <1>0, <2>3
  <2> QED BY <2>1, <2>2, <2>3
<1>2. PICK k : k = pos[s]
  OBVIOUS
<1>3. \A i \in DOMAIN landed[s] :
        ToSend(s, i) /\ i # k => ToSend(s, i)' /\ landed'[s][i] = landed[s][i]
  <2> SUFFICES ASSUME NEW i \in DOMAIN landed[s], ToSend(s, i), i # k PROVE ToSend(s, i)'
    OBVIOUS
  <2>1. i \in 1..Len(landed[s]) /\ i > pos[s]
    BY <1>0, <1>2 DEF ToSend
  <2>2. \/ pc'[s] = "post" /\ i > pos'[s]
        \/ pc'[s] = "mirror" /\ i >= pos'[s]
    BY <1>0, <1>1, <2>1
  <2> QED BY <2>2 DEF ToSend
<1>4. Awaited(b)' \/ (k \in DOMAIN landed[s] /\ ToSend(s, k) /\ IsTip(landed[s][k], b))
  BY <1>1, <1>3, AwaitedStays
<1>5. ToSend(s, pos[s]) => pc[s] = "mirror"
  BY <1>0 DEF ToSend
<1> QED BY <1>2, <1>4, <1>5

\* The mirror phase sends the command, or records that it could not.
LEMMA MirrorPhaseInStep ==
    ASSUME MirrorInv, NEW s \in Sessions,
           SkipMirror(s) \/ MirrorPush(s) \/ MirrorFails(s) \/ PostStatuses(s)
    PROVE  BranchesInStep'
<1> DEFINE c == landed[s][pos[s]]
<1>0. /\ IInv /\ mirror \in [Refs -> Commits \cup {NoCommit}]
      /\ ref \in [Refs -> Commits \cup {NoCommit}]
      /\ UNCHANGED <<ref, cmds, landed>>
  BY MirrorPhaseStep DEF MirrorInv, IInv, TypeOK
<1> SUFFICES ASSUME NEW b \in Branches, InStep(b) PROVE InStep(b)'
  BY DEF MirrorInv, BranchesInStep
<1>1. CASE ref[b] # NoCommit /\ b \in Tree[ref[b]].mirrored
  <2>0. ref[b] \in Commits /\ b \in Refs
    BY <1>0, <1>1 DEF Refs
  <2>1. IsTip(c, b) => Mirrored(c)
    BY <1>1 DEF IsTip, Mirrored
  <2>2. CASE SkipMirror(s)
    <3>1. Awaited(b) => Awaited(b)'
      BY <1>0, <2>1, <2>2, OthersToSend DEF SkipMirror
    <3> QED BY <1>0, <2>2, <3>1 DEF InStep, Failed, SkipMirror
  <2>3. CASE MirrorFails(s)
    <3>1. Awaited(b) => Awaited(b)' \/ IsTip(c, b)
      BY <1>0, <2>3, OthersToSend DEF MirrorFails
    <3>2. c \in unsent' /\ unsent \subseteq unsent' /\ mirror' = mirror
      BY <2>3 DEF MirrorFails
    <3>3. Failed(b) \/ IsTip(c, b) => Failed(b)'
      BY <1>0, <3>2 DEF Failed, IsTip
    <3> QED BY <1>0, <3>1, <3>2, <3>3 DEF InStep
  <2>4. CASE PostStatuses(s)
    <3>1. Awaited(b) => Awaited(b)'
      BY <1>0, <2>4, OthersToSend DEF PostStatuses
    <3> QED BY <1>0, <2>4, <3>1, ZenonT(40) DEF InStep, Failed, PostStatuses
  <2>5. CASE MirrorPush(s)
    <3>0. /\ c \in Commands /\ Behind(c) /\ c.new # NoCommit /\ MirrorAccepts(c)
          /\ mirror' = [mirror EXCEPT ![c.ref] = c.new]
          /\ unsent' = unsent
      <4>1. pc[s] = "mirror" /\ pos[s] \in DOMAIN landed[s] /\ landed[s] \in Seq(Commands)
        BY <2>5 DEF MirrorInv, IInv, TypeOK, MirrorPush
      <4> QED BY <2>5, <4>1 DEF MirrorInv, LandedIsBehind, MirrorPush, Mirrored
    <3>1. Awaited(b) => Awaited(b)' \/ IsTip(c, b)
      BY <1>0, <2>5, OthersToSend DEF MirrorPush
    <3> HIDE DEF c
    <3>2. CASE c.ref # b
      BY <1>0, <2>0, <3>0, <3>1, <3>2 DEF InStep, Failed, IsTip
    <3>3. CASE c.ref = b
      <4>1. mirror'[b] = c.new
        BY <1>0, <2>0, <3>0, <3>3
      <4>2. CASE mirror[b] = ref[b]
        <5>1. c.new = ref[b] \/ IsAncestor(ref[b], c.new)
          BY <1>1, <3>0, <3>3, <4>2 DEF MirrorAccepts
        <5>2. IsAncestor(c.new, ref[b]) /\ c.new \in Commits
          BY <1>1, <3>0, <3>3 DEF Behind, Commands
        <5>3. c.new = ref[b]
          BY <2>0, <5>1, <5>2, GraphAssumption DEF IsAncestor
        <5> QED BY <1>0, <4>1, <5>3 DEF InStep
      <4>3. CASE IsTip(c, b)
        BY <1>0, <4>1, <4>3 DEF InStep, IsTip
      <4>4. CASE Failed(b) \/ Awaited(b)'
        BY <1>0, <3>0, <4>4 DEF InStep, Failed
      <4> QED BY <1>1, <3>1, <4>2, <4>3, <4>4 DEF InStep
    <3> QED BY <3>2, <3>3
  <2> QED BY <2>2, <2>3, <2>4, <2>5
<1>2. CASE ~(ref[b] # NoCommit /\ b \in Tree[ref[b]].mirrored)
  BY <1>0, <1>2 DEF InStep
<1> QED BY <1>1, <1>2

\* Every step keeps the branches in step.
LEMMA NextKeepsMirrorInv == MirrorInv /\ [Next]_vars => MirrorInv'
<1> SUFFICES ASSUME MirrorInv, [Next]_vars PROVE MirrorInv'
  OBVIOUS
<1>1. CASE UNCHANGED vars
  BY <1>1, NextKeepsIInv
     DEF vars, MirrorInv, Passed, LandedIsBehind, Behind, BranchesInStep, InStep, Failed,
         Awaited, ToSend, IsTip
<1>2. CASE Next
  <2>1. PICK G : G = Uncreating
    OBVIOUS
  <2>2. Passed(Uncreating)'
    <3>1. \A c \in Commands : RefAllowed(c) => c \in G
      BY <2>1 DEF RefAllowed, BranchUpdateAllowed, Uncreating
    <3>2. Passed(G)'
      BY <1>2, <2>1, <3>1, PassedStays DEF MirrorInv
    <3> QED BY <2>1, <3>2 DEF Passed, Uncreating
  <2>3. BranchesInStep'
    BY <1>2, GatePhaseInStep, UpdateInStep, MirrorPhaseInStep DEF Next, Step
  <2> QED BY <1>2, <2>2, <2>3, NextKeepsIInv, LandedStaysBehind DEF MirrorInv
<1> QED BY <1>1, <1>2

\* However many pushes overlap, in whatever order their sessions reach GitHub:
\* when all have ended, the mirror has the tip of each mirrored branch or the
\* push of that tip failed.  A push that comes late finds a mirror that is ahead
\* of it and is refused, since it is not forced.
THEOREM MirrorFollows == Spec => []MirrorInSync
<1>1. MirrorInv => MirrorInSync
  <2> SUFFICES ASSUME MirrorInv, \A s \in Sessions : pc[s] = "idle",
                      NEW b \in Branches, ref[b] # NoCommit, b \in Tree[ref[b]].mirrored
               PROVE  mirror[b] = ref[b] \/ \E x \in unsent : x.ref = b /\ x.new = ref[b]
    BY DEF MirrorInSync
  <2>1. ~Awaited(b)
    BY DEF Awaited, ToSend
  <2> QED BY <2>1 DEF MirrorInv, BranchesInStep, InStep, Failed
<1> QED BY MirrorAtFirst, NextKeepsMirrorInv, <1>1, PTL DEF Spec

-----------------------------------------------------------------------------
(***************************************************************************)
(* The mirror that post-receive pushes to, and its guard, are stamp         *)
(* provision's work: what a command reports done is done.                   *)
(***************************************************************************)

\* Types of the places and of a command's locals.
LocalType == [there : BOOLEAN, origin : {"none", "stamp", "github"}, github : BOOLEAN,
              config : {"none"} \cup Carried, head : {"main", "boot"}, boot : BOOLEAN,
              dirty : BOOLEAN, yml : {"none", "untracked", "boot", "main"}]
Kinds == {"none", "provision", "bootstrap", "migrate", "bypass"}
CmdType == [kind : Kinds, mirror : BOOLEAN, guard : BOOLEAN, replace : BOOLEAN,
            expect : SshKeys \cup {NoKey}, removeOrgadmin : BOOLEAN, keyId : Nat \cup {NoId},
            blind : BOOLEAN]
RepoType == [main : {"none"} \cup Carried, yml : BOOLEAN]
ActorType == {OrgAdmin, User} \cup {DeployKey(i) : i \in Nat \cup {NoId}}
KeyType == [id : Nat, title : {"stamp-mirror"}, key : SshKeys]

Placed ==
    /\ org \in BOOLEAN /\ serverKey \in SshKeys /\ nextId \in Nat
    /\ repo \in RepoType /\ trash \subseteq RepoType
    /\ local \in LocalType /\ cmd \in CmdType /\ report \in CmdType
    /\ hub = [exists |-> hub.exists, keys |-> hub.keys, ruleset |-> hub.ruleset]
    /\ hub.exists \in BOOLEAN
    /\ hub.keys \subseteq KeyType /\ IsFiniteSet(hub.keys)
    /\ hub.ruleset = NoRuleset \/ hub.ruleset \subseteq ActorType

RulesetSteps == {"ruleset", "register", "apply"}
ProvisionSteps == {"bare", "clone", "create", "yml", "bootstrap", "branched", "committed", "merge", "push",
                   "verify", "success"} \cup RulesetSteps
BootstrapSteps == {"bootstrap", "branched", "committed", "merge", "push", "success"}
MigrateSteps == {"tarball", "rename", "add", "yml", "success"} \cup RulesetSteps
BypassSteps == {"decide", "delete", "reregister", "lookup", "bypass", "success"}

\* Which steps belong to which command.
StepInv ==
    /\ step = "idle" \/ \/ cmd.kind = "provision" /\ step \in ProvisionSteps
                        \/ cmd.kind = "bootstrap" /\ step \in BootstrapSteps
                        \/ cmd.kind = "migrate" /\ step \in MigrateSteps
                        \/ cmd.kind = "bypass" /\ step \in BypassSteps
    /\ cmd.kind = "provision" => (cmd.guard => cmd.mirror) /\ (step = "verify" => cmd.guard)
    /\ cmd.kind = "bootstrap" => ~cmd.mirror /\ ~cmd.guard
    /\ step # "idle" => report.kind = "none"

\* How far the bootstrap is, alone or at the end of a provision.
BootstrapInv ==
    /\ cmd.kind = "provision" /\ step = "clone" => repo.main = "placeholder"
    /\ cmd.kind = "provision" /\ step \in ProvisionSteps \ {"bare", "clone", "push", "verify", "success"} =>
          local.config = "placeholder"
    /\ cmd.kind = "provision" /\ step \in ProvisionSteps \ {"bare", "clone"} => local.origin = "stamp"
    /\ step \in {"branched", "committed", "merge"} => local.config = "placeholder"
    /\ step = "push" => local.config = "real"
    /\ step = "verify" \/ (step = "success" /\ cmd.kind \in {"provision", "bootstrap"}) => Bootstrapped

\* Where the mirror.yml of a provision has got to.
YmlInv ==
    cmd.kind = "provision" /\ cmd.mirror =>
        /\ step \in RulesetSteps \cup {"bootstrap", "branched"} => local.yml = "untracked"
        /\ step \in {"committed", "merge"} => local.yml = "boot"
        /\ step = "push" => local.yml = "main"
        /\ step \in {"verify", "success"} => repo.yml

Ruled ==
    IF org THEN \E k \in Titled : k.key = serverKey /\ hub.ruleset = {DeployKey(k.id)}
    ELSE hub.ruleset = {User}

Held == \E k \in Titled : k.id = cmd.keyId /\ k.key = serverKey

\* The mirror of a provision is its own work: it has the server's key and no other, and
\* the ruleset it is meant to have if it has one.
OwnMirrorInv ==
    cmd.kind = "provision" /\ cmd.mirror /\ step \in ProvisionSteps \ {"bare", "clone", "create"} =>
        /\ hub.exists
        /\ \A k \in hub.keys : k.key = serverKey
        /\ hub.ruleset = NoRuleset \/ Ruled
        /\ step = "apply" /\ org => Held
        /\ step = "success" /\ cmd.guard => Ruled

\* How far a migration is; the clone's main does not change meanwhile.
MigrateInv ==
    cmd.kind = "migrate" /\ step # "idle" =>
        /\ step # "tarball" => repo.main = local.config
        /\ step \notin {"tarball", "rename"} => local.github
        /\ step \notin {"tarball", "rename", "add"} => local.origin = "stamp"
        /\ step \in RulesetSteps \cup {"success"} /\ cmd.mirror => local.yml = "untracked"

\* The key a bypass command works with is the server's, or one that it could not see.
Known == \E k \in Titled : k.id = cmd.keyId /\ (cmd.blind \/ k.key = serverKey)

BypassInv ==
    cmd.kind = "bypass" =>
        /\ step = "delete" => cmd.blind \/ \A k \in Titled : k.id = cmd.keyId
        /\ step = "reregister" => cmd.blind \/ Titled = {}
        /\ step \in {"lookup", "bypass", "success"} => Known
        /\ step = "success" /\ cmd.guard =>
              /\ DeployKey(cmd.keyId) \in hub.ruleset
              /\ hub.ruleset \ {DeployKey(cmd.keyId)} \subseteq
                     IF cmd.removeOrgadmin THEN {User} ELSE {OrgAdmin, User}

CommandInv ==
    StepInv /\ BootstrapInv /\ YmlInv /\ OwnMirrorInv /\ MigrateInv /\ BypassInv

\* The inductive invariant.
ProvisionInv == Placed /\ CommandInv /\ ReportedIsSo

-----------------------------------------------------------------------------
(* Lookups *)

\* No command is under way.
LEMMA NoCommandType == NoCommand \in CmdType /\ NoCommand.kind = "none"
BY DEF NoCommand, CmdType, Kinds

\* A mirror that has keys of the title has one of the least id.
LEMMA LeastId ==
    ASSUME Placed, Titled # {}
    PROVE  Min({k.id : k \in Titled}) \in {k.id : k \in Titled}
<1> DEFINE Ids == {k.id : k \in Titled}
           Less == {ss \in Nat \X Nat : ss[1] < ss[2]}
<1>1. Ids \subseteq Nat /\ Ids # {}
  BY DEF Placed, KeyType, Titled
<1>2. PICK m \in Ids : \A n \in Ids : ~(<<n, m>> \in Less)
  <2>1. IsWellFoundedOn(Less, Nat)
    BY NatLessThanWellFounded DEF OpToRel
  <2> QED BY <2>1, <1>1, WFMin
<1>3. \A n \in Ids : m <= n
  <2> SUFFICES ASSUME NEW n \in Ids, ~(m <= n) PROVE FALSE
    OBVIOUS
  <2>1. m \in Nat /\ n \in Nat
    BY <1>1
  <2>2. <<n, m>> \in Less
    BY <2>1
  <2> QED BY <1>2, <2>2
<1> HIDE DEF Ids, Less
<1>4. Min(Ids) \in Ids
  BY <1>2, <1>3 DEF Min
<1> QED BY <1>4 DEF Ids

\* What findDeployKey returns is the id of a key of the title.
LEMMA FoundKey ==
    ASSUME Placed, NEW found \in FindDeployKey, found # NoId
    PROVE  found \in Nat /\ \E k \in Titled : k.id = found
<1>1. Titled # {} /\ found = Min({k.id : k \in Titled})
  BY DEF FindDeployKey
<1>2. found \in {k.id : k \in Titled}
  BY <1>1, LeastId
<1> QED BY <1>2 DEF Placed, KeyType, Titled

NewKey == [id |-> nextId, title |-> "stamp-mirror", key |-> serverKey]

\* registerDeployKey succeeds with a key that it found, or with the server's, new.
Succeeds(done) ==
    /\ step' = done /\ UNCHANGED report
    /\ \E k \in Titled' :
          /\ cmd' = [cmd EXCEPT !.keyId = k.id] /\ k.id \in Nat
          /\ k.key = serverKey \/ (k \in Titled /\ hub' = hub)

\* registerDeployKey finds a key, adds the server's, or fails; either way a key may be new.
LEMMA RegisterIs ==
    ASSUME Placed, RegisterDeployKey \/ RegisterStampMirrorKey
    PROVE  /\ UNCHANGED <<org, repo, trash, serverKey, local>>
           /\ \/ hub' = hub /\ nextId' = nextId
              \/ hub' = [hub EXCEPT !.keys = @ \cup {NewKey}] /\ nextId' = nextId + 1
           /\ \/ RegisterDeployKey /\ step = "register" /\ Succeeds("apply")
              \/ RegisterStampMirrorKey /\ step = "reregister" /\ Succeeds("lookup")
              \/ step = "register" /\ step' = AfterRuleset /\ UNCHANGED <<cmd, report>>
              \/ step = "reregister" /\ End
<1> DEFINE Adds == hub' = [hub EXCEPT !.keys = @ \cup {NewKey}] /\ nextId' = nextId + 1
           Finds(done) == \E found \in FindDeployKey :
                              /\ found # NoId /\ step' = done /\ cmd' = [cmd EXCEPT !.keyId = found]
                              /\ UNCHANGED <<hub, nextId, report>>
           Posts(done) == /\ Adds /\ step' = done /\ cmd' = [cmd EXCEPT !.keyId = nextId]
                          /\ UNCHANGED report
<1>1. ASSUME NEW done, Finds(done) PROVE Succeeds(done)
  <2>1. PICK found \in FindDeployKey :
          /\ found # NoId /\ step' = done /\ cmd' = [cmd EXCEPT !.keyId = found]
          /\ UNCHANGED <<hub, report>>
    BY <1>1
  <2>2. PICK k \in Titled : k.id = found /\ found \in Nat
    BY <2>1, FoundKey
  <2>3. k \in Titled'
    BY <2>1, <2>2 DEF Titled
  <2> QED BY <2>1, <2>2, <2>3 DEF Succeeds
<1>2. ASSUME NEW done, Posts(done) PROVE Succeeds(done)
  <2>1. NewKey \in Titled' /\ NewKey.id = nextId /\ NewKey.key = serverKey
    BY <1>2 DEF Placed, Titled, NewKey
  <2> QED BY <1>2, <2>1 DEF Succeeds, Placed
<1>3. CASE RegisterDeployKey
  <2>1. /\ step = "register" /\ UNCHANGED <<org, repo, trash, serverKey, local>>
        /\ \/ Finds("apply") \/ Posts("apply")
           \/ /\ step' = AfterRuleset /\ UNCHANGED <<cmd, report>>
              /\ Adds \/ UNCHANGED <<hub, nextId>>
    BY <1>3 DEF RegisterDeployKey, Register, NewKey
  <2> QED BY <1>1, <1>2, <1>3, <2>1
<1>4. CASE RegisterStampMirrorKey
  <2>1. /\ step = "reregister" /\ UNCHANGED <<org, repo, trash, serverKey, local>>
        /\ \/ Finds("lookup") \/ Posts("lookup")
           \/ End /\ (Adds \/ UNCHANGED <<hub, nextId>>)
    BY <1>4 DEF RegisterStampMirrorKey, Register, NewKey
  <2> QED BY <1>1, <1>2, <1>4, <2>1
<1> QED BY <1>3, <1>4

-----------------------------------------------------------------------------
(* Types *)

\* Nothing is under way, and what there is was made by stamp init.
LEMMA InitProvisionInv == ProvisionInit => ProvisionInv
<1> SUFFICES ASSUME ProvisionInit PROVE ProvisionInv
  OBVIOUS
<1>1. /\ org \in BOOLEAN /\ serverKey \in SshKeys /\ nextId \in Nat /\ repo = NoRepo /\ trash = {}
      /\ step = "idle" /\ cmd = NoCommand /\ report = NoCommand
  BY DEF ProvisionInit
<1>2. repo \in RepoType
  BY <1>1 DEF NoRepo, RepoType
<1>3. local \in LocalType
  <2>1. CASE local = NoClone
    BY <2>1 DEF NoClone, LocalType, Carried
  <2>2. ASSUME NEW c \in Carried, local = [Fresh EXCEPT !.origin = "github", !.config = c]
        PROVE  local \in LocalType
    BY <2>2 DEF Fresh, NoClone, LocalType
  <2> QED BY <2>1, <2>2 DEF ProvisionInit
<1> DEFINE Given == {NoRuleset, {Owner}, {Owner, DeployKey(1)}}
<1> DEFINE Made == {{}} \cup {{[id |-> 1, title |-> "stamp-mirror", key |-> k]} : k \in SshKeys}
<1>4. PICK exists \in BOOLEAN, keys \in Made, ruleset \in Given :
        hub = [exists |-> exists, keys |-> keys, ruleset |-> ruleset]
  <2> DEFINE Mirror(e, ks, r) == [exists |-> e, keys |-> ks, ruleset |-> r]
  <2>1. hub = Mirror(FALSE, {}, NoRuleset) \/ \E ks \in Made, r \in Given : hub = Mirror(TRUE, ks, r)
    BY DEF ProvisionInit, Absent
  <2>2. {} \in Made /\ NoRuleset \in Given
    OBVIOUS
  <2> HIDE DEF Made, Given, Mirror
  <2>3. \E e \in BOOLEAN, ks \in Made, r \in Given : hub = Mirror(e, ks, r)
    BY <2>1, <2>2
  <2> QED BY <2>3 DEF Mirror
<1>5. keys \subseteq KeyType /\ IsFiniteSet(keys)
  <2>1. CASE keys = {}
    BY <2>1, FS_EmptySet
  <2>2. ASSUME NEW k \in SshKeys, keys = {[id |-> 1, title |-> "stamp-mirror", key |-> k]}
        PROVE  keys \subseteq KeyType /\ IsFiniteSet(keys)
    <3>1. [id |-> 1, title |-> "stamp-mirror", key |-> k] \in KeyType
      BY DEF KeyType
    <3> QED BY <2>2, <3>1, FS_Singleton
  <2> QED BY <1>4, <2>1, <2>2
<1>5a. ruleset = NoRuleset \/ ruleset \subseteq ActorType
  BY <1>4 DEF ActorType, Owner
<1>6. Placed
  BY <1>1, <1>2, <1>3, <1>4, <1>5, <1>5a, NoCommandType DEF Placed
<1>7. CommandInv /\ ReportedIsSo
  BY <1>1, <1>3 DEF NoCommand, CommandInv, StepInv, BootstrapInv, YmlInv, OwnMirrorInv, MigrateInv,
     BypassInv, ReportedIsSo
<1> QED BY <1>6, <1>7 DEF ProvisionInv

\* The clone: only these actions write to it.
LEMMA LocalNext ==
    ASSUME Placed, [ProvisionNext]_provisionVars
    PROVE  local' \in LocalType
<1> USE DEF Placed, LocalType, Carried
<1>1. CASE Clone
  BY <1>1 DEF Clone, Fresh, NoClone, RepoType
<1>2. CASE CreateGithubMirrorRepo \/ WriteMirrorYml
  BY <1>2 DEF CreateGithubMirrorRepo, WriteMirrorYml
<1>3. CASE CheckBootstrap \/ WriteBootstrapFiles
  BY <1>3 DEF CheckBootstrap, WriteBootstrapFiles
<1>4. CASE ReviewAndCheckout \/ MergeBootstrap
  BY <1>4 DEF ReviewAndCheckout, MergeBootstrap
<1>5. CASE RenameOrigin \/ AddOrigin
  BY <1>5 DEF RenameOrigin, AddOrigin
<1>6. CASE StartOver
  BY <1>6 DEF StartOver
<1>7. CASE RemoveClone
  BY <1>7 DEF RemoveClone, NoClone
<1>8. ASSUME \/ Provision \/ Bootstrap \/ MigrateExisting \/ MigrateBypass
             \/ ProvisionBareRepoOnServer \/ ApplyMirrorRuleset \/ RegisterDeployKey \/ ApplyStampRuleset
             \/ PushBootstrap \/ VerifyMirrorProvisioned \/ PrintSuccess
             \/ SshRunNewStampRepoFromTarball \/ Decide \/ DeleteDeployKey \/ RegisterStampMirrorKey
             \/ LookUpRuleset \/ ReplaceBypassActors \/ Die
             \/ DeleteRepo \/ RestoreRepo \/ ReplaceServerKey \/ EditMirror
             \/ UNCHANGED provisionVars
      PROVE  UNCHANGED local
  BY <1>8 DEF Provision, Bootstrap, MigrateExisting, MigrateBypass, Start, ProvisionBareRepoOnServer,
     ApplyMirrorRuleset, RegisterDeployKey, ApplyStampRuleset, PushBootstrap, VerifyMirrorProvisioned,
     PrintSuccess, SshRunNewStampRepoFromTarball, Decide, DeleteDeployKey, RegisterStampMirrorKey,
     LookUpRuleset, ReplaceBypassActors, Die, DeleteRepo, RestoreRepo, ReplaceServerKey, EditMirror,
     places, provisionVars
<1>9. CASE UNCHANGED local
  BY <1>9
<1> QED BY <1>1, <1>2, <1>3, <1>4, <1>5, <1>6, <1>7, <1>8, <1>9 DEF ProvisionNext

\* The server: the repository, its copies in the trash, its key.
LEMMA ServerNext ==
    ASSUME Placed, [ProvisionNext]_provisionVars
    PROVE  /\ repo' \in RepoType /\ trash' \subseteq RepoType
           /\ org' \in BOOLEAN /\ serverKey' \in SshKeys
<1> USE DEF Placed, RepoType, Carried
<1>1. CASE ProvisionBareRepoOnServer \/ PushBootstrap \/ SshRunNewStampRepoFromTarball
  <2>1. local.config \in {"none"} \cup Carried
    BY DEF LocalType
  <2>2. CASE ProvisionBareRepoOnServer
    BY <2>2 DEF ProvisionBareRepoOnServer
  <2>3. CASE PushBootstrap
    <3>1. UNCHANGED <<trash, org, serverKey>>
      BY <2>3 DEF PushBootstrap
    <3>2. PICK b \in BOOLEAN : b = (local.yml = "main")
      OBVIOUS
    <3>3. repo' = repo \/ repo' = [main |-> local.config, yml |-> b]
      BY <2>3, <3>2 DEF PushBootstrap
    <3> QED BY <2>1, <3>1, <3>3
  <2>4. CASE SshRunNewStampRepoFromTarball
    BY <2>1, <2>4 DEF SshRunNewStampRepoFromTarball
  <2> QED BY <1>1, <2>2, <2>3, <2>4
<1>2. CASE DeleteRepo
  BY <1>2 DEF DeleteRepo, NoRepo, quiet
<1>3. CASE RestoreRepo \/ ReplaceServerKey
  BY <1>3 DEF RestoreRepo, ReplaceServerKey, quiet
<1>4. ASSUME \/ Provision \/ Bootstrap \/ MigrateExisting \/ MigrateBypass
             \/ Clone \/ CreateGithubMirrorRepo \/ WriteMirrorYml
             \/ ApplyMirrorRuleset \/ RegisterDeployKey \/ ApplyStampRuleset
             \/ CheckBootstrap \/ WriteBootstrapFiles \/ ReviewAndCheckout \/ MergeBootstrap
             \/ VerifyMirrorProvisioned \/ PrintSuccess \/ RenameOrigin \/ AddOrigin
             \/ Decide \/ DeleteDeployKey \/ RegisterStampMirrorKey
             \/ LookUpRuleset \/ ReplaceBypassActors \/ Die
             \/ StartOver \/ RemoveClone \/ EditMirror
             \/ UNCHANGED provisionVars
      PROVE  UNCHANGED <<repo, trash, org, serverKey>>
  BY <1>4 DEF Provision, Bootstrap, MigrateExisting, MigrateBypass, Start, Clone,
     CreateGithubMirrorRepo, WriteMirrorYml, ApplyMirrorRuleset, RegisterDeployKey, ApplyStampRuleset,
     CheckBootstrap, WriteBootstrapFiles, ReviewAndCheckout, MergeBootstrap, VerifyMirrorProvisioned,
     PrintSuccess, RenameOrigin, AddOrigin, Decide, DeleteDeployKey, RegisterStampMirrorKey,
     LookUpRuleset, ReplaceBypassActors, Die, StartOver, RemoveClone, EditMirror,
     places, quiet, provisionVars
<1>5. CASE UNCHANGED <<repo, trash, org, serverKey>>
  BY <1>5
<1> QED BY <1>1, <1>2, <1>3, <1>4, <1>5 DEF ProvisionNext

\* The mirror: keys are posted, deleted and removed one at a time.
LEMMA HubNext ==
    ASSUME Placed, [ProvisionNext]_provisionVars
    PROVE  /\ hub' = [exists |-> hub'.exists, keys |-> hub'.keys, ruleset |-> hub'.ruleset]
           /\ hub'.exists \in BOOLEAN /\ nextId' \in Nat
           /\ hub'.keys \subseteq KeyType /\ IsFiniteSet(hub'.keys)
           /\ hub'.ruleset = NoRuleset \/ hub'.ruleset \subseteq ActorType
<1> USE DEF Placed
<1>1. CASE RegisterDeployKey \/ RegisterStampMirrorKey
  <2>1. NewKey \in KeyType
    BY DEF NewKey, KeyType
  <2>2. IsFiniteSet(hub.keys \cup {NewKey})
    BY FS_AddElement
  <2>3. \/ hub' = hub /\ nextId' = nextId
        \/ hub' = [hub EXCEPT !.keys = @ \cup {NewKey}] /\ nextId' = nextId + 1
    BY <1>1, RegisterIs
  <2>4. CASE hub' = hub /\ nextId' = nextId
    BY <2>4
  <2>5. CASE hub' = [hub EXCEPT !.keys = @ \cup {NewKey}] /\ nextId' = nextId + 1
    <3>1. PICK keys : keys = hub.keys \cup {NewKey}
      OBVIOUS
    <3>2. hub' = [exists |-> hub.exists, keys |-> keys, ruleset |-> hub.ruleset]
      <4>1. hub = [exists |-> hub.exists, keys |-> hub.keys, ruleset |-> hub.ruleset]
        OBVIOUS
      <4>2. hub' = [hub EXCEPT !.keys = keys]
        BY <2>5, <3>1
      <4> HIDE DEF Placed
      <4> QED BY <4>1, <4>2
    <3>3. nextId' \in Nat
      BY <2>5
    <3>4. keys \subseteq KeyType /\ IsFiniteSet(keys)
      BY <2>1, <2>2, <3>1
    <3> QED BY <3>2, <3>3, <3>4
  <2> QED BY <2>3, <2>4, <2>5
<1>2. CASE CreateGithubMirrorRepo
  BY <1>2, FS_EmptySet DEF CreateGithubMirrorRepo, Absent
<1>3. CASE ApplyStampRuleset
  <2>1. cmd.keyId \in Nat \cup {NoId}
    BY DEF CmdType
  <2>2. DeployKey(cmd.keyId) \in ActorType /\ User \in ActorType
    BY <2>1 DEF ActorType
  <2> QED BY <1>3, <2>2 DEF ApplyStampRuleset
<1>4. CASE DeleteDeployKey
  BY <1>4, FS_Subset DEF DeleteDeployKey
<1>5. CASE ReplaceBypassActors
  <2>1. cmd.keyId \in Nat \cup {NoId}
    BY DEF CmdType
  <2>2. DeployKey(cmd.keyId) \in ActorType
    BY <2>1 DEF ActorType
  <2>3. hub.ruleset \subseteq ActorType =>
          ComputeDesiredBypassActors(hub.ruleset) \subseteq ActorType
    BY <2>2 DEF ComputeDesiredBypassActors
  <2> QED BY <1>5, <2>3 DEF ReplaceBypassActors
<1>6. ASSUME hub' \in {hub, Absent}, UNCHANGED nextId
      PROVE  /\ hub' = [exists |-> hub'.exists, keys |-> hub'.keys, ruleset |-> hub'.ruleset]
             /\ hub'.exists \in BOOLEAN /\ nextId' \in Nat
             /\ hub'.keys \subseteq KeyType /\ IsFiniteSet(hub'.keys)
             /\ hub'.ruleset = NoRuleset \/ hub'.ruleset \subseteq ActorType
  <2>1. CASE hub' = hub
    BY <1>6, <2>1
  <2>2. CASE hub' = Absent
    BY <1>6, <2>2, FS_EmptySet DEF Absent
  <2> QED BY <1>6, <2>1, <2>2
<1>7. CASE EditMirror
  <2>1. UNCHANGED nextId
    BY <1>7 DEF EditMirror, quiet
  <2>2. CASE hub' = Absent
    BY <1>6, <2>1, <2>2
  <2>3. ASSUME NEW k \in hub.keys, hub' = [hub EXCEPT !.keys = @ \ {k}]
        PROVE  /\ hub' = [exists |-> hub'.exists, keys |-> hub'.keys, ruleset |-> hub'.ruleset]
               /\ hub'.exists \in BOOLEAN /\ hub'.keys \subseteq KeyType /\ IsFiniteSet(hub'.keys)
               /\ hub'.ruleset = hub.ruleset
    BY <2>3, FS_Subset
  <2>4. ASSUME NEW r \in {NoRuleset, {Owner}}, hub' = [hub EXCEPT !.ruleset = r]
        PROVE  /\ hub' = [exists |-> hub'.exists, keys |-> hub'.keys, ruleset |-> hub'.ruleset]
               /\ hub'.exists \in BOOLEAN /\ hub'.keys \subseteq KeyType /\ IsFiniteSet(hub'.keys)
               /\ hub'.ruleset = NoRuleset \/ hub'.ruleset \subseteq ActorType
    <3>1. Owner \in ActorType
      BY DEF Owner, ActorType
    <3> QED BY <2>4, <3>1
  <2> QED BY <1>7, <2>1, <2>2, <2>3, <2>4 DEF EditMirror
<1>8. ASSUME \/ Provision \/ Bootstrap \/ MigrateExisting \/ MigrateBypass
             \/ ProvisionBareRepoOnServer \/ Clone \/ WriteMirrorYml \/ ApplyMirrorRuleset
             \/ CheckBootstrap \/ WriteBootstrapFiles \/ ReviewAndCheckout \/ MergeBootstrap
             \/ PushBootstrap \/ VerifyMirrorProvisioned \/ PrintSuccess
             \/ SshRunNewStampRepoFromTarball \/ RenameOrigin \/ AddOrigin
             \/ Decide \/ LookUpRuleset \/ Die
             \/ StartOver \/ RemoveClone \/ DeleteRepo \/ RestoreRepo \/ ReplaceServerKey
             \/ UNCHANGED provisionVars
      PROVE  hub' \in {hub, Absent} /\ UNCHANGED nextId
  BY <1>8 DEF Provision, Bootstrap, MigrateExisting, MigrateBypass, Start, ProvisionBareRepoOnServer,
     Clone, WriteMirrorYml, ApplyMirrorRuleset, CheckBootstrap, WriteBootstrapFiles, ReviewAndCheckout,
     MergeBootstrap, PushBootstrap, VerifyMirrorProvisioned, PrintSuccess, RenameOrigin, AddOrigin,
     SshRunNewStampRepoFromTarball, Decide, LookUpRuleset, Die, StartOver, RemoveClone, DeleteRepo,
     RestoreRepo, ReplaceServerKey, places, quiet, provisionVars
<1> QED BY <1>1, <1>2, <1>3, <1>4, <1>5, <1>6, <1>7, <1>8 DEF ProvisionNext

\* The command under way and its report: what a lookup or a call brings is kept.
LEMMA CmdNext ==
    ASSUME Placed, [ProvisionNext]_provisionVars
    PROVE  cmd' \in CmdType /\ report' \in CmdType
<1>0. cmd \in CmdType /\ report \in CmdType /\ NoCommand \in CmdType
  BY NoCommandType DEF Placed
<1>1. ASSUME cmd' \in {cmd, NoCommand}, report' \in {report, cmd, NoCommand}
      PROVE  cmd' \in CmdType /\ report' \in CmdType
  BY <1>0, <1>1
<1>2. ASSUME NEW c \in CmdType, NEW f, Start(c, f)
      PROVE  cmd' \in CmdType /\ report' \in CmdType
  BY <1>0, <1>2 DEF Start
<1>3. CASE Provision
  <2>1. PICK m \in BOOLEAN, g \in BOOLEAN :
          Start([NoCommand EXCEPT !.kind = "provision", !.mirror = m, !.guard = m /\ g], "bare")
    BY <1>3 DEF Provision
  <2>2. PICK b \in BOOLEAN : b = (m /\ g)
    OBVIOUS
  <2>3. [NoCommand EXCEPT !.kind = "provision", !.mirror = m, !.guard = b] \in CmdType
    BY DEF NoCommand, CmdType, Kinds
  <2> QED BY <1>2, <2>1, <2>2, <2>3
<1>4. CASE MigrateExisting
  <2>1. PICK m \in BOOLEAN, g \in BOOLEAN :
          Start([NoCommand EXCEPT !.kind = "migrate", !.mirror = m, !.guard = m /\ g], "tarball")
    BY <1>4 DEF MigrateExisting
  <2>2. PICK b \in BOOLEAN : b = (m /\ g)
    OBVIOUS
  <2>3. [NoCommand EXCEPT !.kind = "migrate", !.mirror = m, !.guard = b] \in CmdType
    BY DEF NoCommand, CmdType, Kinds
  <2> QED BY <1>2, <2>1, <2>2, <2>3
<1>5. CASE MigrateBypass
  <2>1. PICK r \in BOOLEAN, o \in BOOLEAN, e \in SshKeys \cup {NoKey} :
          Start([NoCommand EXCEPT !.kind = "bypass", !.replace = r, !.expect = e,
                                  !.removeOrgadmin = o], "decide")
    BY <1>5 DEF MigrateBypass
  <2>2. [NoCommand EXCEPT !.kind = "bypass", !.replace = r, !.expect = e, !.removeOrgadmin = o]
          \in CmdType
    BY DEF NoCommand, CmdType, Kinds
  <2> QED BY <1>2, <2>1, <2>2
<1>6. CASE Bootstrap
  <2>1. [NoCommand EXCEPT !.kind = "bootstrap"] \in CmdType
    BY DEF NoCommand, CmdType, Kinds
  <2> QED BY <1>2, <1>6, <2>1 DEF Bootstrap
<1>7. CASE RegisterDeployKey \/ RegisterStampMirrorKey
  <2>1. ASSUME NEW d, Succeeds(d) PROVE cmd' \in CmdType /\ report' \in CmdType
    BY <1>0, <2>1 DEF Succeeds, CmdType
  <2> QED BY <1>1, <1>7, <2>1, RegisterIs DEF End
<1>8. CASE Decide
  <2>1. CASE End
    BY <1>1, <2>1 DEF End
  <2>2. ASSUME NEW found \in FindDeployKey, NEW b \in BOOLEAN,
               cmd' = [cmd EXCEPT !.keyId = found, !.blind = b], UNCHANGED report
        PROVE  cmd' \in CmdType /\ report' \in CmdType
    <3>1. found \in Nat \cup {NoId}
      BY FoundKey
    <3> QED BY <1>0, <2>2, <3>1 DEF CmdType
  <2>3. End \/ \E found \in FindDeployKey, b \in BOOLEAN :
                  cmd' = [cmd EXCEPT !.keyId = found, !.blind = b] /\ UNCHANGED report
    BY <1>8 DEF Decide
  <2> QED BY <2>1, <2>2, <2>3
<1>9. CASE LookUpRuleset
  <2>1. PICK found \in FindExistingStampRuleset :
          cmd' = [cmd EXCEPT !.guard = found # NoRuleset] /\ UNCHANGED report
    BY <1>9 DEF LookUpRuleset
  <2>2. PICK b \in BOOLEAN : b = (found # NoRuleset)
    OBVIOUS
  <2> QED BY <1>0, <2>1, <2>2, ZenonT(40) DEF CmdType
<1>10. ASSUME \/ ProvisionBareRepoOnServer \/ Clone \/ CreateGithubMirrorRepo \/ WriteMirrorYml
              \/ ApplyMirrorRuleset \/ ApplyStampRuleset
              \/ CheckBootstrap \/ WriteBootstrapFiles \/ ReviewAndCheckout
              \/ MergeBootstrap \/ PushBootstrap \/ VerifyMirrorProvisioned \/ PrintSuccess
              \/ SshRunNewStampRepoFromTarball \/ RenameOrigin \/ AddOrigin
              \/ DeleteDeployKey \/ ReplaceBypassActors \/ Die
              \/ StartOver \/ RemoveClone \/ DeleteRepo \/ RestoreRepo \/ ReplaceServerKey \/ EditMirror
              \/ UNCHANGED provisionVars
       PROVE  cmd' \in {cmd, NoCommand} /\ report' \in {report, cmd, NoCommand}
  BY <1>10 DEF ProvisionBareRepoOnServer, Clone, CreateGithubMirrorRepo, WriteMirrorYml,
     ApplyMirrorRuleset, ApplyStampRuleset, CheckBootstrap, WriteBootstrapFiles, ReviewAndCheckout,
     MergeBootstrap, PushBootstrap, VerifyMirrorProvisioned, PrintSuccess,
     SshRunNewStampRepoFromTarball, RenameOrigin, AddOrigin, DeleteDeployKey, ReplaceBypassActors,
     Die, StartOver, RemoveClone, DeleteRepo, RestoreRepo, ReplaceServerKey, EditMirror, End, Done,
     between, quiet, provisionVars
<1> QED BY <1>1, <1>3, <1>4, <1>5, <1>6, <1>7, <1>8, <1>9, <1>10 DEF ProvisionNext

\* Every step keeps the types.
LEMMA PlacedNext == Placed /\ [ProvisionNext]_provisionVars => Placed'
BY LocalNext, ServerNext, HubNext, CmdNext DEF Placed

\* A command starts.
LEMMA StartKeeps ==
    ASSUME ProvisionInv,
           Provision \/ Bootstrap \/ MigrateExisting \/ MigrateBypass
    PROVE  CommandInv'
<1>0. ASSUME MigrateBypass
      PROVE  \E r, o \in BOOLEAN, e \in SshKeys \cup {NoKey} :
                 Start([NoCommand EXCEPT !.kind = "bypass", !.replace = r, !.expect = e,
                                         !.removeOrgadmin = o], "decide")
  BY <1>0 DEF MigrateBypass
<1> USE ProvisionAssumption DEF ProvisionInv, Placed, LocalType, CmdType, RepoType, CommandInv, StepInv,
     Carried, Bootstrapped, BootstrapInv, YmlInv, OwnMirrorInv, MigrateInv, BypassInv, UnderGate, Ruled, Held, Known, Titled,
     ProvisionSteps, BootstrapSteps, MigrateSteps, BypassSteps, RulesetSteps, NoCommand, NoClone,
     Fresh, AfterRuleset, Goto, Start, End, Done, between, quiet, places
<1>1. CASE Provision
  <2>1. PICK m \in BOOLEAN, g \in BOOLEAN :
          Start([NoCommand EXCEPT !.kind = "provision", !.mirror = m, !.guard = m /\ g], "bare")
    BY <1>1 DEF Provision
  <2>2. PICK b \in BOOLEAN : b = (m /\ g)
    OBVIOUS
  <2>3. Start([NoCommand EXCEPT !.kind = "provision", !.mirror = m, !.guard = b], "bare")
    BY <2>1, <2>2
  <2> QED BY <2>2, <2>3
<1>2. CASE Bootstrap
  BY <1>2 DEF Bootstrap
<1>3. CASE MigrateExisting
  <2>1. PICK m \in BOOLEAN, g \in BOOLEAN :
          Start([NoCommand EXCEPT !.kind = "migrate", !.mirror = m, !.guard = m /\ g], "tarball")
    BY <1>3 DEF MigrateExisting
  <2>2. PICK b \in BOOLEAN : b = (m /\ g)
    OBVIOUS
  <2>3. Start([NoCommand EXCEPT !.kind = "migrate", !.mirror = m, !.guard = b], "tarball")
    BY <2>1, <2>2
  <2> QED BY <2>3
<1>4. CASE MigrateBypass
  <2>1. PICK r \in BOOLEAN, o \in BOOLEAN, e \in SshKeys \cup {NoKey} :
          Start([NoCommand EXCEPT !.kind = "bypass", !.replace = r, !.expect = e,
                                  !.removeOrgadmin = o], "decide")
    BY <1>0, <1>4, ZenonT(40)
  <2> QED BY <2>1
<1> QED BY <1>1, <1>2, <1>3, <1>4

\* The steps on the server and in the clone.
LEMMA ServerStepKeeps ==
    ASSUME ProvisionInv,
           ProvisionBareRepoOnServer \/ Clone \/ WriteMirrorYml
           \/ CheckBootstrap \/ WriteBootstrapFiles \/ ReviewAndCheckout \/ MergeBootstrap \/ PushBootstrap
           \/ SshRunNewStampRepoFromTarball \/ RenameOrigin \/ AddOrigin
    PROVE  CommandInv'
<1> USE ProvisionAssumption DEF ProvisionInv, Placed, LocalType, CmdType, RepoType, CommandInv, StepInv,
     Carried, Bootstrapped, BootstrapInv, YmlInv, OwnMirrorInv, MigrateInv, BypassInv, UnderGate, Ruled, Held, Known, Titled,
     ProvisionSteps, BootstrapSteps, MigrateSteps, BypassSteps, RulesetSteps, NoCommand, NoClone,
     Fresh, AfterRuleset, Goto, Start, End, Done, between, quiet, places
<1>1. CASE ProvisionBareRepoOnServer
  BY <1>1 DEF ProvisionBareRepoOnServer
<1>2. CASE Clone
  BY <1>2 DEF Clone
<1>3. CASE WriteMirrorYml
  BY <1>3 DEF WriteMirrorYml
<1>4. CASE CheckBootstrap
  BY <1>4 DEF CheckBootstrap
<1>5. CASE WriteBootstrapFiles
  BY <1>5 DEF WriteBootstrapFiles
<1>6. CASE ReviewAndCheckout
  BY <1>6 DEF ReviewAndCheckout
<1>7. CASE MergeBootstrap
  BY <1>7 DEF MergeBootstrap
<1>8. CASE PushBootstrap
  BY <1>8 DEF PushBootstrap
<1>9. CASE SshRunNewStampRepoFromTarball
  BY <1>9 DEF SshRunNewStampRepoFromTarball
<1>10. CASE RenameOrigin
  BY <1>10 DEF RenameOrigin
<1>11. CASE AddOrigin
  BY <1>11 DEF AddOrigin
<1> QED BY <1>1, <1>2, <1>3, <1>4, <1>5, <1>6, <1>7, <1>8, <1>9, <1>10, <1>11

\* The steps at the mirror that register no key.
LEMMA MirrorStepKeeps ==
    ASSUME ProvisionInv,
           ApplyMirrorRuleset \/ ApplyStampRuleset \/ DeleteDeployKey
    PROVE  CommandInv'
<1> USE ProvisionAssumption DEF ProvisionInv, Placed, LocalType, CmdType, RepoType, CommandInv, StepInv,
     Carried, Bootstrapped, BootstrapInv, YmlInv, OwnMirrorInv, MigrateInv, BypassInv, UnderGate, Ruled, Held, Known, Titled,
     ProvisionSteps, BootstrapSteps, MigrateSteps, BypassSteps, RulesetSteps, NoCommand, NoClone,
     Fresh, AfterRuleset, Goto, Start, End, Done, between, quiet, places
<1>1. CASE ApplyMirrorRuleset
  BY <1>1 DEF ApplyMirrorRuleset
<1>2. CASE ApplyStampRuleset
  BY <1>2 DEF ApplyStampRuleset
<1>3. CASE DeleteDeployKey
  BY <1>3 DEF DeleteDeployKey
<1> QED BY <1>1, <1>2, <1>3

\* The end of a command, and what happens between two.
LEMMA EndKeeps ==
    ASSUME ProvisionInv,
           PrintSuccess \/ Die \/ StartOver \/ RemoveClone \/ DeleteRepo \/ RestoreRepo \/ ReplaceServerKey \/ EditMirror
    PROVE  CommandInv'
<1> USE ProvisionAssumption DEF ProvisionInv, Placed, LocalType, CmdType, RepoType, CommandInv, StepInv,
     Carried, Bootstrapped, BootstrapInv, YmlInv, OwnMirrorInv, MigrateInv, BypassInv, UnderGate, Ruled, Held, Known, Titled,
     ProvisionSteps, BootstrapSteps, MigrateSteps, BypassSteps, RulesetSteps, NoCommand, NoClone,
     Fresh, AfterRuleset, Goto, Start, End, Done, between, quiet, places
<1>1. CASE PrintSuccess
  BY <1>1 DEF PrintSuccess
<1>2. CASE Die
  BY <1>2 DEF Die
<1>3. CASE StartOver
  BY <1>3 DEF StartOver
<1>4. CASE RemoveClone
  BY <1>4 DEF RemoveClone
<1>5. CASE DeleteRepo
  BY <1>5 DEF DeleteRepo
<1>6. CASE RestoreRepo
  BY <1>6 DEF RestoreRepo
<1>7. CASE ReplaceServerKey
  BY <1>7 DEF ReplaceServerKey
<1>8. CASE EditMirror
  BY <1>8 DEF EditMirror
<1> QED BY <1>1, <1>2, <1>3, <1>4, <1>5, <1>6, <1>7, <1>8


\* gh repo create makes a mirror without keys or ruleset.
LEMMA CreateKeeps == ProvisionInv /\ CreateGithubMirrorRepo => CommandInv'
<1> SUFFICES ASSUME ProvisionInv, CreateGithubMirrorRepo PROVE CommandInv'
  OBVIOUS
<1>1. /\ step = "create" /\ step' = "yml"
      /\ hub'.exists /\ hub'.keys = {} /\ hub'.ruleset = NoRuleset
      /\ UNCHANGED <<repo, cmd, report>>
  BY DEF CreateGithubMirrorRepo, Goto, Absent
<1>2. local'.config = local.config /\ local'.origin = local.origin /\ local'.yml = local.yml
  BY DEF CreateGithubMirrorRepo, ProvisionInv, Placed, LocalType
<1>3. /\ cmd.kind = "provision" /\ report.kind = "none" /\ StepInv
      /\ local.config = "placeholder" /\ local.origin = "stamp"
  BY <1>1 DEF ProvisionInv, CommandInv, StepInv, BootstrapInv, ProvisionSteps, BootstrapSteps,
     MigrateSteps, BypassSteps, RulesetSteps
<1> QED BY <1>1, <1>2, <1>3 DEF CommandInv, StepInv, BootstrapInv, YmlInv, OwnMirrorInv,
           MigrateInv, BypassInv, ProvisionSteps, RulesetSteps

\* Nothing readable is wrong with the mirror: then the ruleset that is there is the right one.
LEMMA VerifyKeeps == ProvisionInv /\ VerifyMirrorProvisioned => CommandInv'
<1> SUFFICES ASSUME ProvisionInv, VerifyMirrorProvisioned PROVE CommandInv'
  OBVIOUS
<1>1. step = "verify" /\ UNCHANGED <<org, repo, serverKey, hub, local>>
  BY DEF VerifyMirrorProvisioned, places
<1>2. /\ cmd.kind = "provision" /\ report.kind = "none" /\ StepInv
      /\ Bootstrapped /\ local.origin = "stamp"
      /\ (cmd.mirror => repo.yml) /\ cmd.guard /\ cmd.mirror
  BY <1>1 DEF ProvisionInv, CommandInv, StepInv, BootstrapInv, YmlInv, ProvisionSteps, BootstrapSteps,
     MigrateSteps, BypassSteps, RulesetSteps
<1>3. CASE End
  BY <1>1, <1>2, <1>3 DEF End, NoCommand, CommandInv, StepInv, BootstrapInv, YmlInv,
     OwnMirrorInv, MigrateInv, BypassInv
<1>4. CASE step' = "success" /\ hub.ruleset # NoRuleset /\ UNCHANGED <<cmd, report>>
  <2>1. hub.exists /\ (\A k \in hub.keys : k.key = serverKey) /\ Ruled
    BY <1>1, <1>2, <1>4 DEF ProvisionInv, CommandInv, OwnMirrorInv, ProvisionSteps, RulesetSteps
  <2>2. Ruled' /\ Bootstrapped'
    BY <1>1, <1>2, <2>1 DEF Ruled, Bootstrapped, UnderGate, Titled
  <2> QED BY <1>1, <1>2, <1>4, <2>1, <2>2 DEF CommandInv, StepInv, BootstrapInv, YmlInv,
             OwnMirrorInv, MigrateInv, BypassInv, ProvisionSteps, RulesetSteps
<1>5. \/ End
      \/ step' = "success" /\ hub.ruleset # NoRuleset /\ UNCHANGED <<cmd, report>>
  BY DEF VerifyMirrorProvisioned, Problems, FindExistingStampRuleset
<1> QED BY <1>3, <1>4, <1>5

\* What a step of --migrate-bypass starts from.
LEMMA BypassStep ==
    ASSUME ProvisionInv, step \in {"decide", "reregister", "lookup", "bypass"}
    PROVE  cmd.kind = "bypass" /\ report.kind = "none" /\ BypassInv
BY DEF ProvisionInv, CommandInv, StepInv, ProvisionSteps, BootstrapSteps, MigrateSteps, BypassSteps,
   RulesetSteps

\* And what it has to keep.
LEMMA BypassStepIs ==
    ASSUME UNCHANGED <<local, report>>, report.kind = "none", cmd'.kind = "bypass",
           step' \in BypassSteps, BypassInv'
    PROVE  CommandInv'
BY DEF CommandInv, StepInv, BootstrapInv, YmlInv, OwnMirrorInv, MigrateInv, BypassSteps,
   ProvisionSteps, RulesetSteps

\* A command that ends early leaves nothing to keep but the clone's origin.
LEMMA EndIs == End => CommandInv'
BY DEF End, NoCommand, CommandInv, StepInv, BootstrapInv, YmlInv, OwnMirrorInv, MigrateInv,
   BypassInv

\* The list of the bypass actors is looked up after the key.
LEMMA LookUpKeeps == ProvisionInv /\ LookUpRuleset => CommandInv'
<1> SUFFICES ASSUME ProvisionInv, LookUpRuleset PROVE CommandInv'
  OBVIOUS
<1>1. PICK found \in FindExistingStampRuleset :
        /\ step = "lookup" /\ step' = (IF found = NoRuleset THEN "success" ELSE "bypass")
        /\ cmd' = [cmd EXCEPT !.guard = found # NoRuleset]
        /\ UNCHANGED <<hub, serverKey, local, report>>
  BY DEF LookUpRuleset, places
<1>2. PICK b \in BOOLEAN : b = (found # NoRuleset)
  OBVIOUS
<1>3. cmd.kind = "bypass" /\ report.kind = "none" /\ Known
  BY <1>1, BypassStep DEF BypassInv
<1>4. cmd'.kind = "bypass" /\ cmd'.keyId = cmd.keyId /\ cmd'.blind = cmd.blind /\ cmd'.guard = b
  BY <1>1, <1>2, <1>3 DEF ProvisionInv, Placed, CmdType
<1>5. Known'
  BY <1>1, <1>3, <1>4 DEF Known, Titled
<1>6. step' \in {"success", "bypass"} /\ (step' = "success" => ~b)
  BY <1>1, <1>2
<1> HIDE DEF Known
<1>7. BypassInv'
  BY <1>4, <1>5, <1>6 DEF BypassInv
<1>8. step' \in BypassSteps
  BY <1>6 DEF BypassSteps
<1> QED BY <1>1, <1>3, <1>4, <1>7, <1>8, BypassStepIs

\* The list that is put has the command's deploy key, and of the others no deploy key,
\* and not the organization's administrators if they were to go.
LEMMA DesiredActors ==
    ASSUME NEW current, current \subseteq ActorType
    PROVE  /\ DeployKey(cmd.keyId) \in ComputeDesiredBypassActors(current)
           /\ ComputeDesiredBypassActors(current) \ {DeployKey(cmd.keyId)} \subseteq
                  IF cmd.removeOrgadmin THEN {User} ELSE {OrgAdmin, User}
<1>1. OrgAdmin.type = "OrganizationAdmin" /\ \A i : DeployKey(i).type = "DeployKey"
  BY DEF DeployKey, OrgAdmin
<1>2. \A a \in current : a.type = "DeployKey" \/ a \in {OrgAdmin, User}
  BY <1>1 DEF ActorType
<1>3. ASSUME NEW a \in ComputeDesiredBypassActors(current) \ {DeployKey(cmd.keyId)}
      PROVE  a \in {OrgAdmin, User} /\ (cmd.removeOrgadmin => a # OrgAdmin)
  BY <1>1, <1>2 DEF ComputeDesiredBypassActors
<1>4. DeployKey(cmd.keyId) \in ComputeDesiredBypassActors(current)
  BY DEF ComputeDesiredBypassActors
<1> QED BY <1>3, <1>4

\* The list is put with the key the command works with.
LEMMA ReplaceKeeps == ProvisionInv /\ ReplaceBypassActors => CommandInv'
<1> SUFFICES ASSUME ProvisionInv, ReplaceBypassActors PROVE CommandInv'
  OBVIOUS
<1>1. /\ step = "bypass" /\ step' = "success" /\ hub.ruleset # NoRuleset
      /\ hub' = [hub EXCEPT !.ruleset = ComputeDesiredBypassActors(hub.ruleset)]
      /\ UNCHANGED <<serverKey, local, cmd, report>>
  BY DEF ReplaceBypassActors, Goto
<1>2. cmd.kind = "bypass" /\ report.kind = "none" /\ Known
  BY <1>1, BypassStep DEF BypassInv
<1>3. hub'.keys = hub.keys /\ hub'.ruleset = ComputeDesiredBypassActors(hub.ruleset)
  BY <1>1 DEF ProvisionInv, Placed
<1>4. Known'
  BY <1>1, <1>2, <1>3 DEF Known, Titled
<1>5. /\ DeployKey(cmd.keyId) \in hub'.ruleset
      /\ hub'.ruleset \ {DeployKey(cmd.keyId)} \subseteq
             IF cmd.removeOrgadmin THEN {User} ELSE {OrgAdmin, User}
  <2>1. hub.ruleset \subseteq ActorType
    BY <1>1 DEF ProvisionInv, Placed
  <2> QED BY <1>3, <2>1, DesiredActors
<1>6. BypassInv'
  BY <1>1, <1>4, <1>5 DEF BypassInv, DeployKey
<1> QED BY <1>1, <1>2, <1>6, BypassStepIs DEF BypassSteps

\* One of at most one key of the title is every one.
LEMMA OnlyTitled ==
    ASSUME Placed, Cardinality(Titled) <= 1, NEW j \in Titled, NEW k \in Titled
    PROVE  j = k
<1>1. IsFiniteSet(hub.keys) /\ Titled \subseteq hub.keys /\ {j, k} \subseteq Titled
  BY DEF Placed, Titled
<1>2. IsFiniteSet(Titled)
  BY <1>1, FS_Subset
<1>3. Cardinality({j, k}) <= Cardinality(Titled) /\ IsFiniteSet({j, k})
  BY <1>1, <1>2, FS_Subset
<1>4. Cardinality({j, k}) \in Nat /\ Cardinality(Titled) \in Nat
  BY <1>2, <1>3, FS_CardinalityType
<1> SUFFICES ASSUME j # k PROVE FALSE
  OBVIOUS
<1>5. IsFiniteSet({j}) /\ Cardinality({j}) = 1
  BY FS_Singleton
<1>6. Cardinality({j} \cup {k}) = 2
  BY <1>5, FS_AddElement
<1>7. {j} \cup {k} = {j, k}
  OBVIOUS
<1> QED BY <1>3, <1>4, <1>6, <1>7

\* decideMirrorKeyAction, where the lookups may have failed.
LEMMA DecideKeeps == ProvisionInv /\ Decide => CommandInv'
<1> SUFFICES ASSUME ProvisionInv, Decide PROVE CommandInv'
  OBVIOUS
<1> DEFINE Acts(found, action) ==
             IF action = "refuse" THEN End
             ELSE /\ step' = (CASE action = "reuse" -> "lookup"
                                [] action = "replace" -> "delete"
                                [] OTHER -> "reregister")
                  /\ cmd' = [cmd EXCEPT !.keyId = found,
                         !.blind = Titled # {} /\ (found = NoId \/ Cardinality(Titled) > 1)]
                  /\ UNCHANGED report
<1>a. PICK found \in FindDeployKey :
        \E body \in {NoKey} \cup {k.key : k \in {t \in Titled : t.id = found}} :
            Acts(found, DecideMirrorKeyAction(found, body))
  BY DEF Decide
<1>b. PICK body \in {NoKey} \cup {k.key : k \in {t \in Titled : t.id = found}} :
        Acts(found, DecideMirrorKeyAction(found, body))
  BY <1>a
<1>c. PICK action \in {"refuse", "register", "reuse", "replace"} :
        action = DecideMirrorKeyAction(found, body)
  BY DEF DecideMirrorKeyAction
<1>1. action = DecideMirrorKeyAction(found, body) /\ Acts(found, action)
  BY <1>b, <1>c
<1>2. step = "decide" /\ UNCHANGED <<serverKey, hub, local>>
  BY DEF Decide, places
<1>3. cmd.kind = "bypass" /\ report.kind = "none"
  BY <1>2, BypassStep
<1>4. CASE action = "refuse"
  BY <1>1, <1>4, EndIs
<1>5. CASE action # "refuse"
  <2>1. PICK blind \in BOOLEAN :
          blind = (Titled # {} /\ (found = NoId \/ Cardinality(Titled) > 1))
    OBVIOUS
  <2>2. /\ cmd'.kind = "bypass" /\ cmd'.keyId = found /\ cmd'.blind = blind /\ UNCHANGED report
        /\ Titled' = Titled
    <3>1. cmd' = [cmd EXCEPT !.keyId = found, !.blind = blind] /\ UNCHANGED report
      BY <1>1, <1>5, <2>1
    <3> QED BY <1>2, <1>3, <3>1 DEF ProvisionInv, Placed, CmdType, Titled
  <2>3. CASE action = "reuse"
    <3>1. step' = "lookup" /\ body = serverKey
      BY <1>1, <2>3 DEF DecideMirrorKeyAction
    <3>2. serverKey # NoKey
      BY ProvisionAssumption DEF ProvisionInv, Placed
    <3>3. PICK k \in Titled : k.id = found /\ k.key = serverKey
      BY <1>1, <3>1, <3>2
    <3>4. Known'
      BY <1>2, <2>2, <3>3 DEF Known
    <3>5. BypassInv'
      BY <3>1, <3>4 DEF BypassInv
    <3> QED BY <1>2, <1>3, <2>2, <3>1, <3>5, BypassStepIs DEF BypassSteps
  <2>4. CASE action = "replace"
    <3>1. step' = "delete" /\ found # NoId
      BY <1>1, <2>4 DEF DecideMirrorKeyAction
    <3>2. PICK j \in Titled : j.id = found
      BY <3>1, FoundKey DEF ProvisionInv
    <3>3. IsFiniteSet(Titled)
      BY FS_Subset DEF ProvisionInv, Placed, Titled
    <3>4. Cardinality(Titled) \in Nat
      BY <3>3, FS_CardinalityType
    <3>5. blind \/ Cardinality(Titled) <= 1
      <4>1. ASSUME ~blind PROVE ~(Cardinality(Titled) > 1)
        BY <2>1, <3>2, <4>1, Zenon
      <4>2. ASSUME ~(Cardinality(Titled) > 1) PROVE Cardinality(Titled) <= 1
        BY <3>4, <4>2
      <4> QED BY <4>1, <4>2
    <3>6. blind \/ \A k \in Titled : k.id = found
      BY <3>2, <3>5, OnlyTitled DEF ProvisionInv
    <3>7. BypassInv'
      BY <2>2, <3>1, <3>6 DEF BypassInv
    <3> QED BY <1>2, <1>3, <2>2, <3>1, <3>7, BypassStepIs DEF BypassSteps
  <2>5. CASE action = "register"
    <3>1. step' = "reregister" /\ found = NoId
      BY <1>1, <2>5 DEF DecideMirrorKeyAction
    <3>2. BypassInv'
      BY <2>1, <2>2, <3>1 DEF BypassInv
    <3> QED BY <1>2, <1>3, <2>2, <3>1, <3>2, BypassStepIs DEF BypassSteps
  <2> QED BY <1>5, <2>3, <2>4, <2>5
<1> QED BY <1>4, <1>5

\* A key is registered again: the one it succeeds with is the server's, unless the lookup
\* that had missed it finds it now.
LEMMA ReregisterKeeps == ProvisionInv /\ RegisterStampMirrorKey => CommandInv'
<1> SUFFICES ASSUME ProvisionInv, RegisterStampMirrorKey PROVE CommandInv'
  OBVIOUS
<1>0. step = "reregister"
  BY DEF RegisterStampMirrorKey
<1>1. cmd.kind = "bypass" /\ report.kind = "none" /\ (cmd.blind \/ Titled = {})
  BY <1>0, BypassStep DEF BypassInv
<1>2. UNCHANGED <<local, serverKey>> /\ (Succeeds("lookup") \/ End)
  BY <1>0, RegisterIs DEF ProvisionInv, RegisterDeployKey
<1>3. CASE Succeeds("lookup")
  <2>1. PICK k \in Titled' :
          /\ cmd' = [cmd EXCEPT !.keyId = k.id]
          /\ k.key = serverKey \/ (k \in Titled /\ hub' = hub)
    BY <1>3 DEF Succeeds
  <2>2. step' = "lookup" /\ UNCHANGED report
    BY <1>3 DEF Succeeds
  <2>3. cmd'.kind = "bypass" /\ cmd'.keyId = k.id /\ cmd'.blind = cmd.blind
    BY <1>1, <2>1 DEF ProvisionInv, Placed, CmdType
  <2>4. k.key = serverKey \/ cmd.blind
    BY <1>1, <2>1
  <2>5. Known'
    BY <1>2, <2>1, <2>3, <2>4 DEF Known
  <2>6. BypassInv'
    BY <2>2, <2>5 DEF BypassInv
  <2> QED BY <1>1, <1>2, <2>2, <2>3, <2>6, BypassStepIs DEF BypassSteps
<1>4. CASE End
  BY <1>4, EndIs
<1> QED BY <1>2, <1>3, <1>4

\* The key of a mirror just made: what there is to find is the server's.
LEMMA RegisterKeeps == ProvisionInv /\ RegisterDeployKey => CommandInv'
<1> SUFFICES ASSUME ProvisionInv, RegisterDeployKey PROVE CommandInv'
  OBVIOUS
<1>0. step = "register" /\ UNCHANGED local
  BY DEF RegisterDeployKey
<1>1. /\ cmd.kind \in {"provision", "migrate"} /\ report.kind = "none" /\ StepInv
      /\ cmd.kind = "provision" => local.config = "placeholder"
      /\ cmd.kind = "provision" /\ cmd.mirror => local.yml = "untracked"
      /\ cmd.kind = "provision" => local.origin = "stamp"
      /\ MigrateInv
  BY <1>0 DEF ProvisionInv, CommandInv, StepInv, BootstrapInv, YmlInv, MigrateInv,
     ProvisionSteps, BootstrapSteps, MigrateSteps, BypassSteps, RulesetSteps
<1>2. /\ UNCHANGED <<org, repo, serverKey>>
      /\ \/ hub' = hub
         \/ hub' = [hub EXCEPT !.keys = @ \cup {NewKey}]
      /\ \/ Succeeds("apply")
         \/ step' = AfterRuleset /\ UNCHANGED <<cmd, report>>
  BY <1>0, RegisterIs DEF ProvisionInv, RegisterStampMirrorKey
<1>3. /\ hub'.exists = hub.exists /\ hub'.ruleset = hub.ruleset /\ hub.keys \subseteq hub'.keys
      /\ \A k \in hub'.keys : k \in hub.keys \/ k.key = serverKey
  BY <1>2 DEF ProvisionInv, Placed, NewKey
<1>4. /\ cmd'.kind = cmd.kind /\ cmd'.mirror = cmd.mirror /\ cmd'.guard = cmd.guard
      /\ UNCHANGED report
  BY <1>2 DEF Succeeds, ProvisionInv, Placed, CmdType
<1>5. step' = "apply" \/ step' = AfterRuleset
  BY <1>2 DEF Succeeds
<1>6. ASSUME cmd.kind = "provision", cmd.mirror
      PROVE  /\ hub'.exists /\ \A k \in hub'.keys : k.key = serverKey
             /\ hub'.ruleset = NoRuleset \/ Ruled'
             /\ step' = "apply" /\ org => Held'
  <2>1. hub.exists /\ (\A k \in hub.keys : k.key = serverKey) /\ (hub.ruleset = NoRuleset \/ Ruled)
    BY <1>0, <1>6 DEF ProvisionInv, CommandInv, OwnMirrorInv, ProvisionSteps, RulesetSteps
  <2>2. Titled \subseteq Titled'
    BY <1>3 DEF Titled
  <2>3. Ruled => Ruled'
    BY <1>2, <1>3, <2>2 DEF Ruled
  <2>4. \A k \in hub'.keys : k.key = serverKey
    BY <1>3, <2>1
  <2>5. ASSUME step' = "apply" PROVE Held'
    <3>1. Succeeds("apply")
      BY <1>2, <1>6, <2>5 DEF AfterRuleset
    <3>2. PICK k \in Titled' : cmd' = [cmd EXCEPT !.keyId = k.id]
      BY <3>1 DEF Succeeds
    <3>3. cmd'.keyId = k.id
      BY <3>2 DEF ProvisionInv, Placed, CmdType
    <3>4. k.key = serverKey /\ serverKey' = serverKey
      BY <1>2, <2>4 DEF Titled
    <3> QED BY <3>3, <3>4 DEF Held
  <2> QED BY <1>3, <2>1, <2>3, <2>4, <2>5
<1>7. step' \in {"apply", IF cmd.kind = "provision" THEN "bootstrap" ELSE "success"}
  BY <1>5 DEF AfterRuleset
<1>8. OwnMirrorInv'
  BY <1>1, <1>2, <1>4, <1>6, <1>7 DEF OwnMirrorInv
<1>9. StepInv' /\ BootstrapInv'
  BY <1>0, <1>1, <1>4, <1>7 DEF StepInv, BootstrapInv, ProvisionSteps, MigrateSteps, RulesetSteps
<1>10. YmlInv' /\ MigrateInv' /\ BypassInv'
  BY <1>0, <1>1, <1>2, <1>4, <1>7 DEF YmlInv, MigrateInv, BypassInv, MigrateSteps, RulesetSteps
<1> QED BY <1>8, <1>9, <1>10 DEF CommandInv

-----------------------------------------------------------------------------
(* What a command reports done *)

\* Where nothing changes, nothing is broken.
LEMMA StutterKeeps == ProvisionInv /\ UNCHANGED provisionVars => CommandInv'
BY DEF ProvisionInv, provisionVars, CommandInv, StepInv, BootstrapInv, Bootstrapped, YmlInv, OwnMirrorInv,
   MigrateInv, BypassInv, UnderGate, Ruled, Held, Known, Titled

\* Every step keeps what holds at the command's step.
LEMMA CommandNext == ProvisionInv /\ [ProvisionNext]_provisionVars => CommandInv'
BY StartKeeps, ServerStepKeeps, MirrorStepKeeps, EndKeeps, CreateKeeps, VerifyKeeps, LookUpKeeps,
   ReplaceKeeps, DecideKeeps, ReregisterKeeps, RegisterKeeps, StutterKeeps DEF ProvisionNext

\* The report of a command that has come to its end is true.
LEMMA SuccessIsSo ==
    ASSUME ProvisionInv, PrintSuccess
    PROVE  ReportedIsSo'
<1>1. /\ step = "success" /\ report' = cmd
      /\ UNCHANGED <<org, repo, serverKey, hub, local>>
  BY DEF PrintSuccess, Done, places
<1>2. UnderGate' = UnderGate /\ Titled' = Titled /\ HasYml' = HasYml
  BY <1>1 DEF UnderGate, Titled, HasYml
<1>3. CASE cmd.kind = "provision"
  <2>1. UnderGate /\ (cmd.mirror => repo.yml /\ hub.exists) /\ (cmd.guard => Ruled)
    BY <1>1, <1>3 DEF ProvisionInv, CommandInv, StepInv, BootstrapInv, Bootstrapped, YmlInv, OwnMirrorInv,
       ProvisionSteps
  <2>2. Provisioned'
    BY <1>1, <1>2, <2>1 DEF Provisioned, Ruled
  <2> QED BY <1>1, <1>3, <2>2 DEF ReportedIsSo
<1>4. CASE cmd.kind = "bootstrap"
  <2>1. Bootstrapped
    BY <1>1, <1>4 DEF ProvisionInv, CommandInv, BootstrapInv
  <2>2. Bootstrapped'
    BY <1>1, <1>2, <2>1 DEF Bootstrapped
  <2> QED BY <1>1, <1>4, <2>2 DEF ReportedIsSo
<1>5. CASE cmd.kind = "migrate"
  <2>1. /\ local.origin = "stamp" /\ local.github /\ repo.main = local.config
        /\ cmd.mirror => HasYml
    BY <1>1, <1>5 DEF ProvisionInv, CommandInv, MigrateInv, HasYml
  <2>2. Migrated'
    BY <1>1, <1>2, <2>1 DEF Migrated
  <2> QED BY <1>1, <1>5, <2>2 DEF ReportedIsSo
<1>6. CASE cmd.kind = "bypass"
  <2>1. /\ Known
        /\ cmd.guard =>
              /\ DeployKey(cmd.keyId) \in hub.ruleset
              /\ hub.ruleset \ {DeployKey(cmd.keyId)} \subseteq
                     IF cmd.removeOrgadmin THEN {User} ELSE {OrgAdmin, User}
    BY <1>1, <1>6 DEF ProvisionInv, CommandInv, BypassInv
  <2>2. PICK k \in Titled : k.id = cmd.keyId /\ (cmd.blind \/ k.key = serverKey)
    BY <2>1 DEF Known
  <2>3. Bypassed'
    BY <1>1, <1>2, <2>1, <2>2 DEF Bypassed
  <2> QED BY <1>1, <1>6, <2>3 DEF ReportedIsSo
<1> QED BY <1>1, <1>3, <1>4, <1>5, <1>6 DEF ProvisionInv, CommandInv, StepInv

\* No other step reports anything: a report stands only while no command is under way,
\* and until somebody else has been at the places.
LEMMA OtherReports ==
    ASSUME ProvisionInv, [ProvisionNext]_provisionVars, ~PrintSuccess
    PROVE  \/ report'.kind = "none"
           \/ UNCHANGED provisionVars
<1>1. CASE UNCHANGED provisionVars
  BY <1>1
<1>2. ASSUME UNCHANGED report, step # "idle" PROVE report'.kind = "none"
  BY <1>2 DEF ProvisionInv, CommandInv, StepInv
<1>3. ASSUME report' = NoCommand PROVE report'.kind = "none"
  BY <1>3, NoCommandType
<1>4. CASE Provision \/ Bootstrap \/ MigrateExisting \/ MigrateBypass
           \/ StartOver \/ RemoveClone \/ DeleteRepo \/ RestoreRepo \/ ReplaceServerKey \/ EditMirror
  BY <1>3, <1>4 DEF Provision, Bootstrap, MigrateExisting, MigrateBypass, Start,
     StartOver, RemoveClone, DeleteRepo, RestoreRepo, ReplaceServerKey, EditMirror, between
<1>5. CASE RegisterDeployKey \/ RegisterStampMirrorKey
  BY <1>2, <1>5, RegisterIs DEF ProvisionInv, Succeeds, End
<1>6. CASE \/ ProvisionBareRepoOnServer \/ Clone \/ CreateGithubMirrorRepo \/ WriteMirrorYml
           \/ ApplyMirrorRuleset \/ ApplyStampRuleset
           \/ CheckBootstrap \/ WriteBootstrapFiles \/ ReviewAndCheckout
           \/ MergeBootstrap \/ PushBootstrap \/ VerifyMirrorProvisioned
           \/ SshRunNewStampRepoFromTarball \/ RenameOrigin \/ AddOrigin
           \/ Decide \/ DeleteDeployKey \/ LookUpRuleset \/ ReplaceBypassActors \/ Die
  BY <1>2, <1>6 DEF ProvisionBareRepoOnServer, Clone, CreateGithubMirrorRepo, WriteMirrorYml,
     ApplyMirrorRuleset, ApplyStampRuleset, CheckBootstrap, WriteBootstrapFiles, ReviewAndCheckout,
     MergeBootstrap, PushBootstrap, VerifyMirrorProvisioned, SshRunNewStampRepoFromTarball,
     RenameOrigin, AddOrigin, Decide, DeleteDeployKey, LookUpRuleset, ReplaceBypassActors, Die,
     Goto, End
<1> QED BY <1>1, <1>4, <1>5, <1>6 DEF ProvisionNext

\* A report is made true or not at all.
LEMMA ReportNext == ProvisionInv /\ [ProvisionNext]_provisionVars => ReportedIsSo'
<1>1. ASSUME report'.kind = "none" PROVE ReportedIsSo'
  BY <1>1 DEF ReportedIsSo
<1>2. ASSUME ProvisionInv, UNCHANGED provisionVars PROVE ReportedIsSo'
  BY <1>2 DEF ProvisionInv, provisionVars, ReportedIsSo, Provisioned, Bootstrapped, Migrated,
     Bypassed, UnderGate, HasYml, Titled
<1> QED BY <1>1, <1>2, SuccessIsSo, OtherReports

\* The inductive invariant holds.
LEMMA ProvisionInvariant == ProvisionSpec => []ProvisionInv
<1>1. ProvisionInv /\ [ProvisionNext]_provisionVars => ProvisionInv'
  BY PlacedNext, CommandNext, ReportNext DEF ProvisionInv
<1> QED BY InitProvisionInv, <1>1, PTL DEF ProvisionSpec

\* What a command reports done is done in all three places (printSuccess, printMigrateSuccess).
THEOREM ReportsAreTrue == ProvisionSpec => []ReportedIsSo
<1>1. ProvisionInv => ReportedIsSo
  BY DEF ProvisionInv
<1> QED BY ProvisionInvariant, <1>1, PTL
=============================================================================
