-------------------------- MODULE PeerReviewProofs --------------------------
(***************************************************************************)
(* The seat table, for any number of users and any TTL: its types, the     *)
(* independence of the two reviewers, the security of a live seat, and     *)
(* the refinement of TwoSeats.                                             *)
(*                                                                         *)
(* Then the listeners around it, for any number of them, of calls that     *)
(* break and of deaths: every step of theirs is one of the table or leaves *)
(* it alone, and whoever works under a seat is backed by the server.       *)
(*                                                                         *)
(* Last the event bus that feeds the listeners, for any number of people,  *)
(* streams, events, restarts and changes of grants.                        *)
(***************************************************************************)
EXTENDS PeerReview, PeerEvents, FiniteSetTheorems, SequenceTheorems, TLAPS

Holders == {seat[s] : s \in {t \in SeatIds : seat[t] # NoUser}}

-----------------------------------------------------------------------------

\* The initial table is empty and well typed.
LEMMA SeatsInitOK == SeatsInit => SeatsTypeOK /\ IndependentReviewers
BY NoUserAssumption, AuthorAssumption, TtlAssumption
DEF SeatsInit, SeatsTypeOK, IndependentReviewers, SeatIds, NoAge, Free

\* No step of the table disturbs its types.
LEMMA SeatsTypeStep == SeatsTypeOK /\ [SeatsNext]_seatVars => SeatsTypeOK'
<1> SUFFICES ASSUME SeatsTypeOK, [SeatsNext]_seatVars PROVE SeatsTypeOK'
  OBVIOUS
<1> USE NoUserAssumption, TtlAssumption DEF SeatsTypeOK, SeatIds, NoAge, Free
<1>1. CASE \E u \in Users : Claim(u)
  BY <1>1 DEF Claim, Take, FirstFree
<1>2. CASE \E u \in Users : Heartbeat(u)
  BY <1>2 DEF Heartbeat
<1>3. CASE \E u \in Users : Release(u)
  BY <1>3 DEF Release
<1>4. CASE Sweep
  BY <1>4 DEF Sweep, ClearSeats
<1>5. CASE Tick
  BY <1>5 DEF Tick
<1>6. CASE UNCHANGED seatVars
  BY <1>6 DEF seatVars
<1> QED
  BY <1>1, <1>2, <1>3, <1>4, <1>5, <1>6 DEF SeatsNext

\* No step gives one person both seats, or the author one.
LEMMA IndependenceStep ==
    SeatsTypeOK /\ IndependentReviewers /\ [SeatsNext]_seatVars => IndependentReviewers'
<1> SUFFICES ASSUME SeatsTypeOK, IndependentReviewers, [SeatsNext]_seatVars
             PROVE  IndependentReviewers'
  OBVIOUS
<1> USE NoUserAssumption, AuthorAssumption DEF IndependentReviewers, SeatsTypeOK, SeatIds, Free
<1>1. CASE \E u \in Users : Claim(u)
  <2>1. PICK u \in Users : Claim(u)
    BY <1>1
  <2>2. u # Author /\ ~Holds(u)
    BY <2>1 DEF Claim, ClaimResult
  <2>3. PICK s \in SeatIds : Free(s) /\ seat' = [seat EXCEPT ![s] = u]
    BY <2>1 DEF Claim, Take, FirstFree
  <2> QED
    BY <2>2, <2>3 DEF Holds
<1>2. CASE \E u \in Users : Heartbeat(u)
  BY <1>2 DEF Heartbeat
<1>3. CASE \E u \in Users : Release(u)
  BY <1>3 DEF Release
<1>4. CASE Sweep
  BY <1>4 DEF Sweep, ClearSeats
<1>5. CASE Tick
  BY <1>5 DEF Tick
<1>6. CASE UNCHANGED seatVars
  BY <1>6 DEF seatVars
<1> QED
  BY <1>1, <1>2, <1>3, <1>4, <1>5, <1>6 DEF SeatsNext

\* The columns of the seat table are well typed in every reachable state, and
\* the holder and the timestamp of a seat are NULL together.
THEOREM SeatsTypeCorrect == SeatsSpec => []SeatsTypeOK
<1>1. SeatsInit => SeatsTypeOK
  BY SeatsInitOK
<1>2. SeatsTypeOK /\ [SeatsNext]_seatVars => SeatsTypeOK'
  BY SeatsTypeStep
<1> QED
  BY <1>1, <1>2, PTL DEF SeatsSpec

\* claimSeatTx never seats one person twice, nor the author of the change.
THEOREM ReviewersAreIndependent == SeatsSpec => []IndependentReviewers
<1>1. SeatsInit => IndependentReviewers
  BY SeatsInitOK
<1>2. SeatsTypeOK /\ IndependentReviewers /\ [SeatsNext]_seatVars => IndependentReviewers'
  BY IndependenceStep
<1> QED
  BY <1>1, <1>2, SeatsTypeCorrect, PTL DEF SeatsSpec

-----------------------------------------------------------------------------

\* A step takes a seat from its holder only by the holder's release or after
\* the TTL.
LEMMA KeptStep ==
    ASSUME SeatsTypeOK, [SeatsNext]_seatVars,
           NEW s \in SeatIds, ~Free(s), seat'[s] # seat[s]
    PROVE  seat'[s] = NoUser /\ (age[s] > Ttl \/ Release(seat[s]))
<1> USE NoUserAssumption DEF SeatsTypeOK, SeatIds, Free
<1>1. CASE \E u \in Users : Claim(u)
  <2>1. PICK u \in Users, t \in SeatIds : Free(t) /\ seat' = [seat EXCEPT ![t] = u]
    BY <1>1 DEF Claim, Take, FirstFree
  <2> QED
    BY <2>1
<1>2. CASE \E u \in Users : Heartbeat(u)
  BY <1>2 DEF Heartbeat
<1>3. CASE \E u \in Users : Release(u)
  <2>1. PICK u \in Users : Release(u)
    BY <1>3
  <2>2. PICK t \in SeatIds : seat[t] = u /\ seat' = [seat EXCEPT ![t] = NoUser]
    BY <2>1 DEF Release
  <2>3. t = s /\ seat[s] = u
    BY <2>2
  <2> QED
    BY <2>1, <2>2, <2>3
<1>4. CASE Sweep
  BY <1>4 DEF Sweep, ClearSeats
<1>5. CASE Tick
  BY <1>5 DEF Tick
<1>6. CASE UNCHANGED seatVars
  BY <1>6 DEF seatVars
<1> QED
  BY <1>1, <1>2, <1>3, <1>4, <1>5, <1>6 DEF SeatsNext

\* A reviewer whose heartbeats arrive within the TTL keeps the seat until it
\* gives it back, whatever the other users and the sweep do.
THEOREM LiveSeatsAreKept == SeatsSpec => LiveSeatIsKept
<1>1. SeatsTypeOK /\ [SeatsNext]_seatVars =>
        [\A s \in SeatIds : ~Free(s) /\ seat'[s] # seat[s] =>
            seat'[s] = NoUser /\ (age[s] > Ttl \/ Release(seat[s]))]_seatVars
  BY KeptStep
<1> QED
  BY <1>1, SeatsTypeCorrect, PTL DEF SeatsSpec, LiveSeatIsKept

-----------------------------------------------------------------------------

\* While a seat is free there are at most one holder.
LEMMA FewHolders ==
    ASSUME SeatsTypeOK, NEW s \in SeatIds, Free(s)
    PROVE  Cardinality(Holders) < 2
<1>1. PICK t \in SeatIds : SeatIds = {s, t}
  BY DEF SeatIds
<1>2. Holders \subseteq {seat[t]}
  BY <1>1 DEF Holders, Free
<1>3. IsFiniteSet({seat[t]}) /\ Cardinality({seat[t]}) = 1
  BY FS_Singleton
<1>4. Cardinality(Holders) \in Nat /\ Cardinality(Holders) <= 1
  BY <1>2, <1>3, FS_Subset, FS_CardinalityType
<1> QED
  BY <1>4

\* Clearing a set of seats removes exactly their holders.
LEMMA ClearedHolders ==
    ASSUME SeatsTypeOK, IndependentReviewers, NEW S \in SUBSET SeatIds,
           \A s \in S : ~Free(s),
           seat' = [s \in SeatIds |-> IF s \in S THEN NoUser ELSE seat[s]]
    PROVE  Holders' = Holders \ {seat[s] : s \in S}
BY DEF Holders, IndependentReviewers, SeatsTypeOK, Free

\* Every step of the table is a step or a stutter of the promise.
LEMMA PromiseStep ==
    SeatsTypeOK /\ IndependentReviewers /\ [SeatsNext]_seatVars
        => [Abstract!PromiseNext]_Holders
<1> SUFFICES ASSUME SeatsTypeOK, IndependentReviewers, [SeatsNext]_seatVars
             PROVE  [Abstract!PromiseNext]_Holders
  OBVIOUS
<1>1. ASSUME NEW u \in Users, Claim(u)
      PROVE  Abstract!Grant(u)
  <2>1. u # Author /\ ~Holds(u)
    BY <1>1 DEF Claim, ClaimResult
  <2>2. PICK s \in SeatIds : Free(s) /\ seat' = [seat EXCEPT ![s] = u]
    BY <1>1 DEF Claim, Take, FirstFree
  <2>3. u \notin Holders
    BY <2>1 DEF Holders, Holds
  <2>4. Cardinality(Holders) < 2
    BY <2>2, FewHolders
  <2>5. Holders' = Holders \cup {u}
    BY <2>2, NoUserAssumption DEF Holders, SeatsTypeOK, Free
  <2> QED
    BY <2>1, <2>3, <2>4, <2>5 DEF Abstract!Grant, Holders, Abstract!Cardinality, Cardinality
<1>2. ASSUME NEW u \in Users, Heartbeat(u)
      PROVE  UNCHANGED Holders
  BY <1>2 DEF Heartbeat, Holders
<1>3. ASSUME NEW u \in Users, Release(u)
      PROVE  Abstract!Leave(u)
  <2>1. PICK s \in SeatIds : seat[s] = u /\ seat' = [seat EXCEPT ![s] = NoUser]
    BY <1>3 DEF Release
  <2>2. u \in Holders
    BY <2>1, NoUserAssumption DEF Holders
  <2>3. Holders' = Holders \ {seat[t] : t \in {s}}
    <3>1. ~Free(s)
      BY <2>1, NoUserAssumption DEF Free
    <3>2. seat' = [t \in SeatIds |-> IF t \in {s} THEN NoUser ELSE seat[t]]
      BY <2>1 DEF SeatsTypeOK
    <3> HIDE DEF Holders
    <3> QED
      BY <3>1, <3>2, ClearedHolders
  <2> QED
    BY <2>1, <2>2, <2>3 DEF Abstract!Leave, Holders
<1>4. ASSUME Sweep
      PROVE  \E S \in SUBSET Holders : Abstract!Expire(S)
  <2> DEFINE Old == {s \in SeatIds : ~Free(s) /\ age[s] > Ttl}
  <2>1. Old # {} /\ seat' = [s \in SeatIds |-> IF s \in Old THEN NoUser ELSE seat[s]]
    BY <1>4 DEF Sweep, ClearSeats
  <2>2. Holders' = Holders \ {seat[s] : s \in Old}
    BY <2>1, ClearedHolders
  <2>3. {seat[s] : s \in Old} \in SUBSET Holders /\ {seat[s] : s \in Old} # {}
    BY <2>1 DEF Holders, Free
  <2> QED
    BY <2>2, <2>3 DEF Abstract!Expire, Holders
<1>5. ASSUME Tick
      PROVE  UNCHANGED Holders
  BY <1>5 DEF Tick, Holders
<1>6. ASSUME UNCHANGED seatVars
      PROVE  UNCHANGED Holders
  BY <1>6 DEF seatVars, Holders
<1>7. CASE SeatsNext
  <2>1. ASSUME NEW u \in Users, Claim(u)
        PROVE  Abstract!PromiseNext
    BY <2>1, <1>1 DEF Abstract!PromiseNext
  <2>2. ASSUME NEW u \in Users, Release(u)
        PROVE  Abstract!PromiseNext
    BY <2>2, <1>3 DEF Abstract!PromiseNext
  <2>3. ASSUME Sweep
        PROVE  Abstract!PromiseNext
    BY <2>3, <1>4 DEF Abstract!PromiseNext, Holders
  <2> QED
    BY <1>7, <2>1, <2>2, <2>3, <1>2, <1>5 DEF SeatsNext
<1> QED
  BY <1>6, <1>7

\* The seat table implements the two-seat promise: at most two reviewers at a
\* time, who enter by a grant and leave by themselves or by expiry.
THEOREM SeatsKeepPromise == SeatsSpec => KeepsPromise
<1>1. SeatsInit => Abstract!PromiseInit
  BY DEF SeatsInit, Abstract!PromiseInit, SeatIds
<1>2. SeatsTypeOK /\ IndependentReviewers /\ [SeatsNext]_seatVars
        => [Abstract!PromiseNext]_Holders
  BY PromiseStep
<1> QED
  BY <1>1, <1>2, SeatsTypeCorrect, ReviewersAreIndependent, PTL
  DEF SeatsSpec, KeepsPromise, Abstract!Promise, Holders

-----------------------------------------------------------------------------
(* The listeners.                                                           *)

\* Whatever a listener does, the table sees one of its own functions or nothing.
LEMMA ListenersUseTheTable == [Next]_vars => [SeatsNext]_seatVars
<1> SUFFICES ASSUME [Next]_vars PROVE [SeatsNext]_seatVars
  OBVIOUS
<1>1. ASSUME NEW l \in Listeners, Step(l) PROVE [SeatsNext]_seatVars
  BY <1>1 DEF Step, Triage, Skip, ClaimGranted, ClaimRejected, RegisterExtra, Fetch, Review, Post,
     PostNot, ReleaseAnswered, ReleaseAtServer, Listeners, SeatsNext
<1>2. ASSUME NEW l \in Listeners, Network(l) PROVE [SeatsNext]_seatVars
  BY <1>2 DEF Network, CallBreaks, LateClaim, LateRelease, LateLost, SendBeat, BeatArrives,
     ReleaseAtServer, Listeners, SeatsNext
<1>3. ASSUME NEW l \in Listeners, Fate(l) PROVE [SeatsNext]_seatVars
  BY <1>3 DEF Fate, Interrupt, GoodbyeHandled, ReleaseAtServer, Exit, Die, Vanish, Restart, Listeners,
     SeatsNext
<1>4. CASE \E filtered \in BOOLEAN : AskReReview(filtered)
  BY <1>4 DEF AskReReview
<1>5. CASE SweepTick \/ ClockTick
  BY <1>5 DEF SweepTick, ClockTick, SeatsNext
<1>6. CASE UNCHANGED vars
  BY <1>6 DEF vars
<1> QED
  BY <1>1, <1>2, <1>3, <1>4, <1>5, <1>6 DEF Next

\* A behaviour of the listeners is one of the seat table.
LEMMA ListenersFollowTheTable == Spec => SeatsSpec
<1>1. Init => SeatsInit
  BY DEF Init
<1> QED
  BY <1>1, ListenersUseTheTable, PTL DEF Spec, SeatsSpec

\* So the promise of the table holds among listeners that crash, repeat
\* themselves and are answered late: two different people, neither the author,
\* whose seats nobody takes while they are alive.
THEOREM ListenersKeepThePromise ==
    Spec => []IndependentReviewers /\ LiveSeatIsKept /\ KeepsPromise
<1> QED
  BY ListenersFollowTheTable, ReviewersAreIndependent, LiveSeatsAreKept, SeatsKeepPromise, PTL

-----------------------------------------------------------------------------

\* Nobody works at first, and the listeners that are gone hold nothing.
LEMMA ListenersInit == Init => TypeOK /\ SeatIsBacked
<1> SUFFICES ASSUME Init PROVE TypeOK /\ SeatIsBacked
  OBVIOUS
<1> USE ListenersAssumption
<1>1. SeatsTypeOK
  BY SeatsInitOK DEF Init
<1>2. inbox \in [Listeners -> Seq(Events)]
  <2>1. <<>> \in Seq(Events) /\ <<"pr-opened">> \in Seq(Events)
    BY DEF Events
  <2> QED
    BY <2>1 DEF Init
<1>3. late \subseteq {"claim", "release"} \X Listeners
  BY DEF Init, Listeners
<1>4. TypeOK
  BY <1>1, <1>2, <1>3 DEF Init, TypeOK
<1>5. SeatIsBacked
  BY DEF Init, SeatIsBacked, Relies
<1> QED
  BY <1>4, <1>5

\* Taking an event out of a queue that holds one.
LEMMA FinishTypes ==
    ASSUME TypeOK, NEW l \in Listeners, inbox[l] # <<>>, Finish(l)
    PROVE  /\ pc' = [pc EXCEPT ![l] = "idle"]
           /\ mode' = [mode EXCEPT ![l] = "none"]
           /\ inbox' \in [Listeners -> Seq(Events)]
           /\ \A k \in Listeners \ {l} : inbox'[k] = inbox[k]
<1>1. Tail(inbox[l]) \in Seq(Events)
  BY HeadTailProperties DEF TypeOK
<1> QED
  BY <1>1 DEF TypeOK, Finish, Goto

\* The listeners' own variables; the table's are SeatsTypeStep's.
LocalTypes ==
    /\ pc \in [Listeners -> {"idle", "claim", "register", "fetch", "review", "post",
                             "release", "off"}]
    /\ mode \in [Listeners -> {"none", "seat", "extra"}]
    /\ inbox \in [Listeners -> Seq(Events)]
    /\ leaving \in [Listeners -> {"no", "calling", "handled"}]
    /\ \A l \in Listeners : pc[l] \notin {"idle", "off"} => inbox[l] # <<>>
    /\ \A l \in Listeners : leaving[l] # "no" => pc[l] \in {"review", "post", "release", "idle"}

\* A listener finishes its event, or moves on with the event still at the head.
LEMMA Finishes ==
    ASSUME TypeOK, NEW l \in Listeners, pc[l] \notin {"idle", "off"}, Finish(l), UNCHANGED leaving
    PROVE  LocalTypes'
<1>1. /\ pc' = [pc EXCEPT ![l] = "idle"]
      /\ mode' = [mode EXCEPT ![l] = "none"]
      /\ inbox' \in [Listeners -> Seq(Events)]
      /\ \A k \in Listeners \ {l} : inbox'[k] = inbox[k]
  BY FinishTypes DEF TypeOK
<1> QED
  BY <1>1 DEF TypeOK, LocalTypes

\* A listener goes on with the event it has at hand.
LEMMA MovesOn ==
    ASSUME TypeOK, NEW l \in Listeners,
           NEW where \in {"claim", "register", "fetch", "review", "post", "release"}, Goto(l, where),
           leaving[l] = "no" \/ where \in {"review", "post", "release"},
           inbox[l] # <<>>, UNCHANGED <<leaving, inbox>>,
           NEW m \in {"none", "seat", "extra"}, mode' = mode \/ mode' = [mode EXCEPT ![l] = m]
    PROVE  LocalTypes'
  BY DEF TypeOK, LocalTypes, Goto

\* A listener gives up its event, through the release of its seat if it has one.
LEMMA GivesUp ==
    ASSUME TypeOK, NEW l \in Listeners, pc[l] \notin {"idle", "off"}, GiveUp(l),
           pc[l] \in {"fetch", "review", "post"}, UNCHANGED leaving
    PROVE  LocalTypes'
<1>1. CASE mode[l] = "seat"
  <2>1. Goto(l, "release") /\ UNCHANGED <<inbox, mode>> /\ inbox[l] # <<>>
    BY <1>1 DEF GiveUp, TypeOK
  <2> QED
    BY <2>1, MovesOn
<1>2. CASE mode[l] # "seat"
  BY <1>2, Finishes DEF GiveUp
<1> QED
  BY <1>1, <1>2

\* Every step of a listener, the network, the clock or the sweep keeps the types.
LEMMA ListenersTypeNext == TypeOK /\ [Next]_vars => TypeOK'
<1> SUFFICES ASSUME TypeOK, [Next]_vars PROVE TypeOK'
  OBVIOUS
<1>0. SeatsTypeOK'
  BY ListenersUseTheTable, SeatsTypeStep DEF TypeOK
<1>1. ASSUME LocalTypes', late' \subseteq {"claim", "release"} \X Listeners,
             beats' \subseteq Listeners, asks' \in 0..MaxAsks, evicted' \subseteq Listeners
      PROVE  TypeOK'
  BY <1>0, <1>1 DEF TypeOK, LocalTypes
<1>2. ASSUME UNCHANGED <<late, beats, asks, evicted>>, LocalTypes' PROVE TypeOK'
  BY <1>1, <1>2 DEF TypeOK
<1>3. LocalTypes
  BY DEF TypeOK, LocalTypes
<1>4. ASSUME UNCHANGED <<pc, mode, leaving, inbox>> PROVE LocalTypes'
  BY <1>3, <1>4 DEF LocalTypes
<1>5. ASSUME NEW l \in Listeners, Triage(l) PROVE TypeOK'
  BY <1>2, <1>5, MovesOn DEF Triage
<1>6. ASSUME NEW l \in Listeners, Skip(l) PROVE TypeOK'
  <2>1. Tail(inbox[l]) \in Seq(Events)
    BY <1>6, HeadTailProperties DEF Skip, TypeOK
  <2>2. LocalTypes'
    BY <1>6, <2>1 DEF Skip, TypeOK, LocalTypes
  <2> QED
    BY <1>2, <1>6, <2>2 DEF Skip
<1>7. ASSUME NEW l \in Listeners, ClaimGranted(l) PROVE TypeOK'
  <2>1. inbox[l] # <<>> /\ leaving[l] = "no"
    BY <1>7 DEF ClaimGranted, TypeOK
  <2>2. LocalTypes'
    BY <1>7, <2>1, MovesOn DEF ClaimGranted
  <2> QED
    BY <1>1, <1>7, <2>2 DEF ClaimGranted, TypeOK
<1>8. ASSUME NEW l \in Listeners, ClaimRejected(l) PROVE TypeOK'
  <2>1. pc[l] = "claim" /\ inbox[l] # <<>> /\ leaving[l] = "no" /\ UNCHANGED leaving
    BY <1>8 DEF ClaimRejected, TypeOK
  <2>2. (Goto(l, "register") /\ UNCHANGED <<inbox, mode>>) \/ Finish(l)
    BY <1>8 DEF ClaimRejected
  <2>3. LocalTypes'
    BY <2>1, <2>2, MovesOn, Finishes
  <2> QED
    BY <1>2, <1>8, <2>3 DEF ClaimRejected
<1>9. ASSUME NEW l \in Listeners, RegisterExtra(l) PROVE TypeOK'
  <2>1. pc[l] = "register" /\ inbox[l] # <<>> /\ leaving[l] = "no" /\ UNCHANGED leaving
    BY <1>9 DEF RegisterExtra, TypeOK
  <2>2. (Goto(l, "fetch") /\ mode' = [mode EXCEPT ![l] = "extra"] /\ UNCHANGED inbox) \/ Finish(l)
    BY <1>9 DEF RegisterExtra
  <2>3. LocalTypes'
    BY <2>1, <2>2, MovesOn, Finishes
  <2> QED
    BY <1>2, <1>9, <2>3 DEF RegisterExtra
<1>10. ASSUME NEW l \in Listeners, Fetch(l) \/ Review(l) \/ Post(l) \/ PostNot(l) PROVE TypeOK'
  <2>1. pc[l] \in {"fetch", "review", "post"} /\ inbox[l] # <<>> /\ UNCHANGED leaving
    BY <1>10 DEF Fetch, Review, Post, PostNot, TypeOK
  <2>2. \/ \E where \in {"review", "post"} : Goto(l, where) /\ UNCHANGED <<inbox, mode>>
        \/ Finish(l) \/ GiveUp(l)
    BY <1>10 DEF Fetch, Review, Post, PostNot
  <2>3. LocalTypes'
    BY <2>1, <2>2, MovesOn, Finishes, GivesUp
  <2> QED
    BY <1>2, <1>10, <2>3 DEF Fetch, Review, Post, PostNot
<1>11. ASSUME NEW l \in Listeners, ReleaseAnswered(l) PROVE TypeOK'
  <2>1. LocalTypes'
    BY <1>11, Finishes DEF ReleaseAnswered
  <2> QED
    BY <1>2, <1>11, <2>1 DEF ReleaseAnswered
<1>12. ASSUME NEW l \in Listeners, CallBreaks(l) PROVE TypeOK'
  <2>1. pc[l] \in {"claim", "release"} /\ Finish(l) /\ UNCHANGED leaving
    BY <1>12 DEF CallBreaks
  <2>2. LocalTypes'
    BY <2>1, Finishes
  <2>3. late' \subseteq {"claim", "release"} \X Listeners
    BY <1>12 DEF CallBreaks, TypeOK
  <2> QED
    BY <1>1, <1>12, <2>2, <2>3 DEF CallBreaks, TypeOK
<1>13. ASSUME NEW l \in Listeners, LateClaim(l) \/ LateRelease(l) \/ LateLost(l) \/ SendBeat(l) \/ BeatArrives(l)
       PROVE  TypeOK'
  <2>1. LocalTypes'
    BY <1>4, <1>13 DEF LateClaim, LateRelease, LateLost, SendBeat, BeatArrives
  <2>2. late' \subseteq late /\ asks' = asks
    BY <1>13 DEF LateClaim, LateRelease, LateLost, SendBeat, BeatArrives
  <2>3. beats' \subseteq Listeners /\ evicted' \subseteq Listeners
    BY <1>13 DEF LateClaim, LateRelease, LateLost, SendBeat, BeatArrives, TypeOK
  <2> QED
    BY <1>1, <2>1, <2>2, <2>3 DEF TypeOK
<1>14. ASSUME NEW l \in Listeners, Interrupt(l) \/ GoodbyeHandled(l) PROVE TypeOK'
  <2>1. LocalTypes'
    BY <1>14 DEF Interrupt, GoodbyeHandled, TypeOK, LocalTypes
  <2> QED
    BY <1>2, <1>14, <2>1 DEF Interrupt, GoodbyeHandled
<1>15. ASSUME NEW l \in Listeners, Exit(l) \/ Die(l) PROVE TypeOK'
  <2>1. Vanish(l)
    BY <1>15 DEF Exit, Die
  <2>2. LocalTypes'
    BY <2>1 DEF Vanish, Goto, TypeOK, LocalTypes
  <2>3. late' \subseteq {"claim", "release"} \X Listeners
    BY <2>1 DEF Vanish, TypeOK
  <2> QED
    BY <1>1, <2>1, <2>2, <2>3 DEF Vanish, TypeOK
<1>16. ASSUME NEW l \in Listeners, Restart(l) PROVE TypeOK'
  <2>1. <<>> \in Seq(Events)
    OBVIOUS
  <2>2. LocalTypes'
    BY <1>16, <2>1 DEF Restart, Goto, TypeOK, LocalTypes
  <2> QED
    BY <1>2, <1>16, <2>2 DEF Restart
<1>17. ASSUME NEW filtered \in BOOLEAN, AskReReview(filtered) PROVE TypeOK'
  <2>1. \A l \in Listeners : /\ Append(inbox[l], "re-review-requested") \in Seq(Events)
                            /\ Append(inbox[l], "re-review-requested") # <<>>
    <3> SUFFICES ASSUME NEW l \in Listeners
                 PROVE  /\ Append(inbox[l], "re-review-requested") \in Seq(Events)
                        /\ Append(inbox[l], "re-review-requested") # <<>>
      OBVIOUS
    <3>1. inbox[l] \in Seq(Events) /\ "re-review-requested" \in Events
      BY DEF TypeOK, Events
    <3> QED
      BY <3>1, AppendProperties
  <2>2. LocalTypes'
    BY <1>17, <2>1 DEF AskReReview, TypeOK, LocalTypes
  <2>3. asks' \in 0..MaxAsks
    BY <1>17, ListenersAssumption DEF AskReReview, TypeOK
  <2> QED
    BY <1>1, <1>17, <2>2, <2>3 DEF AskReReview, TypeOK
<1>18. CASE SweepTick
  <2>1. LocalTypes'
    BY <1>4, <1>18 DEF SweepTick
  <2> QED
    BY <1>1, <1>18, <2>1 DEF SweepTick, TypeOK
<1>19. CASE ClockTick \/ UNCHANGED vars
  BY <1>2, <1>4, <1>19 DEF ClockTick, vars, listenVars
<1> QED
  BY <1>5, <1>6, <1>7, <1>8, <1>9, <1>10, <1>11, <1>12, <1>13, <1>14, <1>15,
     <1>16, <1>17, <1>18, <1>19 DEF Next, Step, Network, Fate

\* Type correctness with the listeners: in particular no listener is in the
\* middle of an event that its queue no longer holds.
THEOREM ListenersTypeCorrect == Spec => []TypeOK
<1>1. Init => TypeOK
  BY ListenersInit
<1> QED
  BY <1>1, ListenersTypeNext, PTL DEF Spec

-----------------------------------------------------------------------------

\* A claim of u fills a free seat: everybody else keeps theirs.
LEMMA ClaimEvictsNobody ==
    ASSUME SeatsTypeOK, NEW u \in Users, Claim(u)
    PROVE  Holds(u)' /\ \A k \in Users : Holds(k) => Holds(k)'
<1>1. PICK s \in SeatIds : seat[s] = NoUser /\ seat' = [seat EXCEPT ![s] = u]
  BY DEF Claim, Take, FirstFree, Free
<1> QED
  BY <1>1, NoUserAssumption DEF Holds, SeatsTypeOK

\* Releasing empties a seat of u's own, or nothing.
LEMMA ReleaseEvictsNobodyElse ==
    ASSUME SeatsTypeOK, NEW u \in Users, ReleaseAtServer(u)
    PROVE  \A k \in Users \ {u} : Holds(k) => Holds(k)'
<1>1. CASE UNCHANGED seatVars
  BY <1>1 DEF seatVars, Holds
<1>2. CASE Release(u)
  <2>1. PICK s \in SeatIds : seat[s] = u /\ seat' = [seat EXCEPT ![s] = NoUser]
    BY <1>2 DEF Release
  <2> QED
    BY <2>1 DEF Holds, SeatsTypeOK
<1> QED
  BY <1>1, <1>2 DEF ReleaseAtServer

\* The steps of l that cannot make it rely on a seat it did not rely on, and
\* take nobody else's.
LEMMA StaysBacked ==
    ASSUME SeatIsBacked, NEW l \in Listeners, evicted \subseteq evicted',
           \A k \in Listeners \ {l} : Relies(k)' => Relies(k),
           \A k \in Listeners \ {l} : Holds(k) => Holds(k)',
           \A k \in Listeners \ {l} : leaving'[k] = "handled" <=> leaving[k] = "handled",
           Relies(l)' => leaving'[l] = "handled"
    PROVE  SeatIsBacked'
  BY DEF SeatIsBacked

\* Every step keeps the work that is under way backed by the server.
LEMMA BackedNext == TypeOK /\ SeatIsBacked /\ [Next]_vars => SeatIsBacked'
<1> SUFFICES ASSUME TypeOK, SeatIsBacked, [Next]_vars PROVE SeatIsBacked'
  OBVIOUS
<1> USE DEF TypeOK
<1>0. Listeners \subseteq Users
  BY DEF Listeners
\* Steps that leave the table alone.
<1>1. ASSUME UNCHANGED <<seatVars, evicted>>,
             \A k \in Listeners : Relies(k)' => Relies(k) /\ (leaving[k] = "handled" => leaving'[k] = "handled")
      PROVE  SeatIsBacked'
  BY <1>1 DEF SeatIsBacked, Holds, seatVars
<1>2. ASSUME NEW l \in Listeners, Finish(l)
      PROVE  \A k \in Listeners : Relies(k)' => Relies(k)
  BY <1>2 DEF Finish, Goto, Relies
<1>3. ASSUME NEW l \in Listeners, GiveUp(l)
      PROVE  \A k \in Listeners : Relies(k)' => Relies(k)
  <2>1. CASE mode[l] = "seat"
    BY <1>3, <2>1 DEF GiveUp, Goto, Relies
  <2> QED
    BY <1>2, <1>3, <2>1 DEF GiveUp
<1>4. ASSUME NEW l \in Listeners, NEW where \in {"register", "release", "off"},
             Goto(l, where), UNCHANGED mode
      PROVE  \A k \in Listeners : Relies(k)' => Relies(k)
  BY <1>4 DEF Goto, Relies
<1>5. ASSUME NEW l \in Listeners, Triage(l) \/ Skip(l) \/ Restart(l) PROVE SeatIsBacked'
  <2>1. \A k \in Listeners : Relies(k)' => Relies(k)
    BY <1>5 DEF Triage, Skip, Restart, Goto, Relies
  <2> QED
    BY <1>1, <1>5, <2>1 DEF Triage, Skip, Restart
<1>6. ASSUME NEW l \in Listeners, ClaimGranted(l) PROVE SeatIsBacked'
  <2>1. Holds(l)' /\ \A k \in Users : Holds(k) => Holds(k)'
    BY <1>0, <1>6, ClaimEvictsNobody DEF ClaimGranted
  <2>2. \A k \in Listeners \ {l} : Relies(k)' => Relies(k)
    BY <1>6 DEF ClaimGranted, Goto, Relies
  <2>3. evicted' = evicted \ {l} /\ leaving' = leaving
    BY <1>6 DEF ClaimGranted
  <2> QED
    BY <1>0, <2>1, <2>2, <2>3 DEF SeatIsBacked
<1>7. ASSUME NEW l \in Listeners, ClaimRejected(l) PROVE SeatIsBacked'
  <2>1. \A k \in Listeners : Relies(k)' => Relies(k)
    BY <1>2, <1>4, <1>7 DEF ClaimRejected
  <2> QED
    BY <1>1, <1>7, <2>1 DEF ClaimRejected
<1>8. ASSUME NEW l \in Listeners, RegisterExtra(l) PROVE SeatIsBacked'
  <2>1. CASE Goto(l, "fetch") /\ mode' = [mode EXCEPT ![l] = "extra"]
    <3>1. \A k \in Listeners : Relies(k)' => Relies(k)
      BY <2>1 DEF Goto, Relies
    <3> QED
      BY <1>1, <1>8, <3>1 DEF RegisterExtra
  <2>2. CASE Finish(l)
    BY <1>1, <1>2, <1>8, <2>2 DEF RegisterExtra
  <2> QED
    BY <1>8, <2>1, <2>2 DEF RegisterExtra
<1>9. ASSUME NEW l \in Listeners, Fetch(l) \/ Review(l) \/ Post(l) \/ PostNot(l) PROVE SeatIsBacked'
  <2>1. ASSUME NEW where \in {"review", "post"}, pc[l] \in {"fetch", "review"}, Goto(l, where), UNCHANGED mode
        PROVE  \A k \in Listeners : Relies(k)' => Relies(k)
    BY <2>1 DEF Goto, Relies
  <2>2. \/ \E where \in {"review", "post"} :
              pc[l] \in {"fetch", "review"} /\ Goto(l, where) /\ UNCHANGED mode
        \/ Finish(l) \/ GiveUp(l)
    BY <1>9 DEF Fetch, Review, Post, PostNot
  <2>3. \A k \in Listeners : Relies(k)' => Relies(k)
    BY <1>2, <1>3, <2>1, <2>2
  <2> QED
    BY <1>1, <1>9, <2>3 DEF Fetch, Review, Post, PostNot
<1>10. ASSUME NEW l \in Listeners, ReleaseAnswered(l) PROVE SeatIsBacked'
  <2>1. \A k \in Listeners \ {l} : Holds(k) => Holds(k)'
    BY <1>0, <1>10, ReleaseEvictsNobodyElse DEF ReleaseAnswered
  <2>2. \A k \in Listeners : Relies(k)' => Relies(k)
    BY <1>2, <1>4, <1>10 DEF ReleaseAnswered
  <2>3. ~Relies(l)'
    BY <1>10 DEF ReleaseAnswered, Finish, Goto, Relies
  <2> QED
    BY <1>10, <2>1, <2>2, <2>3, StaysBacked DEF ReleaseAnswered
<1>11. ASSUME NEW l \in Listeners, CallBreaks(l) PROVE SeatIsBacked'
  BY <1>1, <1>2, <1>11 DEF CallBreaks
<1>12. ASSUME NEW l \in Listeners, LateClaim(l) PROVE SeatIsBacked'
  <2>1. \A k \in Users : Holds(k) => Holds(k)'
    <3>1. CASE Claim(l)
      BY <1>0, <3>1, ClaimEvictsNobody
    <3>2. CASE UNCHANGED seatVars
      BY <3>2 DEF seatVars, Holds
    <3> QED
      BY <1>12, <3>1, <3>2 DEF LateClaim
  <2> QED
    BY <1>0, <1>12, <2>1 DEF LateClaim, SeatIsBacked, Relies
<1>13. ASSUME NEW l \in Listeners, LateRelease(l) PROVE SeatIsBacked'
  <2>1. \A k \in Listeners \ {l} : Holds(k) => Holds(k)'
    BY <1>0, <1>13, ReleaseEvictsNobodyElse DEF LateRelease
  <2>2. Relies(l) => l \in evicted'
    BY <1>13 DEF LateRelease
  <2> QED
    BY <1>13, <2>1, <2>2 DEF LateRelease, SeatIsBacked, Relies
<1>14. ASSUME NEW l \in Listeners, LateLost(l) \/ SendBeat(l) PROVE SeatIsBacked'
  BY <1>1, <1>14 DEF LateLost, SendBeat, Relies
<1>15. ASSUME NEW l \in Listeners, BeatArrives(l) PROVE SeatIsBacked'
  <2>1. UNCHANGED seat
    BY <1>15 DEF BeatArrives, Heartbeat, seatVars
  <2>2. UNCHANGED <<pc, mode, leaving, evicted>>
    BY <1>15 DEF BeatArrives
  <2> QED
    BY <2>1, <2>2 DEF SeatIsBacked, Relies, Holds
<1>16. ASSUME NEW l \in Listeners, Interrupt(l) \/ Exit(l) \/ Die(l) PROVE SeatIsBacked'
  <2>1. CASE Interrupt(l)
    BY <1>1, <2>1 DEF Interrupt, Relies
  <2>2. CASE Exit(l) \/ Die(l)
    BY <1>1, <2>2 DEF Exit, Die, Vanish, Goto, Relies
  <2> QED
    BY <1>16, <2>1, <2>2
<1>21. ASSUME NEW l \in Listeners, GoodbyeHandled(l) PROVE SeatIsBacked'
  <2>1. \A k \in Listeners \ {l} : Holds(k) => Holds(k)'
    BY <1>0, <1>21, ReleaseEvictsNobodyElse DEF GoodbyeHandled
  <2> QED
    BY <1>21, <2>1, StaysBacked DEF GoodbyeHandled, Relies
<1>17. CASE \E filtered \in BOOLEAN : AskReReview(filtered)
  BY <1>1, <1>17 DEF AskReReview, Relies
<1>18. CASE SweepTick
  <2>1. ASSUME NEW k \in Listeners, Holds(k), ~Silent(k) PROVE Holds(k)'
    BY <1>18, <2>1 DEF SweepTick, Sweep, ClearSeats, Holds, Silent, SeatsTypeOK
  <2> QED
    BY <1>18, <2>1 DEF SweepTick, SeatIsBacked, Relies
<1>19. CASE ClockTick
  BY <1>19 DEF ClockTick, Tick, listenVars, SeatIsBacked, Relies, Holds
<1>20. CASE UNCHANGED vars
  BY <1>20 DEF vars, seatVars, listenVars, SeatIsBacked, Relies, Holds
<1> QED
  BY <1>5, <1>6, <1>7, <1>8, <1>9, <1>10, <1>11, <1>12, <1>13, <1>14, <1>15,
     <1>16, <1>17, <1>18, <1>19, <1>20, <1>21 DEF Next, Step, Network, Fate

\* prListen.ts works under a seat only while the server has it for this
\* listener, unless the TTL ran out, an old release of its own came in late, or
\* its shutdown has had the seat released and the process is about to exit: no
\* lost answer, other reviewer's call or restart takes the seat from under it.
THEOREM WorkIsBacked == Spec => []SeatIsBacked
<1>1. Init => TypeOK /\ SeatIsBacked
  BY ListenersInit
<1>2. TypeOK /\ SeatIsBacked /\ [Next]_vars => (TypeOK /\ SeatIsBacked)'
  BY ListenersTypeNext, BackedNext
<1> QED
  BY <1>1, <1>2, PTL DEF Spec

-----------------------------------------------------------------------------
(* The event bus *)

\* The rows of the tables, and what a tick keeps of a subscriber.
Stamps == [user : KeyHolders, id : 1..MaxRow]
EventType == [id : Nat, patch : Patches, kind : {"pr-opened", "re-review-requested"},
              by : KeyHolders, at : Nat]
PatchType == [by : KeyHolders, at : Nat, seats : SUBSET KeyHolders]
VerbType == {Idle} \cup [at : {"insert", "append"}, patch : Patches, now : Nat]
CallerType == [found : BOOLEAN, op : BOOLEAN]

\* The tables of the database and the registries of the server.
Typed ==
    /\ row \in [KeyHolders -> [id : 1..MaxRow, in : BOOLEAN, op : BOOLEAN]]
    /\ grants \in [KeyHolders -> SUBSET Repos]
    /\ DOMAIN patches \subseteq Patches /\ \A p \in DOMAIN patches : patches[p] \in PatchType
    /\ events \subseteq EventType /\ lastId \in Nat /\ now \in Nat
    /\ verb \in [Callers -> VerbType]
    /\ streams \in Seq(Stamps)
    /\ sse \in [KeyHolders -> Nat] /\ listener \in [KeyHolders -> Nat]

\* The poll tick under way.
TickTyped ==
    /\ tick = [on |-> tick.on, rows |-> tick.rows, todo |-> tick.todo, who |-> tick.who]
    /\ tick.on \in BOOLEAN /\ tick.rows \subseteq EventType /\ tick.todo \subseteq KeyHolders
    /\ DOMAIN tick.who \subseteq KeyHolders
    /\ \A u \in DOMAIN tick.who : tick.who[u] \in CallerType

\* A verb lasts less than a tick of the clock, and between its two statements the
\* patch is there, its own, and not announced.
Announced ==
    /\ EventsBelongToTheirPatch
    /\ \A c \in Callers : verb[c].at \in {"insert", "append"} => verb[c].now = now
    /\ \A c \in Callers : verb[c].at = "append" =>
          /\ verb[c].patch \in DOMAIN patches
          /\ patches[verb[c].patch].by = c /\ patches[verb[c].patch].at = now
          /\ \A e \in events : e.patch = verb[c].patch => e.kind # "pr-opened"

\* Of the streams q, the last that user u opened.
IsNewest(q, u, s) ==
    /\ s \in DOMAIN q /\ q[s].user = u
    /\ \A t \in DOMAIN q : q[t].user = u => t <= s

\* Row ids are never used again, so a stream whose user is gone stays so.
Served ==
    /\ listener = sse
    /\ open \subseteq DOMAIN streams
    /\ \A s \in DOMAIN streams : streams[s].id <= row[streams[s].user].id
    /\ \A s \in DOMAIN streams : \E t \in DOMAIN streams : IsNewest(streams, streams[s].user, t)
    /\ \A u \in KeyHolders : sse[u] # 0 => IsNewest(streams, u, sse[u])
    /\ \A u \in KeyHolders, s \in open : IsNewest(streams, u, s) =>
          sse[u] = s \/ (sse[u] = 0 /\ ~Enrolled(u, streams[s].id))

\* What a tick remembers of its subscribers was so, and lawful then.
TickRemembers ==
    tick.on =>
        /\ EntitledNow \subseteq lawful
        /\ \A u \in tick.todo : sse[u] # 0
        /\ \A u \in DOMAIN tick.who :
              /\ ~tick.who[u].found => sse[u] = 0
              /\ tick.who[u].found /\ tick.who[u].op /\ sse[u] # 0 =>
                    \A r \in Repos : <<u, streams[sse[u]].id, r>> \in lawful

\* The inductive invariant.
PeerEventsInv == Typed /\ TickTyped /\ Announced /\ Served /\ TickRemembers

-----------------------------------------------------------------------------
(* Types *)

\* A verb is idle, or between two statements with a patch and the time it began.
LEMMA VerbIs ==
    ASSUME Typed, NEW c \in Callers
    PROVE  /\ verb[c] \in VerbType
           /\ verb[c] = Idle \/ verb[c].at \in {"insert", "append"}
           /\ verb[c] = Idle => verb[c].at = "idle"
           /\ verb[c].at \in {"insert", "append"} =>
                 /\ verb[c].patch \in Patches /\ verb[c].now \in Nat
                 /\ verb[c] = [at |-> verb[c].at, patch |-> verb[c].patch, now |-> verb[c].now]
BY DEF Typed, VerbType, Idle

\* A tick that is not under way has no rows, no clients and no memory.
LEMMA EmptyFacts == DOMAIN Empty = {} /\ DOMAIN NoTick.who = {} /\ ~NoTick.on /\ NoTick.rows = {}
                    /\ NoTick.todo = {}
BY DEF NoTick, Empty

\* Put changes a function at one point.
LEMMA PutFacts ==
    ASSUME NEW f, NEW x, NEW v
    PROVE  /\ DOMAIN Put(f, x, v) = DOMAIN f \cup {x}
           /\ Put(f, x, v)[x] = v
           /\ \A y \in DOMAIN f \ {x} : Put(f, x, v)[y] = f[y]
BY DEF Put

\* Some people are enrolled at first, and nothing has happened.
LEMMA InitTyped == EventsInit => Typed /\ TickTyped
<1> SUFFICES ASSUME EventsInit PROVE Typed /\ TickTyped
  OBVIOUS
<1>1. row \in [KeyHolders -> [id : 1..MaxRow, in : BOOLEAN, op : BOOLEAN]]
  <2>1. 1 \in 1..MaxRow
    BY PeerEventsAssumption
  <2> QED BY <2>1 DEF EventsInit
<1>2. grants \in [KeyHolders -> SUBSET Repos]
  <2>1. PICK removed \in SUBSET Administered :
          grants = [u \in KeyHolders |-> IF u \in removed THEN {} ELSE Grants0[u]]
    BY DEF EventsInit
  <2>2. \A u \in KeyHolders : Grants0[u] \in SUBSET Repos
    BY PeerEventsAssumption
  <2> QED BY <2>1, <2>2
<1>3. DOMAIN patches = {} /\ events = {} /\ lastId = 0 /\ now = 0 /\ streams = <<>>
  BY EmptyFacts DEF EventsInit
<1>4. verb \in [Callers -> VerbType]
  BY DEF EventsInit, VerbType
<1>5. sse \in [KeyHolders -> Nat] /\ listener \in [KeyHolders -> Nat]
  BY DEF EventsInit, Nobody
<1>6. TickTyped
  BY EmptyFacts DEF EventsInit, TickTyped, NoTick
<1>7. streams \in Seq(Stamps)
  BY <1>3
<1> QED BY <1>1, <1>2, <1>3, <1>4, <1>5, <1>6, <1>7 DEF Typed

\* Another process changes a row and its grants.
LEMMA AdministerTyped == Typed /\ Administer => Typed'
<1> SUFFICES ASSUME Typed, Administer PROVE Typed'
  OBVIOUS
<1>1. UNCHANGED <<patches, events, lastId, now, verb, streams, sse, listener>>
  BY DEF Administer, tableVars, socketVars
<1>2. PICK u \in KeyHolders :
        \/ /\ row' = [row EXCEPT ![u].in = FALSE, ![u].op = FALSE]
           /\ grants' = [grants EXCEPT ![u] = {}]
        \/ /\ row[u].id < MaxRow
           /\ row' = [row EXCEPT ![u] = [id |-> row[u].id + 1, in |-> TRUE, op |-> FALSE]]
           /\ UNCHANGED grants
        \/ /\ row' = [row EXCEPT ![u].op = FALSE]
           /\ UNCHANGED grants
        \/ /\ \E r \in Repos : grants' = [grants EXCEPT ![u] = (@ \cup {r}) \ (@ \cap {r})]
           /\ UNCHANGED row
  <2>1. Administered \subseteq KeyHolders
    BY PeerEventsAssumption
  <2> QED BY <2>1 DEF Administer, Typed
<1>3. grants' \in [KeyHolders -> SUBSET Repos]
  <2>1. grants \in [KeyHolders -> SUBSET Repos]
    BY DEF Typed
  <2>2. grants' = grants \/ \E gs \in SUBSET Repos : grants' = [grants EXCEPT ![u] = gs]
    <3>1. ASSUME NEW r \in Repos, grants' = [grants EXCEPT ![u] = (@ \cup {r}) \ (@ \cap {r})]
          PROVE  \E gs \in SUBSET Repos : grants' = [grants EXCEPT ![u] = gs]
      <4>1. (grants[u] \cup {r}) \ (grants[u] \cap {r}) \in SUBSET Repos
        BY <2>1
      <4> QED BY <3>1, <4>1
    <3>2. {} \in SUBSET Repos
      OBVIOUS
    <3> QED BY <1>2, <3>1, <3>2
  <2> QED BY <2>1, <2>2
<1>4. row[u] \in [id : 1..MaxRow, in : BOOLEAN, op : BOOLEAN]
  BY DEF Typed
<1>5. row' \in [KeyHolders -> [id : 1..MaxRow, in : BOOLEAN, op : BOOLEAN]]
  <2>1. CASE row' = [row EXCEPT ![u].in = FALSE, ![u].op = FALSE]
    BY <1>4, <2>1 DEF Typed
  <2>2. CASE /\ row[u].id < MaxRow
             /\ row' = [row EXCEPT ![u] = [id |-> row[u].id + 1, in |-> TRUE, op |-> FALSE]]
    <3>1. row[u].id + 1 \in 1..MaxRow
      BY <1>4, <2>2, PeerEventsAssumption
    <3> QED BY <2>2, <3>1 DEF Typed
  <2>3. CASE row' = [row EXCEPT ![u].op = FALSE]
    BY <1>4, <2>3 DEF Typed
  <2>4. CASE UNCHANGED row
    BY <2>4 DEF Typed
  <2> QED BY <1>2, <2>1, <2>2, <2>3, <2>4
<1> QED BY <1>1, <1>3, <1>5 DEF Typed

\* appendEvent
LEMMA LogEventTyped ==
    ASSUME Typed, NEW p \in Patches, NEW k \in {"pr-opened", "re-review-requested"},
           NEW by \in KeyHolders, NEW at \in Nat, LogEvent(p, k, by, at)
    PROVE  events' \subseteq EventType /\ lastId' \in Nat
<1>1. [id |-> lastId + 1, patch |-> p, kind |-> k, by |-> by, at |-> at] \in EventType
  BY DEF Typed, EventType
<1> QED BY <1>1 DEF LogEvent, Typed

\* A patch that is registered, or whose seats change.
LEMMA PatchesTyped ==
    ASSUME Typed, NEW p \in Patches, NEW r \in PatchType,
           patches' = Put(patches, p, r) \/ patches' = [patches EXCEPT ![p] = r]
    PROVE  DOMAIN patches' \subseteq Patches /\ \A q \in DOMAIN patches' : patches'[q] \in PatchType
BY DEF Typed, Put

\* One verb moves.
LEMMA VerbTyped ==
    ASSUME Typed, NEW c \in Callers, NEW x \in VerbType, verb' = [verb EXCEPT ![c] = x]
    PROVE  verb' \in [Callers -> VerbType]
BY DEF Typed

\* The statements of pr-opened, a claim of a seat, the clock and the sweep.
LEMMA TablesTyped ==
    ASSUME Typed,
           \/ \E c \in Callers : (\E p \in Patches : Check(c, p)) \/ Insert(c) \/ AppendEvent(c) \/ VerbDies(c)
           \/ \E u \in Subscribers, p \in Patches : ClaimSeat(u, p)
           \/ TimePasses \/ SweepRetention
    PROVE  Typed'
<1>0. UNCHANGED <<row, grants, streams, sse, listener>>
  BY DEF Check, Insert, AppendEvent, VerbDies, ClaimSeat, TimePasses, SweepRetention, verbUnchanged,
     adminVars, socketVars
<1>1. Idle \in VerbType
  BY DEF VerbType
<1>2. ASSUME NEW c \in Callers, NEW p \in Patches, Check(c, p) PROVE Typed'
  <2>1. [at |-> "insert", patch |-> p, now |-> now] \in VerbType
    BY DEF Typed, VerbType
  <2>2. /\ verb' = [verb EXCEPT ![c] = [at |-> "insert", patch |-> p, now |-> now]]
        /\ UNCHANGED <<patches, events, lastId, now>>
    BY <1>2 DEF Check, tableVars, verbUnchanged
  <2>3. verb' \in [Callers -> VerbType]
    BY <2>1, <2>2, VerbTyped
  <2> QED BY <1>0, <2>2, <2>3 DEF Typed
<1>3. ASSUME NEW c \in Callers, Insert(c) PROVE Typed'
  <2>0. /\ verb[c].patch \in Patches /\ verb[c].now \in Nat /\ c \in KeyHolders
        /\ verb[c] = [at |-> "insert", patch |-> verb[c].patch, now |-> verb[c].now]
        /\ UNCHANGED <<events, lastId, now>>
    BY <1>3, VerbIs, PeerEventsAssumption DEF Insert, verbUnchanged
  <2>1. CASE verb' = [verb EXCEPT ![c] = Idle] /\ UNCHANGED patches
    <3>1. verb' \in [Callers -> VerbType]
      BY <1>1, <2>1, VerbTyped
    <3> QED BY <1>0, <2>0, <2>1, <3>1 DEF Typed
  <2>2. CASE /\ patches' = Put(patches, verb[c].patch, [by |-> c, at |-> verb[c].now, seats |-> {}])
             /\ verb' = [verb EXCEPT ![c].at = "append"]
    <3>1. [by |-> c, at |-> verb[c].now, seats |-> {}] \in PatchType
      BY <2>0 DEF PatchType
    <3>2. DOMAIN patches' \subseteq Patches /\ \A q \in DOMAIN patches' : patches'[q] \in PatchType
      BY <2>0, <2>2, <3>1, PatchesTyped
    <3>3. PICK x : x = [at |-> "append", patch |-> verb[c].patch, now |-> verb[c].now]
      OBVIOUS
    <3>4. x \in VerbType
      BY <2>0, <3>3 DEF VerbType
    <3>5. verb' = [verb EXCEPT ![c] = x]
      <4>1. [verb[c] EXCEPT !.at = "append"] = x
        BY <2>0, <3>3
      <4> QED BY <2>2, <4>1 DEF Typed
    <3>6. verb' \in [Callers -> VerbType]
      BY <3>4, <3>5, VerbTyped
    <3> QED BY <1>0, <2>0, <3>2, <3>6 DEF Typed
  <2> QED BY <1>3, <2>1, <2>2 DEF Insert
<1>4. ASSUME NEW c \in Callers, AppendEvent(c) PROVE Typed'
  <2>1. verb[c].patch \in Patches /\ verb[c].now \in Nat /\ c \in KeyHolders
    BY <1>4, VerbIs, PeerEventsAssumption DEF AppendEvent
  <2>2. events' \subseteq EventType /\ lastId' \in Nat
    BY <1>4, <2>1, LogEventTyped DEF AppendEvent
  <2>3. verb' \in [Callers -> VerbType] /\ UNCHANGED <<patches, now>>
    BY <1>1, <1>4, VerbTyped DEF AppendEvent, verbUnchanged
  <2> QED BY <1>0, <2>2, <2>3 DEF Typed
<1>5. ASSUME NEW c \in Callers, VerbDies(c) PROVE Typed'
  <2>1. verb' \in [Callers -> VerbType] /\ UNCHANGED <<patches, events, lastId, now>>
    BY <1>1, <1>5, VerbTyped DEF VerbDies, verbUnchanged, tableVars
  <2> QED BY <1>0, <2>1 DEF Typed
<1>6. ASSUME NEW u \in Subscribers, NEW p \in Patches, ClaimSeat(u, p) PROVE Typed'
  <2>1. p \in DOMAIN patches /\ patches' = [patches EXCEPT ![p].seats = @ \cup {u}] /\ u \in KeyHolders
    BY <1>6, PeerEventsAssumption DEF ClaimSeat
  <2>2. [patches[p] EXCEPT !.seats = @ \cup {u}] \in PatchType
    BY <2>1 DEF Typed, PatchType
  <2>3. PICK r : r = [patches[p] EXCEPT !.seats = @ \cup {u}]
    OBVIOUS
  <2>4. patches' = [patches EXCEPT ![p] = r]
    BY <2>1, <2>3
  <2>5. DOMAIN patches' \subseteq Patches /\ \A q \in DOMAIN patches' : patches'[q] \in PatchType
    BY <2>2, <2>3, <2>4, PatchesTyped
  <2>6. UNCHANGED <<events, lastId, verb, now>>
    BY <1>6 DEF ClaimSeat, verbUnchanged
  <2> QED BY <1>0, <2>5, <2>6 DEF Typed
<1>7. CASE TimePasses
  <2>1. now' \in Nat /\ UNCHANGED <<patches, events, lastId, verb>>
    BY <1>7 DEF TimePasses, Typed, tableVars
  <2> QED BY <1>0, <2>1 DEF Typed
<1>8. CASE SweepRetention
  <2>1. /\ events' \subseteq events /\ DOMAIN patches' \subseteq DOMAIN patches
        /\ \A p \in DOMAIN patches' : patches'[p] = patches[p]
        /\ UNCHANGED <<lastId, verb, now>>
    BY <1>8 DEF SweepRetention, verbUnchanged
  <2> QED BY <1>0, <2>1 DEF Typed
<1> QED BY <1>2, <1>3, <1>4, <1>5, <1>6, <1>7, <1>8

\* A registry from which a stream is taken.
LEMMA ZeroAt ==
    ASSUME NEW f \in [KeyHolders -> Nat], NEW x
    PROVE  [f EXCEPT ![x] = 0] \in [KeyHolders -> Nat]
OBVIOUS

\* The streams of the server.
LEMMA StreamsTyped ==
    ASSUME Typed, Boot \/ Stop \/ (\E u \in Subscribers : Connect(u)) \/ \E s \in open : Closed(s)
    PROVE  Typed'
<1>0. UNCHANGED <<row, grants, patches, events, lastId, now, verb>>
  BY DEF Boot, Stop, Connect, Closed, serverUnchanged, adminVars, tableVars
<1>1. CASE Boot
  BY <1>0, <1>1 DEF Boot, Typed, socketVars
<1>2. CASE Stop
  BY <1>0, <1>2 DEF Stop, Typed, Nobody
<1>3. ASSUME NEW u \in Subscribers, Connect(u) PROVE Typed'
  <2>1. [user |-> u, id |-> row[u].id] \in Stamps
    BY PeerEventsAssumption DEF Typed, Stamps
  <2>2. streams' = Append(streams, [user |-> u, id |-> row[u].id])
    BY <1>3 DEF Connect
  <2>3. streams' \in Seq(Stamps)
    BY <2>1, <2>2 DEF Typed
  <2>4. Len(streams') \in Nat
    BY <2>3
  <2>5. sse' \in [KeyHolders -> Nat] /\ listener' \in [KeyHolders -> Nat]
    BY <1>3, <2>4 DEF Connect, Typed
  <2> QED BY <1>0, <2>3, <2>5 DEF Typed
<1>4. ASSUME NEW s \in open, Closed(s) PROVE Typed'
  <2>1. \/ UNCHANGED <<sse, listener>>
        \/ /\ sse' = [sse EXCEPT ![streams[s].user] = 0]
           /\ listener' = [listener EXCEPT ![streams[s].user] = 0]
    BY <1>4 DEF Closed
  <2>2. sse' \in [KeyHolders -> Nat] /\ listener' \in [KeyHolders -> Nat]
    <3>1. sse \in [KeyHolders -> Nat] /\ listener \in [KeyHolders -> Nat]
      BY DEF Typed
    <3> QED BY <2>1, <3>1, ZeroAt
  <2>3. UNCHANGED streams
    BY <1>4 DEF Closed
  <2> QED BY <1>0, <2>2, <2>3 DEF Typed
<1> QED BY <1>1, <1>2, <1>3, <1>4

\* The poll takes streams out of the registries and puts none in.
LEMMA PollTyped ==
    ASSUME Typed, Poll \/ PollFails
    PROVE  Typed'
<1>0. UNCHANGED <<row, grants, patches, events, lastId, now, verb, streams>>
  BY DEF Poll, PollStart, PollClient, PollRow, PollFails, tickUnchanged, adminVars, tableVars
<1>1. sse' \in [KeyHolders -> Nat] /\ listener' \in [KeyHolders -> Nat]
  <2>1. CASE UNCHANGED <<sse, listener>>
    BY <2>1 DEF Typed
  <2>2. ASSUME NEW u \in KeyHolders, PollClient(u)
        PROVE  sse' \in [KeyHolders -> Nat] /\ listener' \in [KeyHolders -> Nat]
    <3>1. \/ UNCHANGED <<sse, listener>>
          \/ /\ sse' = [sse EXCEPT ![u] = 0]
             /\ listener' = [listener EXCEPT ![u] = 0]
      BY <2>2 DEF PollClient
    <3>2. sse \in [KeyHolders -> Nat] /\ listener \in [KeyHolders -> Nat]
      BY DEF Typed
    <3> QED BY <3>1, <3>2, ZeroAt
  <2> QED BY <2>1, <2>2 DEF Poll, PollStart, PollRow, PollFails
<1> QED BY <1>0, <1>1 DEF Typed

\* A re-review request logs an event.
LEMMA ReReviewTyped ==
    ASSUME Typed,
           \E u \in Callers, p \in Patches, names \in Filters : ReReviewRequest(u, p, names)
    PROVE  Typed'
<1>1. PICK u \in Callers, p \in Patches, names \in Filters : ReReviewRequest(u, p, names)
  OBVIOUS
<1>2. u \in KeyHolders /\ now \in Nat
  BY PeerEventsAssumption DEF Typed
<1>3. events' \subseteq EventType /\ lastId' \in Nat
  BY <1>1, <1>2, LogEventTyped DEF ReReviewRequest
<1>4. UNCHANGED <<row, grants, patches, now, verb, streams, sse, listener>>
  BY <1>1 DEF ReReviewRequest, adminVars, socketVars
<1> QED BY <1>3, <1>4 DEF Typed

\* Every step keeps the types of tables and registries.
LEMMA TypedNext == Typed /\ [EventsNext]_eventVars => Typed'
<1> SUFFICES ASSUME Typed, [EventsNext]_eventVars PROVE Typed'
  OBVIOUS
<1>1. CASE UNCHANGED eventVars
  BY <1>1 DEF eventVars, adminVars, tableVars, socketVars, Typed
<1>2. CASE EventsNext
  BY <1>2, AdministerTyped, TablesTyped, StreamsTyped, PollTyped, ReReviewTyped DEF EventsNext
<1> QED BY <1>1, <1>2

\* A row that the worker has read.
LEMMA TickTypedNext == Typed /\ TickTyped /\ [EventsNext]_eventVars => TickTyped'
<1> SUFFICES ASSUME Typed, TickTyped, [EventsNext]_eventVars PROVE TickTyped'
  OBVIOUS
<1>0. ASSUME UNCHANGED tick PROVE TickTyped'
  BY <1>0 DEF TickTyped
<1>1. ASSUME tick' = NoTick PROVE TickTyped'
  BY <1>1, EmptyFacts DEF TickTyped, NoTick
<1>2. CASE PollStart
  <2>1. tick' = [on |-> TRUE, rows |-> NewEvents, todo |-> Clients, who |-> Empty]
    BY <1>2 DEF PollStart
  <2>2. NewEvents \subseteq EventType /\ Clients \subseteq KeyHolders
    BY DEF NewEvents, Clients, Typed
  <2> QED BY <2>1, <2>2, EmptyFacts DEF TickTyped
<1>3. ASSUME NEW u \in KeyHolders, PollClient(u) PROVE TickTyped'
  <2>1. tick' = [tick EXCEPT !.todo = @ \ {u}, !.who = Put(@, u, CallerFor(u))]
    BY <1>3 DEF PollClient
  <2>2. CallerFor(u) \in CallerType
    <3>1. row[u] \in [id : 1..MaxRow, in : BOOLEAN, op : BOOLEAN]
      BY DEF Typed
    <3>2. Enrolled(u, streams[sse[u]].id) \in BOOLEAN
      BY DEF Enrolled
    <3> QED BY <3>1, <3>2 DEF CallerFor, TickTyped, CallerType
  <2>3. PICK w : w = Put(tick.who, u, CallerFor(u))
    OBVIOUS
  <2>4. DOMAIN w = DOMAIN tick.who \cup {u} /\ w[u] = CallerFor(u)
        /\ \A y \in DOMAIN tick.who \ {u} : w[y] = tick.who[y]
    BY <2>3 DEF Put
  <2>5. tick' = [on |-> tick.on, rows |-> tick.rows, todo |-> tick.todo \ {u}, who |-> w]
    BY <2>1, <2>3 DEF TickTyped
  <2> QED BY <2>2, <2>4, <2>5 DEF TickTyped
<1>4. CASE PollRow
  <2>1. ASSUME NEW e, tick' = [tick EXCEPT !.rows = @ \ {e}, !.todo = Clients] PROVE TickTyped'
    <3>1. tick' = [on |-> tick.on, rows |-> tick.rows \ {e}, todo |-> Clients, who |-> tick.who]
      BY <2>1 DEF TickTyped
    <3> QED BY <3>1 DEF TickTyped, Clients
  <2> QED BY <1>1, <1>4, <2>1 DEF PollRow
<1>5. CASE PollFails \/ Stop
  BY <1>1, <1>5 DEF PollFails, Stop
<1>6. ASSUME \/ Administer \/ TimePasses \/ SweepRetention
             \/ \E c \in Callers : (\E p \in Patches : Check(c, p)) \/ Insert(c)
                                   \/ AppendEvent(c) \/ VerbDies(c)
             \/ \E u \in Subscribers, p \in Patches : ClaimSeat(u, p)
             \/ Boot
             \/ \E u \in Subscribers : Connect(u)
             \/ \E s \in open : Closed(s)
             \/ \E u \in Callers, p \in Patches, names \in Filters : ReReviewRequest(u, p, names)
             \/ UNCHANGED eventVars
      PROVE  UNCHANGED tick
  BY <1>6 DEF Administer, TimePasses, SweepRetention, Check, Insert, AppendEvent, VerbDies, ClaimSeat,
     Boot, Connect, Closed, ReReviewRequest, verbUnchanged, serverUnchanged, eventVars
<1> QED BY <1>0, <1>2, <1>3, <1>4, <1>5, <1>6 DEF EventsNext, Poll

-----------------------------------------------------------------------------
(* Announcements *)

\* The two statements of a verb that has not ended.
InVerb(c) ==
    /\ verb[c].at \in {"insert", "append"} => verb[c].now = now
    /\ verb[c].at = "append" =>
          /\ verb[c].patch \in DOMAIN patches
          /\ patches[verb[c].patch].by = c /\ patches[verb[c].patch].at = now
          /\ \A e \in events : e.patch = verb[c].patch => e.kind # "pr-opened"

\* Announced speaks of each verb by itself.
LEMMA AnnouncedIs ==
    Announced <=> EventsBelongToTheirPatch /\ \A c \in Callers : InVerb(c)
BY DEF Announced, InVerb

\* A step of one verb leaves the others where they are, unless it touches their patch.
LEMMA AnnouncedStep ==
    ASSUME Typed, Announced, NEW c \in Callers,
           EventsBelongToTheirPatch', InVerb(c)', UNCHANGED now,
           \A d \in Callers \ {c} : verb'[d] = verb[d],
           \A p \in DOMAIN patches : p \in DOMAIN patches' /\ patches'[p].by = patches[p].by
                                                           /\ patches'[p].at = patches[p].at,
           \A e \in events' : e \in events \/ (e.patch \in DOMAIN patches
                                               /\ patches[e.patch].by = c)
    PROVE  Announced'
<1>1. ASSUME NEW d \in Callers \ {c} PROVE InVerb(d)'
  <2>1. InVerb(d) /\ verb'[d] = verb[d]
    BY AnnouncedIs
  <2>2. CASE verb[d].at = "append"
    <3>1. /\ verb[d].patch \in DOMAIN patches /\ patches[verb[d].patch].by = d
          /\ patches[verb[d].patch].at = now
          /\ \A e \in events : e.patch = verb[d].patch => e.kind # "pr-opened"
      BY <2>1, <2>2 DEF InVerb
    <3>2. \A e \in events' : e.patch = verb[d].patch => e.kind # "pr-opened"
      BY <3>1
    <3> QED BY <2>1, <3>1, <3>2 DEF InVerb
  <2>3. CASE verb[d].at # "append"
    BY <2>1, <2>3 DEF InVerb
  <2> QED BY <2>2, <2>3
<1>2. \A d \in Callers : InVerb(d)'
  BY <1>1
<1> QED BY <1>2 DEF Announced, InVerb

\* There are no events at first, and no verbs.
LEMMA InitAnnounced == EventsInit => Announced
<1> SUFFICES ASSUME EventsInit PROVE Announced
  OBVIOUS
<1>1. events = {} /\ \A c \in Callers : verb[c].at = "idle"
  BY DEF EventsInit, Idle
<1> QED BY <1>1 DEF Announced, EventsBelongToTheirPatch

\* Enrolment and format are checked; nothing is written.
LEMMA CheckAnnounced ==
    ASSUME Typed, Announced, NEW c \in Callers, (\E p \in Patches : Check(c, p)) \/ VerbDies(c)
    PROVE  Announced'
<1>1. /\ UNCHANGED <<patches, events, now>>
      /\ \A d \in Callers \ {c} : verb'[d] = verb[d]
      /\ verb'[c].at \in {"idle", "insert"}
      /\ verb'[c].at = "insert" => verb'[c].now = now
  BY DEF Check, VerbDies, tableVars, verbUnchanged, Typed, Idle
<1>2. InVerb(c)' /\ EventsBelongToTheirPatch'
  BY <1>1 DEF InVerb, Announced, EventsBelongToTheirPatch
<1> QED BY <1>1, <1>2, AnnouncedStep

\* insertPatch: no event is about a patch that is not registered.
LEMMA InsertAnnounced ==
    ASSUME Typed, Announced, NEW c \in Callers, Insert(c)
    PROVE  Announced'
<1>0. /\ UNCHANGED <<events, now>> /\ \A d \in Callers \ {c} : verb'[d] = verb[d]
      /\ verb[c].at = "insert" /\ verb[c].now = now
      /\ verb[c] = [at |-> "insert", patch |-> verb[c].patch, now |-> verb[c].now]
  BY VerbIs DEF Insert, verbUnchanged, Typed, Announced
<1>1. CASE verb' = [verb EXCEPT ![c] = Idle] /\ UNCHANGED patches
  <2>1. InVerb(c)' /\ EventsBelongToTheirPatch'
    BY <1>0, <1>1 DEF InVerb, Idle, Typed, Announced, EventsBelongToTheirPatch
  <2> QED BY <1>0, <1>1, <2>1, AnnouncedStep
<1>2. CASE /\ verb[c].patch \notin DOMAIN patches
           /\ patches' = Put(patches, verb[c].patch, [by |-> c, at |-> verb[c].now, seats |-> {}])
           /\ verb' = [verb EXCEPT ![c].at = "append"]
  <2>1. PICK p : p = verb[c].patch
    OBVIOUS
  <2>2. /\ DOMAIN patches' = DOMAIN patches \cup {p}
        /\ patches'[p] = [by |-> c, at |-> now, seats |-> {}]
        /\ \A q \in DOMAIN patches : patches'[q] = patches[q]
    BY <1>0, <1>2, <2>1 DEF Put
  <2>3. verb'[c].at = "append" /\ verb'[c].patch = p /\ verb'[c].now = now
    BY <1>0, <1>2, <2>1 DEF Typed
  <2>4. EventsBelongToTheirPatch' /\ \A e \in events : e.patch # p
    <3>1. EventsBelongToTheirPatch /\ p \notin DOMAIN patches
      BY <1>2, <2>1 DEF Announced
    <3>2. \A e \in events : /\ e.patch # p /\ e.patch \in DOMAIN patches'
                            /\ patches'[e.patch].by = e.by
      BY <2>2, <3>1 DEF EventsBelongToTheirPatch
    <3> QED BY <1>0, <3>1, <3>2 DEF EventsBelongToTheirPatch
  <2>5. InVerb(c)'
    BY <1>0, <2>2, <2>3, <2>4 DEF InVerb
  <2> QED BY <1>0, <2>2, <2>4, <2>5, AnnouncedStep
<1> QED BY <1>1, <1>2 DEF Insert

\* appendEvent, and the log of a re-review request
LEMMA LoggedBelongs ==
    ASSUME Typed, Announced, NEW p \in DOMAIN patches, NEW k, NEW at,
           LogEvent(p, k, patches[p].by, at), UNCHANGED patches,
           k = "pr-opened" => \A e \in events : e.patch = p => e.kind # "pr-opened",
           k \in {"pr-opened", "re-review-requested"}
    PROVE  EventsBelongToTheirPatch' /\ \A e \in events' : e \in events \/ (e.patch = p /\ e.kind = k)
<1>1. PICK n : n = [id |-> lastId + 1, patch |-> p, kind |-> k, by |-> patches[p].by, at |-> at]
  OBVIOUS
<1>2. events' = events \cup {n} /\ n.patch = p /\ n.kind = k /\ n.by = patches[p].by
  BY <1>1 DEF LogEvent
<1> QED BY <1>2 DEF Announced, EventsBelongToTheirPatch

\* appendEvent: the patch is still there, and had no announcement.
LEMMA AppendAnnounced ==
    ASSUME Typed, Announced, NEW c \in Callers, AppendEvent(c)
    PROVE  Announced'
<1>1. /\ UNCHANGED <<patches, now>> /\ \A d \in Callers \ {c} : verb'[d] = verb[d]
      /\ verb'[c].at = "idle"
  BY DEF AppendEvent, verbUnchanged, Typed, Idle
<1>2. /\ verb[c].patch \in DOMAIN patches /\ patches[verb[c].patch].by = c
      /\ \A e \in events : e.patch = verb[c].patch => e.kind # "pr-opened"
      /\ LogEvent(verb[c].patch, "pr-opened", c, verb[c].now)
  BY DEF AppendEvent, Announced
<1>3. /\ EventsBelongToTheirPatch'
      /\ \A e \in events' : e \in events \/ (e.patch = verb[c].patch /\ e.kind = "pr-opened")
  BY <1>1, <1>2, LoggedBelongs
<1>4. InVerb(c)'
  BY <1>1 DEF InVerb
<1> QED BY <1>1, <1>2, <1>3, <1>4, AnnouncedStep

\* A re-review request is about a registered patch, of its broadcaster.
LEMMA ReReviewAnnounced ==
    ASSUME Typed, Announced,
           \E u \in Callers, p \in Patches, names \in Filters : ReReviewRequest(u, p, names)
    PROVE  Announced'
<1>1. PICK u \in Callers, p \in Patches, names \in Filters : ReReviewRequest(u, p, names)
  OBVIOUS
<1>2. /\ p \in DOMAIN patches /\ patches[p].by = u /\ LogEvent(p, "re-review-requested", u, now)
      /\ UNCHANGED <<patches, now, verb>>
  BY <1>1 DEF ReReviewRequest
<1>3. /\ EventsBelongToTheirPatch'
      /\ \A e \in events' : e \in events \/ (e.patch = p /\ e.kind = "re-review-requested")
  BY <1>2, LoggedBelongs
<1>4. ASSUME NEW c \in Callers PROVE InVerb(c)'
  <2>1. InVerb(c)
    BY AnnouncedIs
  <2>2. \A e \in events' : e \in events \/ e.kind # "pr-opened"
    BY <1>3
  <2> QED BY <1>2, <2>1, <2>2 DEF InVerb
<1> QED BY <1>3, <1>4 DEF Announced, InVerb

\* The sweep deletes events first, and then patches that are old and that none is
\* about: not the one a verb has just registered.
LEMMA SweepAnnounced ==
    ASSUME Typed, Announced, SweepRetention
    PROVE  Announced'
<1> DEFINE Stays(p) == now - patches[p].at <= Retention \/ \E e \in events' : e.patch = p
<1>1. /\ events' \subseteq events /\ UNCHANGED <<verb, now>>
      /\ DOMAIN patches' = {p \in DOMAIN patches : Stays(p)}
      /\ \A p \in DOMAIN patches' : patches'[p] = patches[p]
  BY DEF SweepRetention, verbUnchanged
<1>2. EventsBelongToTheirPatch'
  BY <1>1 DEF Announced, EventsBelongToTheirPatch
<1>3. ASSUME NEW c \in Callers PROVE InVerb(c)'
  <2>1. InVerb(c)
    BY AnnouncedIs
  <2>2. ASSUME NEW p \in DOMAIN patches, patches[p].at = now PROVE p \in DOMAIN patches'
    <3>1. now - now <= Retention
      BY PeerEventsAssumption DEF Typed
    <3> QED BY <1>1, <2>2, <3>1
  <2>3. verb[c].at = "append" =>
           verb[c].patch \in DOMAIN patches' /\ patches'[verb[c].patch] = patches[verb[c].patch]
    BY <1>1, <2>1, <2>2 DEF InVerb
  <2> HIDE DEF Stays
  <2> QED BY <1>1, <2>1, <2>3 DEF InVerb
<1> QED BY <1>2, <1>3 DEF Announced, InVerb

\* Every step keeps events, patches and verbs in agreement.
LEMMA AnnouncedNext == Typed /\ Announced /\ [EventsNext]_eventVars => Announced'
<1> SUFFICES ASSUME Typed, Announced, [EventsNext]_eventVars PROVE Announced'
  OBVIOUS
<1>1. ASSUME UNCHANGED <<patches, events, verb, now>> PROVE Announced'
  BY <1>1 DEF Announced, EventsBelongToTheirPatch
<1>2. CASE TimePasses
  <2>1. UNCHANGED <<patches, events, verb>> /\ \A c \in Callers : verb[c].at = "idle"
    BY <1>2 DEF TimePasses, tableVars, Idle
  <2> QED BY <2>1 DEF Announced, EventsBelongToTheirPatch
<1>3. ASSUME NEW u \in Subscribers, NEW p \in Patches, ClaimSeat(u, p) PROVE Announced'
  <2>1. /\ UNCHANGED <<events, verb, now>> /\ DOMAIN patches' = DOMAIN patches
        /\ p \in DOMAIN patches /\ patches' = [patches EXCEPT ![p].seats = @ \cup {u}]
    BY <1>3 DEF ClaimSeat, verbUnchanged
  <2>2. \A q \in DOMAIN patches : patches'[q].by = patches[q].by /\ patches'[q].at = patches[q].at
    BY <2>1 DEF Typed, PatchType
  <2>3. EventsBelongToTheirPatch'
    BY <2>1, <2>2 DEF Announced, EventsBelongToTheirPatch
  <2> QED BY <2>1, <2>2, <2>3 DEF Announced
<1>4. ASSUME \/ Administer \/ Boot \/ Stop \/ Poll \/ PollFails
             \/ \E u \in Subscribers : Connect(u)
             \/ \E s \in open : Closed(s)
             \/ UNCHANGED eventVars
      PROVE  UNCHANGED <<patches, events, verb, now>>
  BY <1>4 DEF Administer, Boot, Stop, Poll, PollStart, PollClient, PollRow, PollFails, Connect,
     Closed, tickUnchanged, serverUnchanged, tableVars, eventVars
<1> QED BY <1>1, <1>2, <1>3, <1>4, CheckAnnounced, InsertAnnounced, AppendAnnounced,
           ReReviewAnnounced, SweepAnnounced DEF EventsNext

-----------------------------------------------------------------------------
(* Streams *)

\* There are no streams at first, and no tick.
LEMMA InitServed == EventsInit => Served /\ TickRemembers
<1> SUFFICES ASSUME EventsInit PROVE Served /\ TickRemembers
  OBVIOUS
<1>1. /\ DOMAIN streams = {} /\ open = {} /\ sse = Nobody /\ listener = Nobody /\ ~tick.on
  BY EmptyFacts DEF EventsInit
<1> QED BY <1>1 DEF Served, TickRemembers, IsNewest, Nobody

\* Row ids grow, and a row that was removed comes back under another.
LEMMA RowsGrow ==
    ASSUME Typed, Administer, NEW u \in KeyHolders
    PROVE  \/ row'[u].id = row[u].id /\ (row'[u].in => row[u].in)
           \/ row'[u].id = row[u].id + 1
<1>1. row[u] \in [id : 1..MaxRow, in : BOOLEAN, op : BOOLEAN]
  BY DEF Typed
<1>2. PICK v \in Administered :
        \/ row' = [row EXCEPT ![v].in = FALSE, ![v].op = FALSE]
        \/ row' = [row EXCEPT ![v] = [id |-> row[v].id + 1, in |-> TRUE, op |-> FALSE]]
        \/ row' = [row EXCEPT ![v].op = FALSE]
        \/ UNCHANGED row
  BY DEF Administer
<1>3. CASE u = v
  BY <1>1, <1>2, <1>3 DEF Typed
<1>4. CASE u # v
  BY <1>1, <1>2, <1>4 DEF Typed
<1> QED BY <1>3, <1>4

\* A stream is of a user, as one row.
LEMMA StreamIs ==
    ASSUME Typed, NEW s \in DOMAIN streams
    PROVE  streams[s].user \in KeyHolders /\ streams[s].id \in Nat /\ streams[s].id \in 1..MaxRow
<1>1. streams[s] \in Stamps
  BY DEF Typed
<1> QED BY <1>1, PeerEventsAssumption DEF Stamps

\* A user that was gone does not come back as the row a stream was opened for.
LEMMA AdministerServed ==
    ASSUME Typed, Served, Administer
    PROVE  Served'
<1>1. UNCHANGED <<streams, sse, listener, open>>
  BY DEF Administer, socketVars
<1>2. \A s \in DOMAIN streams : streams[s].user \in KeyHolders /\ streams[s].id \in Nat
  BY StreamIs
<1>3. \A u \in KeyHolders : row[u].id \in Nat
  BY PeerEventsAssumption DEF Typed
<1>4. ASSUME NEW s \in DOMAIN streams PROVE streams[s].id <= row'[streams[s].user].id
  <2>1. streams[s].id <= row[streams[s].user].id
    BY DEF Served
  <2> QED BY <1>2, <1>3, <2>1, RowsGrow
<1>5. ASSUME NEW u \in KeyHolders, NEW s \in open, IsNewest(streams, u, s)
      PROVE  sse[u] = s \/ (sse[u] = 0 /\ ~(row'[u].in /\ row'[u].id = streams[s].id))
  <2>1. sse[u] = s \/ (sse[u] = 0 /\ ~(row[u].in /\ row[u].id = streams[s].id))
    BY <1>5 DEF Served, Enrolled
  <2>2. s \in DOMAIN streams /\ streams[s].user = u /\ streams[s].id <= row[u].id
    BY <1>5 DEF Served, IsNewest
  <2> QED BY <1>2, <1>3, <2>1, <2>2, RowsGrow
<1> QED BY <1>1, <1>4, <1>5 DEF Served, IsNewest, Enrolled

\* There is one newest stream of a user.
LEMMA NewestIsOne ==
    ASSUME Typed, NEW u, NEW s, NEW t, IsNewest(streams, u, s), IsNewest(streams, u, t)
    PROVE  s = t
BY DEF IsNewest, Typed

\* GET /peer/events
LEMMA ConnectServed ==
    ASSUME Typed, Served, NEW u \in Subscribers, Connect(u)
    PROVE  Served'
<1>0. PICK n : n = Len(streams) + 1
  OBVIOUS
<1>1. /\ streams' = Append(streams, [user |-> u, id |-> row[u].id])
      /\ UNCHANGED row /\ u \in KeyHolders
  BY PeerEventsAssumption DEF Connect, serverUnchanged, adminVars
<1>2. /\ n \in Nat /\ n # 0 /\ DOMAIN streams = 1 .. n - 1 /\ DOMAIN streams' = 1 .. n /\ Len(streams') = n
      /\ streams'[n] = [user |-> u, id |-> row[u].id]
      /\ \A s \in DOMAIN streams : streams'[s] = streams[s]
  BY <1>0, <1>1 DEF Typed
<1>3. /\ sse' = [sse EXCEPT ![u] = n] /\ listener' = [listener EXCEPT ![u] = n]
      /\ open' = open \cup {n}
  BY <1>2 DEF Connect
<1>4. sse'[u] = n /\ (\A v \in KeyHolders \ {u} : sse'[v] = sse[v])
  BY <1>1, <1>3 DEF Typed
<1>5. IsNewest(streams', u, n)
  BY <1>2 DEF IsNewest
<1>6. \A v, s : v # u => (IsNewest(streams', v, s) <=> IsNewest(streams, v, s))
  BY <1>2 DEF IsNewest
<1>7. \A s : IsNewest(streams', u, s) => s = n
  BY <1>2 DEF IsNewest
<1>8. listener' = sse' /\ open' \subseteq DOMAIN streams'
  BY <1>2, <1>3 DEF Served
<1>9. \A s \in DOMAIN streams' : streams'[s].id <= row'[streams'[s].user].id
  <2>1. row[u].id <= row[u].id
    BY <1>1, PeerEventsAssumption DEF Typed
  <2> QED BY <1>1, <1>2, <2>1 DEF Served
<1>10. \A s \in DOMAIN streams' : \E t \in DOMAIN streams' : IsNewest(streams', streams'[s].user, t)
  <2> SUFFICES ASSUME NEW s \in DOMAIN streams'
               PROVE  \E t \in DOMAIN streams' : IsNewest(streams', streams'[s].user, t)
    OBVIOUS
  <2>1. n \in DOMAIN streams'
    BY <1>2
  <2>2. CASE streams'[s].user = u
    BY <1>5, <2>1, <2>2
  <2>3. CASE streams'[s].user # u
    <3>1. s \in DOMAIN streams /\ streams'[s] = streams[s]
      BY <1>2, <2>3
    <3>2. PICK t \in DOMAIN streams : IsNewest(streams, streams[s].user, t)
      BY <3>1 DEF Served
    <3>3. t \in DOMAIN streams'
      BY <1>2
    <3> QED BY <1>6, <2>3, <3>1, <3>2, <3>3
  <2> QED BY <2>2, <2>3
<1>11. \A v \in KeyHolders : sse'[v] # 0 => IsNewest(streams', v, sse'[v])
  BY <1>4, <1>5, <1>6 DEF Served
<1>12. \A v \in KeyHolders, s \in open' : IsNewest(streams', v, s) =>
          sse'[v] = s \/ (sse'[v] = 0 /\ ~Enrolled(v, streams'[s].id))
  <2> SUFFICES ASSUME NEW v \in KeyHolders, NEW s \in open', IsNewest(streams', v, s)
               PROVE  sse'[v] = s \/ (sse'[v] = 0 /\ ~Enrolled(v, streams'[s].id))
    OBVIOUS
  <2>1. CASE v = u
    BY <1>4, <1>7, <2>1
  <2>2. CASE v # u
    <3>1. IsNewest(streams, v, s) /\ sse'[v] = sse[v]
      BY <1>4, <1>6, <2>2
    <3>2. s # n /\ s \in DOMAIN streams
      BY <1>2, <3>1 DEF IsNewest
    <3>3. s \in open /\ streams'[s] = streams[s]
      BY <1>2, <1>3, <3>2
    <3>4. sse[v] = s \/ (sse[v] = 0 /\ ~Enrolled(v, streams[s].id))
      BY <3>1, <3>3 DEF Served
    <3> QED BY <1>1, <3>1, <3>3, <3>4 DEF Enrolled
  <2> QED BY <2>1, <2>2
<1> QED BY <1>1, <1>8, <1>9, <1>10, <1>11, <1>12 DEF Served, Enrolled

\* The close callback takes away only the stream it belongs to.
LEMMA ClosedServed ==
    ASSUME Typed, Served, NEW s \in open, Closed(s)
    PROVE  Served'
<1>1. UNCHANGED <<streams, row>> /\ open' = open \ {s} /\ listener = sse /\ s \in DOMAIN streams
  BY DEF Closed, serverUnchanged, adminVars, Served
<1>2. PICK u \in KeyHolders : u = streams[s].user
  BY <1>1, StreamIs
<1>3. CASE sse[u] = s /\ sse' = [sse EXCEPT ![u] = 0] /\ listener' = [listener EXCEPT ![u] = 0]
  <2>1. sse'[u] = 0 /\ listener' = sse' /\ \A v \in KeyHolders \ {u} : sse'[v] = sse[v]
    BY <1>1, <1>3 DEF Typed
  <2>2. s # 0
    BY <1>1 DEF Typed
  <2>3. IsNewest(streams, u, s)
    BY <1>3, <2>2 DEF Served
  <2>4. \A t \in open' : ~IsNewest(streams, u, t)
    BY <1>1, <2>3, NewestIsOne
  <2> QED BY <1>1, <2>1, <2>4, SMTT(30) DEF Served, IsNewest, Enrolled
<1>4. CASE UNCHANGED <<sse, listener>>
  BY <1>1, <1>4 DEF Served, IsNewest, Enrolled
<1> QED BY <1>2, <1>3, <1>4 DEF Closed

\* The worker closes the stream of a user who is gone.
LEMMA PollClientServed ==
    ASSUME Typed, Served, TickRemembers, NEW u \in KeyHolders, PollClient(u)
    PROVE  Served'
<1>1. UNCHANGED <<streams, row, open>> /\ listener = sse /\ u \in tick.todo /\ tick.on
  BY DEF PollClient, tickUnchanged, adminVars, Served
<1>2. CASE UNCHANGED <<sse, listener>>
  BY <1>1, <1>2 DEF Served, IsNewest, Enrolled
<1>3. CASE /\ ~CallerFor(u).found
           /\ sse' = [sse EXCEPT ![u] = 0] /\ listener' = [listener EXCEPT ![u] = 0]
  <2>1. sse[u] # 0
    BY <1>1 DEF TickRemembers
  <2>2. ~Enrolled(u, streams[sse[u]].id)
    BY <1>1, <1>3, <2>1 DEF CallerFor, TickRemembers
  <2>3. \A t \in open : IsNewest(streams, u, t) => ~Enrolled(u, streams[t].id)
    BY <2>1, <2>2, NewestIsOne DEF Served
  <2>4. sse'[u] = 0 /\ listener' = sse' /\ \A v \in KeyHolders \ {u} : sse'[v] = sse[v]
    BY <1>1, <1>3 DEF Typed
  <2> QED BY <1>1, <2>3, <2>4 DEF Served, IsNewest, Enrolled
<1> QED BY <1>2, <1>3 DEF PollClient

\* Every step keeps the newest streams served.
LEMMA ServedNext == Typed /\ Served /\ TickRemembers /\ [EventsNext]_eventVars => Served'
<1> SUFFICES ASSUME Typed, Served, TickRemembers, [EventsNext]_eventVars PROVE Served'
  OBVIOUS
<1>1. ASSUME UNCHANGED <<streams, sse, listener, open, row>> PROVE Served'
  BY <1>1 DEF Served, IsNewest, Enrolled
<1>2. CASE Stop
  <2>1. UNCHANGED <<streams, row>> /\ sse' = Nobody /\ listener' = Nobody /\ open' = {}
    BY <1>2, SMTT(30) DEF Stop, adminVars
  <2> QED BY <2>1 DEF Served, IsNewest, Nobody
<1>3. ASSUME \/ TimePasses \/ SweepRetention
             \/ \E c \in Callers : (\E p \in Patches : Check(c, p)) \/ Insert(c)
                                   \/ AppendEvent(c) \/ VerbDies(c)
             \/ \E u \in Subscribers, p \in Patches : ClaimSeat(u, p)
             \/ Boot \/ PollStart \/ PollRow \/ PollFails
             \/ \E u \in Callers, p \in Patches, names \in Filters : ReReviewRequest(u, p, names)
             \/ UNCHANGED eventVars
      PROVE  UNCHANGED <<streams, sse, listener, open, row>>
  BY <1>3 DEF TimePasses, SweepRetention, Check, Insert, AppendEvent, VerbDies, ClaimSeat, Boot, PollStart,
     PollRow, PollFails, ReReviewRequest, verbUnchanged, serverUnchanged, tickUnchanged, adminVars,
     socketVars, eventVars
<1> QED BY <1>1, <1>2, <1>3, AdministerServed, ConnectServed, ClosedServed, PollClientServed
        DEF EventsNext, Poll

-----------------------------------------------------------------------------
(* The tick *)

\* A tick begins with what is so.
LEMMA PollStartRemembers ==
    ASSUME Typed, PollStart
    PROVE  TickRemembers'
<1>1. /\ tick' = [on |-> TRUE, rows |-> NewEvents, todo |-> Clients, who |-> Empty]
      /\ lawful' = EntitledNow /\ UNCHANGED <<row, grants, sse>>
  BY DEF PollStart, tickUnchanged, adminVars
<1>2. EntitledNow' = EntitledNow
  BY <1>1 DEF EntitledNow, Entitled, Enrolled
<1>3. tick'.todo = Clients /\ DOMAIN tick'.who = {}
  BY <1>1, EmptyFacts
<1> QED BY <1>1, <1>2, <1>3 DEF TickRemembers, Clients

\* What callerFor answers is so now, or was when the tick first asked.
LEMMA CallerRemembered ==
    ASSUME Typed, Served, TickRemembers, tick.on, NEW u \in tick.todo, u \in KeyHolders
    PROVE  /\ sse[u] \in DOMAIN streams /\ streams[sse[u]].user = u
           /\ ~CallerFor(u).found => u \notin DOMAIN tick.who
           /\ CallerFor(u).found /\ CallerFor(u).op =>
                 \A r \in Repos : <<u, streams[sse[u]].id, r>> \in lawful
           /\ \A r \in Repos : Entitled(u, streams[sse[u]].id, r) =>
                 <<u, streams[sse[u]].id, r>> \in lawful
<1>1. sse[u] # 0
  BY DEF TickRemembers
<1>2. sse[u] \in DOMAIN streams /\ streams[sse[u]].user = u
  BY <1>1 DEF Served, IsNewest
<1>3. streams[sse[u]].id \in 1..MaxRow
  BY <1>2, StreamIs
<1>4. \A r \in Repos : Entitled(u, streams[sse[u]].id, r) =>
          <<u, streams[sse[u]].id, r>> \in lawful
  BY <1>3 DEF TickRemembers, EntitledNow
<1>5. CASE u \in DOMAIN tick.who
  BY <1>1, <1>2, <1>4, <1>5 DEF TickRemembers, CallerFor
<1>6. CASE u \notin DOMAIN tick.who
  <2>1. CallerFor(u) = [found |-> Enrolled(u, streams[sse[u]].id), op |-> row[u].op]
    BY <1>6 DEF CallerFor
  <2>2. CallerFor(u).found /\ CallerFor(u).op => \A r \in Repos : Entitled(u, streams[sse[u]].id, r)
    BY <2>1 DEF Entitled
  <2> QED BY <1>2, <1>4, <1>6, <2>2
<1> QED BY <1>5, <1>6

\* The poll asks callerFor of one client, and remembers the answer for the rows to come.
LEMMA PollClientRemembers ==
    ASSUME Typed, TickTyped, Served, TickRemembers, NEW u \in KeyHolders, PollClient(u)
    PROVE  TickRemembers'
<1>1. /\ tick.on /\ u \in tick.todo
      /\ UNCHANGED <<row, grants, streams, lawful>>
      /\ tick' = [tick EXCEPT !.todo = @ \ {u}, !.who = Put(@, u, CallerFor(u))]
  BY DEF PollClient, tickUnchanged, adminVars
<1>2. PICK w : w = Put(tick.who, u, CallerFor(u))
  OBVIOUS
<1>3. DOMAIN w = DOMAIN tick.who \cup {u} /\ w[u] = CallerFor(u)
      /\ \A y \in DOMAIN tick.who \ {u} : w[y] = tick.who[y]
  BY <1>2 DEF Put
<1>4. tick' = [on |-> tick.on, rows |-> tick.rows, todo |-> tick.todo \ {u}, who |-> w]
  BY <1>1, <1>2 DEF TickTyped
<1>5. /\ \A v \in KeyHolders \ {u} : sse'[v] = sse[v]
      /\ ~CallerFor(u).found => sse'[u] = 0
      /\ CallerFor(u).found => sse'[u] = sse[u]
  <2>1. sse \in [KeyHolders -> Nat]
    BY DEF Typed
  <2> QED BY <2>1 DEF PollClient
<1>6. EntitledNow' \subseteq lawful'
  BY <1>1 DEF TickRemembers, EntitledNow, Entitled, Enrolled
<1>7. \A v \in tick'.todo : sse'[v] # 0
  <2>1. \A v \in tick'.todo : v \in tick.todo /\ v \in KeyHolders \ {u}
    BY <1>4 DEF TickTyped
  <2> QED BY <1>1, <1>5, <2>1 DEF TickRemembers
<1>8. ASSUME NEW v \in DOMAIN w
      PROVE  /\ ~w[v].found => sse'[v] = 0
             /\ w[v].found /\ w[v].op /\ sse'[v] # 0 =>
                   \A r \in Repos : <<v, streams[sse'[v]].id, r>> \in lawful
  <2>1. CASE v = u
    BY <1>1, <1>3, <1>5, <2>1, CallerRemembered
  <2>2. CASE v # u
    <3>1. v \in DOMAIN tick.who /\ w[v] = tick.who[v] /\ sse'[v] = sse[v]
      BY <1>3, <1>5, <2>2 DEF TickTyped
    <3> QED BY <1>1, <3>1 DEF TickRemembers
  <2> QED BY <2>1, <2>2
<1>9. tick'.who = w
  BY <1>4
<1> QED BY <1>1, <1>6, <1>7, <1>8, <1>9 DEF TickRemembers

\* With the next row the clients come anew, and the memory stays.
LEMMA PollRowRemembers ==
    ASSUME Typed, TickTyped, TickRemembers, PollRow
    PROVE  TickRemembers'
<1>1. UNCHANGED <<row, grants, streams, sse>> /\ tick.on
  BY DEF PollRow, tickUnchanged, adminVars
<1>2. CASE tick' = NoTick
  BY <1>2, EmptyFacts DEF TickRemembers
<1>3. ASSUME NEW e, tick' = [tick EXCEPT !.rows = @ \ {e}, !.todo = Clients], UNCHANGED lawful
      PROVE  TickRemembers'
  <2>1. tick'.todo = Clients /\ tick'.who = tick.who /\ tick'.on
    BY <1>1, <1>3 DEF TickTyped
  <2>2. EntitledNow' = EntitledNow
    BY <1>1 DEF EntitledNow, Entitled, Enrolled
  <2> QED BY <1>1, <1>3, <2>1, <2>2 DEF TickRemembers, Clients
<1> QED BY <1>2, <1>3 DEF PollRow

\* Every step keeps the memory of the tick true of its time.
LEMMA TickRemembersNext ==
    Typed /\ TickTyped /\ Served /\ TickRemembers /\ [EventsNext]_eventVars => TickRemembers'
<1> SUFFICES ASSUME Typed, TickTyped, Served, TickRemembers, [EventsNext]_eventVars PROVE TickRemembers'
  OBVIOUS
<1>1. ASSUME UNCHANGED <<tick, row, grants, streams, sse, lawful>> PROVE TickRemembers'
  <2>1. EntitledNow' = EntitledNow
    BY <1>1 DEF EntitledNow, Entitled, Enrolled
  <2> QED BY <1>1, <2>1 DEF TickRemembers
<1>2. ASSUME ~tick.on, UNCHANGED tick PROVE TickRemembers'
  BY <1>2 DEF TickRemembers
<1>3. CASE Administer
  <2>1. /\ UNCHANGED <<tick, streams, sse>>
        /\ lawful' = IF tick.on THEN lawful \cup EntitledNow' ELSE lawful
    BY <1>3 DEF Administer, socketVars
  <2>2. tick.on => lawful \subseteq lawful' /\ EntitledNow' \subseteq lawful'
    BY <2>1
  <2> QED BY <2>1, <2>2 DEF TickRemembers
<1>4. CASE PollFails \/ Stop
  BY <1>4, EmptyFacts DEF PollFails, Stop, TickRemembers
<1>5. ASSUME \/ TimePasses \/ (\E u \in Subscribers : Connect(u)) \/ (\E s \in open : Closed(s))
             \/ \E u \in Callers, p \in Patches, names \in Filters : ReReviewRequest(u, p, names)
      PROVE  ~tick.on /\ UNCHANGED tick
  BY <1>5 DEF TimePasses, Connect, Closed, ReReviewRequest, serverUnchanged
<1>6. ASSUME \/ SweepRetention
             \/ \E c \in Callers : (\E p \in Patches : Check(c, p)) \/ Insert(c)
                                   \/ AppendEvent(c) \/ VerbDies(c)
             \/ \E u \in Subscribers, p \in Patches : ClaimSeat(u, p)
             \/ Boot
             \/ UNCHANGED eventVars
      PROVE  UNCHANGED <<tick, row, grants, streams, sse, lawful>>
  BY <1>6 DEF SweepRetention, Check, Insert, AppendEvent, VerbDies, ClaimSeat, Boot,
     verbUnchanged, serverUnchanged, adminVars, socketVars, eventVars
<1> QED BY <1>1, <1>2, <1>3, <1>4, <1>5, <1>6, PollStartRemembers, PollClientRemembers,
           PollRowRemembers DEF EventsNext, Poll

-----------------------------------------------------------------------------

\* The inductive invariant holds throughout.
LEMMA PeerEventsInvariant == EventsSpec => []PeerEventsInv
<1>1. EventsInit => PeerEventsInv
  BY InitTyped, InitAnnounced, InitServed DEF PeerEventsInv
<1>2. PeerEventsInv /\ [EventsNext]_eventVars => PeerEventsInv'
  BY TypedNext, TickTypedNext, AnnouncedNext, ServedNext, TickRemembersNext DEF PeerEventsInv
<1> QED BY <1>1, <1>2, PTL DEF EventsSpec

\* Whatever two callers, a verb that dies and the sweep do in between, every event is
\* about a registered patch and of its broadcaster, and a patch is announced once
\* (runPrOpened, sweepServerRetention).
THEOREM EventsBelong == EventsSpec => []EventsBelongToTheirPatch
<1>1. PeerEventsInv => EventsBelongToTheirPatch
  BY DEF PeerEventsInv, Announced
<1> QED BY <1>1, PeerEventsInvariant, PTL

\* A late close callback takes nothing from the stream that replaced its own: the
\* newest open stream is the one in both registries, unless the poll has found its
\* user gone (handlePeerEventsStream, pollPeerEventsOnce).
THEOREM NewestServed == EventsSpec => []NewestStreamIsServed
<1>1. ASSUME PeerEventsInv PROVE NewestStreamIsServed
  <2> SUFFICES ASSUME NEW u \in KeyHolders
               PROVE  /\ sse[u] = listener[u]
                      /\ LET own == {s \in DOMAIN streams : streams[s].user = u}
                             newest == CHOOSE s \in own : \A t \in own : t <= s
                         IN (own # {} /\ newest \in open)
                              => (sse[u] = newest \/ (sse[u] = 0 /\ ~Enrolled(u, streams[newest].id)))
    BY DEF NewestStreamIsServed
  <2> DEFINE own == {s \in DOMAIN streams : streams[s].user = u}
             newest == CHOOSE s \in own : \A t \in own : t <= s
  <2>1. Served
    BY <1>1 DEF PeerEventsInv
  <2>2. ASSUME own # {}, newest \in open
        PROVE  sse[u] = newest \/ (sse[u] = 0 /\ ~Enrolled(u, streams[newest].id))
    <3>1. PICK t \in DOMAIN streams : IsNewest(streams, u, t)
      BY <2>1, <2>2 DEF Served
    <3>2. t \in own /\ \A s \in own : s <= t
      BY <3>1 DEF IsNewest
    <3>3. newest \in own /\ \A s \in own : s <= newest
      BY <3>2
    <3> HIDE DEF newest
    <3>4. IsNewest(streams, u, newest)
      BY <3>3 DEF IsNewest
    <3> QED BY <2>1, <2>2, <3>4 DEF Served
  <2> QED BY <2>1, <2>2 DEF Served
<1> QED BY <1>1, PeerEventsInvariant, PTL

\* The poll writes an event to a stream only if its user was entitled to the repository
\* at some moment of the tick, and a re-review request only if he is (callerFor,
\* mayReceiveRepoEvents, the onEvent of a listener).
THEOREM OnlyEntitled == EventsSpec => OnlyTheEntitledAreTold
<1> DEFINE Tells == /\ \A f \in told' \ told :
                        \E e \in tick.rows :
                           /\ e.id = f[2]
                           /\ <<streams[f[1]].user, streams[f[1]].id, RepoOf[e.patch]>> \in lawful
                   /\ \A f \in asked' \ asked :
                        Entitled(streams[f[1]].user, streams[f[1]].id, RepoOf[f[2]])
<1>1. ASSUME PeerEventsInv, [EventsNext]_eventVars PROVE [Tells]_eventVars
  <2>0. Typed /\ TickTyped /\ Served /\ TickRemembers
    BY <1>1 DEF PeerEventsInv
  <2>1. ASSUME UNCHANGED <<told, asked>> PROVE Tells
    BY <2>1
  <2>2. ASSUME NEW u \in KeyHolders, PollClient(u) PROVE Tells
    <3>1. tick.on /\ u \in tick.todo /\ UNCHANGED asked
      BY <2>2 DEF PollClient, tickUnchanged
    <3>2. CASE UNCHANGED told
      BY <3>1, <3>2
    <3>3. ASSUME NEW e \in tick.rows, CallerFor(u).found,
                 MayReceiveRepoEvents(u, streams[sse[u]].id, CallerFor(u).op, RepoOf[e.patch]),
                 told' = told \cup {<<sse[u], e.id>>}
          PROVE  Tells
      <4>1. RepoOf[e.patch] \in Repos
        BY <2>0, PeerEventsAssumption DEF TickTyped, EventType
      <4>2. streams[sse[u]].user = u
        BY <2>0, <3>1, CallerRemembered
      <4>3. <<u, streams[sse[u]].id, RepoOf[e.patch]>> \in lawful
        <5>1. CASE CallerFor(u).op
          BY <2>0, <3>1, <3>3, <4>1, <5>1, CallerRemembered
        <5>2. CASE ~CallerFor(u).op
          <6>1. Entitled(u, streams[sse[u]].id, RepoOf[e.patch])
            BY <3>3, <5>2 DEF MayReceiveRepoEvents, Entitled
          <6> QED BY <2>0, <3>1, <4>1, <6>1, CallerRemembered
        <5> QED BY <5>1, <5>2
      <4>4. \A f \in told' \ told : f = <<sse[u], e.id>>
        BY <3>3
      <4>5. ASSUME NEW f \in told' \ told
            PROVE  /\ e.id = f[2]
                   /\ <<streams[f[1]].user, streams[f[1]].id, RepoOf[e.patch]>> \in lawful
        <5>1. f[1] = sse[u] /\ f[2] = e.id
          BY <4>4, <4>5
        <5> QED BY <4>2, <4>3, <5>1
      <4> QED BY <3>1, <4>5
    <3> QED BY <2>2, <3>2, <3>3 DEF PollClient
  <2>3. ASSUME NEW u \in Callers, NEW p \in Patches, NEW names \in Filters, ReReviewRequest(u, p, names)
        PROVE  Tells
    <3>1. told' = told
      BY <2>3 DEF ReReviewRequest
    <3>2. ASSUME NEW f \in asked' \ asked
          PROVE  Entitled(streams[f[1]].user, streams[f[1]].id, RepoOf[f[2]])
      <4>1. PICK h \in KeyHolders : /\ f = <<listener[h], p>> /\ listener[h] # 0
                               /\ Entitled(h, streams[listener[h]].id, RepoOf[p])
        BY <2>3, <3>2 DEF ReReviewRequest
      <4>2. streams[listener[h]].user = h
        BY <2>0, <4>1 DEF Served, IsNewest
      <4> QED BY <4>1, <4>2
    <3> QED BY <3>1, <3>2
  <2>4. ASSUME \/ Administer \/ TimePasses \/ SweepRetention
               \/ \E c \in Callers : (\E p \in Patches : Check(c, p)) \/ Insert(c)
                                     \/ AppendEvent(c) \/ VerbDies(c)
               \/ \E u \in Subscribers, p \in Patches : ClaimSeat(u, p)
               \/ Boot \/ Stop
               \/ \E u \in Subscribers : Connect(u)
               \/ \E s \in open : Closed(s)
               \/ PollStart \/ PollRow \/ PollFails
               \/ UNCHANGED eventVars
        PROVE  UNCHANGED <<told, asked>>
    BY <2>4 DEF Administer, TimePasses, SweepRetention, Check, Insert, AppendEvent, VerbDies, ClaimSeat,
       Boot, Stop, Connect, Closed, PollStart, PollRow, PollFails, verbUnchanged, tickUnchanged,
       ghostVars, eventVars
  <2> HIDE DEF Tells
  <2> QED BY <1>1, <2>1, <2>2, <2>3, <2>4 DEF EventsNext, Poll
<1> QED BY <1>1, PeerEventsInvariant, PTL DEF EventsSpec, OnlyTheEntitledAreTold
=============================================================================
