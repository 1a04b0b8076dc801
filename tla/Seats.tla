------------------------------- MODULE Seats -------------------------------
(***************************************************************************)
(* The two primary reviewer seats of a peer-review patch: the columns      *)
(* seat_N_holder and seat_N_claimed_at of peer_review_patches and the four *)
(* functions of src/lib/serverDb.ts that write them.  Every statement of   *)
(* theirs names one patch_id, so one row stands for all.  A claim runs in  *)
(* a transaction; heartbeat, release and sweep run without an await in the *)
(* one stamp-http-server process.  All four are atomic here.               *)
(*                                                                         *)
(* age[s] is now - seat_s_claimed_at, capped one above the TTL (the code   *)
(* only ever asks whether it exceeds the TTL), or NoAge when it is NULL.   *)
(***************************************************************************)
EXTENDS Integers, FiniteSets

CONSTANTS
    Users,     \* stamp-key fingerprints
    NoUser,    \* an empty seat (NULL)
    Author,    \* requested_by_fp of the patch
    Ttl        \* SEAT_TTL_SECONDS, in ticks of the clock

ASSUME NoUserAssumption == NoUser \notin Users
ASSUME AuthorAssumption == Author \in Users
ASSUME TtlAssumption == Ttl \in Nat

VARIABLES
    seat,   \* seat_1_holder, seat_2_holder
    age     \* seconds since seat_N_claimed_at

seatVars == <<seat, age>>

SeatIds == {1, 2}
NoAge == -1

SeatsInit ==
    /\ seat = [s \in SeatIds |-> NoUser]
    /\ age = [s \in SeatIds |-> NoAge]

-----------------------------------------------------------------------------

Holds(u) == \E s \in SeatIds : seat[s] = u
Free(s) == seat[s] = NoUser

\* The answers of claimSeatTx, in its order of evaluation.
ClaimResult(u) ==
    CASE u = Author -> "author_cannot_claim_own_pr"
      [] u # Author /\ Holds(u) -> "already_holds_other_seat"
      [] u # Author /\ ~Holds(u) /\ \E s \in SeatIds : Free(s) -> "ok"
      [] OTHER -> "seats_full"

\* seat_1 is tried first.
FirstFree(s) == Free(s) /\ (s = 2 => ~Free(1))

Take(u, s) ==
    /\ seat' = [seat EXCEPT ![s] = u]
    /\ age' = [age EXCEPT ![s] = 0]

\* A slip of Claim: the check for a seat already held looks at seat 1 only.
ClaimBlind(u) ==
    /\ u # Author /\ seat[1] # u
    /\ \E s \in SeatIds : FirstFree(s) /\ Take(u, s)

\* A slip of Claim: seat 2 is given away without a look at its holder.
ClaimOver(u) ==
    /\ u # Author /\ ~Holds(u)
    /\ Take(u, IF Free(1) THEN 1 ELSE 2)

\* claimSeatTx commits.
Claim(u) ==
    /\ ClaimResult(u) = "ok"
    /\ \E s \in SeatIds : FirstFree(s) /\ Take(u, s)

\* touchHeartbeat: the timestamp of the caller's seat, if it has one.
Heartbeat(u) == \E s \in SeatIds :
    /\ seat[s] = u
    /\ age' = [age EXCEPT ![s] = 0]
    /\ UNCHANGED seat

\* A slip of Release: seat 1 is cleared, whoever sits there.
ReleaseFirst(u) ==
    /\ Holds(u)
    /\ seat' = [seat EXCEPT ![1] = NoUser]
    /\ age' = [age EXCEPT ![1] = NoAge]

\* A slip of Release: the timestamp is not cleared with the holder.
ReleaseHolderOnly(u) == \E s \in SeatIds :
    /\ seat[s] = u
    /\ seat' = [seat EXCEPT ![s] = NoUser]
    /\ UNCHANGED age

\* releaseSeat, for a caller that holds a seat; for any other it is a no-op.
Release(u) == \E s \in SeatIds :
    /\ seat[s] = u
    /\ seat' = [seat EXCEPT ![s] = NoUser]
    /\ age' = [age EXCEPT ![s] = NoAge]

ClearSeats(S) ==
    /\ S # {}
    /\ seat' = [s \in SeatIds |-> IF s \in S THEN NoUser ELSE seat[s]]
    /\ age' = [s \in SeatIds |-> IF s \in S THEN NoAge ELSE age[s]]

\* A slip of Sweep: the comparison with the cutoff is not strict.
SweepEarly == ClearSeats({s \in SeatIds : ~Free(s) /\ age[s] >= Ttl})

\* A slip of Sweep: the second UPDATE is missing.
SweepFirstOnly == ClearSeats({s \in {1} : ~Free(s) /\ age[s] > Ttl})

\* sweepExpiredSeats: both seats, those whose last sign of life is older than
\* the TTL.  (Without such a seat it changes nothing.)
Sweep == ClearSeats({s \in SeatIds : ~Free(s) /\ age[s] > Ttl})

Tick ==
    /\ \E s \in SeatIds : ~Free(s) /\ age[s] <= Ttl
    /\ age' = [s \in SeatIds |-> IF ~Free(s) /\ age[s] <= Ttl THEN age[s] + 1 ELSE age[s]]
    /\ UNCHANGED seat

SeatsNext ==
    \/ \E u \in Users : Claim(u) \/ Heartbeat(u) \/ Release(u)
    \/ Sweep
    \/ Tick

SeatsSpec == SeatsInit /\ [][SeatsNext]_seatVars

-----------------------------------------------------------------------------

\* Types, and: holder and timestamp of a seat are set and cleared together.
SeatsTypeOK ==
    /\ seat \in [SeatIds -> Users \cup {NoUser}]
    /\ age \in [SeatIds -> NoAge..(Ttl + 1)]
    /\ \A s \in SeatIds : Free(s) <=> age[s] = NoAge

\* The two seats go to two different people, and the author of the change
\* reviews in neither.
IndependentReviewers ==
    /\ \A s \in SeatIds : seat[s] # Author
    /\ \A s, t \in SeatIds : seat[s] = seat[t] /\ ~Free(s) => s = t

\* A holder loses its seat by its own release or after a silence longer than
\* the TTL: nobody takes the seat of a reviewer that keeps its heartbeat up.
LiveSeatIsKept ==
    [][\A s \in SeatIds : ~Free(s) /\ seat'[s] # seat[s] =>
          seat'[s] = NoUser /\ (age[s] > Ttl \/ Release(seat[s]))]_seatVars

\* The table keeps the promise of TwoSeats.
Abstract == INSTANCE TwoSeats WITH
    Capacity <- 2,
    holders <- {seat[s] : s \in {t \in SeatIds : seat[t] # NoUser}}

KeepsPromise == Abstract!Promise
=============================================================================
