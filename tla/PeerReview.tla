----------------------------- MODULE PeerReview -----------------------------
(***************************************************************************)
(* Agentic reviewers and the seats of one patch: every reviewer runs       *)
(* `stamp pr listen` (src/commands/prListen.ts), which takes one event at  *)
(* a time, claims a seat over HTTP (src/lib/seatClient.ts), fetches the    *)
(* diff, reviews under a heartbeat, posts, and gives the seat back or not. *)
(* The server side is module Seats.                                        *)
(*                                                                         *)
(* A call whose connection breaks is reported as failed to the listener,   *)
(* while the server may still handle it: the set late.  Heartbeats are not *)
(* awaited: the set beats.  The ghost evicted records who lost a seat by   *)
(* its own silence or by an old release of its own.                        *)
(***************************************************************************)
EXTENDS Seats, Sequences, FiniteSetsExt

CONSTANTS
    Always,    \* reviewers whose triage says claim_seat: always
    Mortal,    \* reviewers whose listener may be interrupted or killed
    Gone,      \* listeners that died for good with a claim under way
    Flaky,     \* reviewers whose connections may break
    MaxAsks    \* re-review requests the author makes

ASSUME ListenersAssumption == Gone \subseteq Users \ {Author} /\ MaxAsks \in Nat

VARIABLES
    pc,       \* where each listener's event loop is
    mode,     \* reviewMode of the event being handled
    leaving,  \* the release of shutdown(): "no", "calling", or "handled" and not yet answered
    inbox,    \* events received and not yet taken
    late,     \* calls given up by their caller and not yet dealt with
    beats,    \* heartbeats under way
    asks,     \* re-review requests made so far
    evicted   \* ghost: silent at a sweep, or an old release of its own came in, while relying on its seat

listenVars == <<pc, mode, leaving, inbox, late, beats, asks, evicted>>
vars == <<seatVars, listenVars>>

Listeners == Users \ {Author}
Events == {"pr-opened", "re-review-requested"}

Init ==
    /\ SeatsInit
    /\ pc = [l \in Listeners |-> IF l \in Gone THEN "off" ELSE "idle"]
    /\ mode = [l \in Listeners |-> "none"]
    /\ leaving = [l \in Listeners |-> "no"]
    /\ inbox = [l \in Listeners |-> IF l \in Gone THEN <<>> ELSE <<"pr-opened">>]
    /\ late = {<<"claim", l>> : l \in Gone}
    /\ beats = {}
    /\ asks = 0
    /\ evicted = {}

-----------------------------------------------------------------------------

Goto(l, where) == pc' = [pc EXCEPT ![l] = where]

\* currentSeatPatchId names the patch.
Relies(l) == mode[l] = "seat" /\ pc[l] \in {"fetch", "review", "post"}

\* The seat of l has had no sign of life for longer than the TTL.
Silent(l) == \E s \in SeatIds : seat[s] = l /\ age[s] > Ttl

\* A slip of Triage: the event leaves the queue before it has been handled.
TriageEarly(l) ==
    /\ pc[l] = "idle" /\ leaving[l] = "no" /\ inbox[l] # <<>>
    /\ Goto(l, "claim")
    /\ inbox' = [inbox EXCEPT ![l] = Tail(@)]
    /\ mode' = [mode EXCEPT ![l] = "none"]
    /\ UNCHANGED <<seatVars, leaving, late, beats, asks, evicted>>

\* Author verification, consent gate, triage and cost cap let the event pass.
Triage(l) ==
    /\ pc[l] = "idle" /\ leaving[l] = "no" /\ inbox[l] # <<>>
    /\ Goto(l, "claim")
    /\ mode' = [mode EXCEPT ![l] = "none"]
    /\ UNCHANGED <<seatVars, leaving, inbox, late, beats, asks, evicted>>

\* One of them stops it.
Skip(l) ==
    /\ pc[l] = "idle" /\ leaving[l] = "no" /\ inbox[l] # <<>>
    /\ inbox' = [inbox EXCEPT ![l] = Tail(@)]
    /\ UNCHANGED <<seatVars, pc, mode, leaving, late, beats, asks, evicted>>

\* The event at hand is done with.
Finish(l) ==
    /\ Goto(l, "idle")
    /\ inbox' = [inbox EXCEPT ![l] = Tail(@)]
    /\ mode' = [mode EXCEPT ![l] = "none"]

\* POST /peer/claim-seat is answered 200.
ClaimGranted(l) ==
    /\ pc[l] = "claim"
    /\ Claim(l)
    /\ Goto(l, "fetch")
    /\ mode' = [mode EXCEPT ![l] = "seat"]
    /\ evicted' = evicted \ {l}
    /\ UNCHANGED <<leaving, inbox, late, beats, asks>>

\* It is answered 409: only seats_full leads anywhere, and only for "always".
ClaimRejected(l) ==
    /\ pc[l] = "claim"
    /\ ClaimResult(l) # "ok"
    /\ \/ /\ ClaimResult(l) = "seats_full" /\ l \in Always
          /\ Goto(l, "register")
          /\ UNCHANGED <<inbox, mode>>
       \/ /\ ClaimResult(l) # "seats_full" \/ l \notin Always
          /\ Finish(l)
    /\ UNCHANGED <<seatVars, leaving, late, beats, asks, evicted>>

\* POST /peer/register-extra is answered: no seat is taken.
RegisterExtra(l) ==
    /\ pc[l] = "register"
    /\ \/ /\ Goto(l, "fetch")
          /\ mode' = [mode EXCEPT ![l] = "extra"]
          /\ UNCHANGED inbox
       \/ Finish(l)
    /\ UNCHANGED <<seatVars, leaving, late, beats, asks, evicted>>

\* The event is given up: a seat is released first.
GiveUp(l) ==
    IF mode[l] = "seat" THEN Goto(l, "release") /\ UNCHANGED <<inbox, mode>> ELSE Finish(l)

Fetch(l) ==
    /\ pc[l] = "fetch"
    /\ (Goto(l, "review") /\ UNCHANGED <<inbox, mode>>) \/ GiveUp(l)
    /\ UNCHANGED <<seatVars, leaving, late, beats, asks, evicted>>

Review(l) ==
    /\ pc[l] = "review"
    /\ (Goto(l, "post") /\ UNCHANGED <<inbox, mode>>) \/ GiveUp(l)
    /\ UNCHANGED <<seatVars, leaving, late, beats, asks, evicted>>

\* The review is posted: the seat is forgotten here and kept at the server.
Post(l) ==
    /\ pc[l] = "post"
    /\ Finish(l)
    /\ UNCHANGED <<seatVars, leaving, late, beats, asks, evicted>>

\* Posting fails, or the decision was a draft or a dry run.
PostNot(l) ==
    /\ pc[l] = "post"
    /\ GiveUp(l)
    /\ UNCHANGED <<seatVars, leaving, late, beats, asks, evicted>>

\* releaseSeat at the server, a no-op for a caller without a seat.
ReleaseAtServer(l) == Release(l) \/ (~Holds(l) /\ UNCHANGED seatVars)

\* POST /peer/release-seat is answered.
ReleaseAnswered(l) ==
    /\ pc[l] = "release"
    /\ ReleaseAtServer(l)
    /\ Finish(l)
    /\ UNCHANGED <<leaving, late, beats, asks, evicted>>

\* The connection of a claim or of a release breaks; the caller goes on.
CallBreaks(l) ==
    /\ l \in Flaky
    /\ \/ pc[l] = "claim" /\ late' = late \cup {<<"claim", l>>} /\ Finish(l)
       \/ pc[l] = "release" /\ late' = late \cup {<<"release", l>>} /\ Finish(l)
    /\ UNCHANGED <<seatVars, leaving, beats, asks, evicted>>

\* The server handles a call that nobody waits for.
LateClaim(l) ==
    /\ <<"claim", l>> \in late
    /\ late' = late \ {<<"claim", l>>}
    /\ Claim(l) \/ (ClaimResult(l) # "ok" /\ UNCHANGED seatVars)
    /\ UNCHANGED <<pc, mode, leaving, inbox, beats, asks, evicted>>

LateRelease(l) ==
    /\ <<"release", l>> \in late
    /\ late' = late \ {<<"release", l>>}
    /\ ReleaseAtServer(l)
    /\ evicted' = evicted \cup {k \in {l} : Relies(k)}
    /\ UNCHANGED <<pc, mode, leaving, inbox, beats, asks>>

LateLost(l) ==
    /\ \E call \in late : call[2] = l /\ late' = late \ {call}
    /\ UNCHANGED <<seatVars, pc, mode, leaving, inbox, beats, asks, evicted>>

\* The 60 s timer fires while the review runs; the call is not awaited.
SendBeat(l) ==
    /\ pc[l] = "review" /\ mode[l] = "seat" /\ leaving[l] = "no"
    /\ l \notin beats
    /\ beats' = beats \cup {l}
    /\ UNCHANGED <<seatVars, pc, mode, leaving, inbox, late, asks, evicted>>

\* It arrives (its answer, a 404 included, is ignored) or gets lost.
BeatArrives(l) ==
    /\ l \in beats
    /\ beats' = beats \ {l}
    /\ Heartbeat(l) \/ ((~Holds(l) \/ l \in Flaky) /\ UNCHANGED seatVars)
    /\ UNCHANGED <<pc, mode, leaving, inbox, late, asks, evicted>>

\* SIGINT while the review of a seat holder is awaited, where alone the event loop
\* is free with currentSeatPatchId set: shutdown() stops the heartbeat, closes the
\* stream and awaits the release of the seat.  The review goes on meanwhile.
Interrupt(l) ==
    /\ l \in Mortal
    /\ pc[l] = "review" /\ mode[l] = "seat" /\ leaving[l] = "no"
    /\ leaving' = [leaving EXCEPT ![l] = "calling"]
    /\ UNCHANGED <<seatVars, pc, mode, inbox, late, beats, asks, evicted>>

\* The server handles that release, wherever the event loop is by then.
GoodbyeHandled(l) ==
    /\ leaving[l] = "calling"
    /\ ReleaseAtServer(l)
    /\ leaving' = [leaving EXCEPT ![l] = "handled"]
    /\ UNCHANGED <<pc, mode, inbox, late, beats, asks, evicted>>

\* The process is gone; what it had sent may still be carried out.
Vanish(l) ==
    /\ Goto(l, "off")
    /\ leaving' = [leaving EXCEPT ![l] = "no"]
    /\ late' = late \cup {c \in {<<"claim", l>>, <<"release", l>>} :
                            \/ pc[l] = c[1]
                            \/ leaving[l] = "calling" /\ c[1] = "release"}
    /\ UNCHANGED <<seatVars, mode, inbox, beats, asks, evicted>>

\* process.exit(0): the release is answered, or its connection broke, while the
\* loop awaits something; or the loop asks for its next event and is told to end.
Exit(l) ==
    /\ leaving[l] # "no"
    /\ \/ pc[l] \in {"review", "release"} /\ (leaving[l] = "handled" \/ l \in Flaky)
       \/ pc[l] = "idle"
    /\ Vanish(l)

\* SIGKILL, or SIGINT without a seat.
Die(l) ==
    /\ l \in Mortal
    /\ pc[l] # "off"
    /\ Vanish(l)

\* A new listener: events pushed before it connected are not replayed.
Restart(l) ==
    /\ pc[l] = "off" /\ l \notin Gone
    /\ Goto(l, "idle")
    /\ inbox' = [inbox EXCEPT ![l] = <<>>]
    /\ mode' = [mode EXCEPT ![l] = "none"]
    /\ UNCHANGED <<seatVars, leaving, late, beats, asks, evicted>>

-----------------------------------------------------------------------------

\* POST /peer/re-review-request: connected seat holders are told.  A filter by
\* names is resolved to SSH fingerprints, which no seat holds: nobody passes it.
AskReReview(filtered) ==
    /\ asks < MaxAsks
    /\ asks' = asks + 1
    /\ inbox' = [l \in Listeners |->
                    IF Holds(l) /\ pc[l] # "off" /\ leaving[l] = "no" /\ ~filtered
                    THEN Append(inbox[l], "re-review-requested") ELSE inbox[l]]
    /\ UNCHANGED <<seatVars, pc, mode, leaving, late, beats, evicted>>

SweepTick == Sweep /\ evicted' = evicted \cup {l \in Listeners : Relies(l) /\ Silent(l)}
             /\ UNCHANGED <<pc, mode, leaving, inbox, late, beats, asks>>

ClockTick == Tick /\ UNCHANGED listenVars

Step(l) ==
    \/ Triage(l) \/ Skip(l) \/ ClaimGranted(l) \/ ClaimRejected(l)
    \/ RegisterExtra(l) \/ Fetch(l) \/ Review(l) \/ Post(l) \/ PostNot(l)
    \/ ReleaseAnswered(l)

Network(l) ==
    \/ CallBreaks(l) \/ LateClaim(l) \/ LateRelease(l) \/ LateLost(l)
    \/ SendBeat(l) \/ BeatArrives(l)

Fate(l) == Interrupt(l) \/ GoodbyeHandled(l) \/ Exit(l) \/ Die(l) \/ Restart(l)

Next ==
    \/ \E l \in Listeners : Step(l) \/ Network(l) \/ Fate(l)
    \/ \E filtered \in BOOLEAN : AskReReview(filtered)
    \/ SweepTick
    \/ ClockTick

Spec == Init /\ [][Next]_vars

\* Time passes and the sweep timer fires.  Nothing is assumed of listeners,
\* of the network or of the author.
FairSpec == Spec /\ WF_vars(ClockTick) /\ WF_vars(SweepTick)

-----------------------------------------------------------------------------

TypeOK ==
    /\ SeatsTypeOK
    /\ pc \in [Listeners -> {"idle", "claim", "register", "fetch", "review", "post",
                             "release", "off"}]
    /\ mode \in [Listeners -> {"none", "seat", "extra"}]
    /\ inbox \in [Listeners -> Seq(Events)]
    /\ leaving \in [Listeners -> {"no", "calling", "handled"}]
    /\ \A l \in Listeners : pc[l] \notin {"idle", "off"} => inbox[l] # <<>>
    /\ \A l \in Listeners : leaving[l] # "no" => pc[l] \in {"review", "post", "release", "idle"}
    /\ late \subseteq {"claim", "release"} \X Listeners
    /\ beats \subseteq Listeners
    /\ asks \in 0..MaxAsks
    /\ evicted \subseteq Listeners

\* A listener that works under a seat has it at the server, except in three
\* circumstances of its own making: it was silent for longer than the TTL, an old
\* release of its own came in late, or shutdown() (prListen.ts:885) had the seat
\* released while the review went on, until the process exits.
SeatIsBacked ==
    \A l \in Listeners : Relies(l) /\ l \notin evicted /\ leaving[l] # "handled" => Holds(l)

\* A seat whose holder no longer works under it (it posted, it crashed, or it
\* never learned that it got the seat) becomes free again.
UnusedSeatIsFreed ==
    \A l \in Listeners : (Holds(l) /\ ~Relies(l)) ~> (~Holds(l) \/ Relies(l))
=============================================================================
