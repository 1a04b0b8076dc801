----------------------------- MODULE PeerEvents -----------------------------
(***************************************************************************)
(* How a broadcast reaches the listeners.  The SSH verb pr-opened, a       *)
(* process of its own, registers the patch and appends an event            *)
(* (src/server/pr-opened.ts); the HTTP server polls the event table and    *)
(* writes every new event to the streams of those who may see its          *)
(* repository (src/server/http-server.ts); a re-review request is handed   *)
(* to the seat holders' listeners within the server.  Members, roles and   *)
(* grants are changed by other processes at any moment, the middle of a    *)
(* poll tick included, and a third process deletes what is past its        *)
(* retention.  There is one org; grants name its repositories.             *)
(***************************************************************************)
EXTENDS Naturals, Sequences, FiniteSets

CONSTANTS
    KeyHolders,  \* the users; each is known by its stamp key
    Callers,     \* those who broadcast
    Subscribers, \* those who run a listener
    Administered, \* those whose row and grants change
    Repos, Patches, RepoOf,
    Filters,     \* the sets of names a re-review request may be restricted to
    Operators0,  \* users enrolled as operators at first, the others as members
    Grants0,     \* repositories granted to each user at first
    PollLimit,   \* rows a tick reads at most
    Retention,   \* age past which the sweep deletes
    MaxNow, MaxRow, MaxStreams, MaxEvents, MaxAdmin,
    MaxFaults    \* failed ticks and restarts of the server

ASSUME PeerEventsAssumption ==
    /\ Callers \cup Subscribers \cup Administered \cup Operators0 \subseteq KeyHolders
    /\ Filters \subseteq SUBSET KeyHolders
    /\ RepoOf \in [Patches -> Repos] /\ Grants0 \in [KeyHolders -> SUBSET Repos]
    /\ PollLimit \in Nat \ {0} /\ MaxRow \in Nat \ {0}
    /\ \A b \in {Retention, MaxNow, MaxStreams, MaxEvents, MaxAdmin, MaxFaults} : b \in Nat

VARIABLES
    row,       \* users table: the id of a user's row, whether it is there, its role
    grants,    \* user_repo_grants of that row
    patches,   \* peer_review_patches: patch -> broadcaster, time, seat holders
    events,    \* peer_review_events
    lastId,    \* AUTOINCREMENT: the highest event id given out
    now,
    verb,      \* caller -> its pr-opened process
    up, cursor,
    streams,   \* every stream opened so far: its user and users.id
    sse,       \* sseConnections: user -> its stream, 0 for none
    listener,  \* listenerRegistry: user -> the stream its onEvent writes to
    open,      \* streams of this server whose close callback has not run
    tick,      \* the poll tick under way
    told,      \* ghost: pairs of a stream and an event the poll wrote to it
    asked,     \* ghost: pairs of a stream and a patch whose re-review was asked on it
    lawful,    \* ghost: who was entitled to what at some moment of the tick
    admin, faults

adminVars == <<row, grants>>
tableVars == <<patches, events, lastId>>
socketVars == <<streams, sse, listener, open>>
ghostVars == <<told, asked>>
boundVars == <<admin, faults>>
eventVars == <<adminVars, tableVars, now, verb, up, cursor, socketVars, tick, ghostVars, lawful,
               boundVars>>

\* The function f with v at x.
Put(f, x, v) == [y \in DOMAIN f \cup {x} |-> IF y = x THEN v ELSE f[y]]
Empty == [x \in {} |-> 0]

NoTick == [on |-> FALSE, rows |-> {}, todo |-> {}, who |-> Empty]
Idle == [at |-> "idle"]
Nobody == [u \in KeyHolders |-> 0]

\* The server has just come up, and nothing was announced yet.
EventsInit ==
    /\ \E removed \in SUBSET Administered :
         /\ row = [u \in KeyHolders |->
                     [id |-> 1, in |-> u \notin removed, op |-> u \in Operators0 \ removed]]
         /\ grants = [u \in KeyHolders |-> IF u \in removed THEN {} ELSE Grants0[u]]
    /\ patches = Empty /\ events = {} /\ lastId = 0 /\ now = 0
    /\ verb = [c \in Callers |-> Idle]
    /\ up = TRUE /\ cursor = 0 /\ streams = <<>>
    /\ sse = Nobody /\ listener = Nobody /\ open = {} /\ tick = NoTick
    /\ told = {} /\ asked = {} /\ lawful = {}
    /\ admin = 0 /\ faults = 0

-----------------------------------------------------------------------------
\* Who may see what.

Enrolled(u, id) == row[u].in /\ row[u].id = id

\* A slip of MayReceiveRepoEvents: a grant anywhere in the org will do.
MayReceiveInOrg(u, id, op, r) == op \/ (Enrolled(u, id) /\ grants[u] # {})

\* Operators see everything, others what is granted to their row.
MayReceiveRepoEvents(u, id, op, r) == op \/ (Enrolled(u, id) /\ r \in grants[u])

Entitled(u, id, r) == Enrolled(u, id) /\ (row[u].op \/ r \in grants[u])

EntitledNow == {x \in KeyHolders \X (1 .. MaxRow) \X Repos : Entitled(x[1], x[2], x[3])}

\* Users, roles and grants change under another process; a tick sees some of it.
Administer ==
    /\ admin < MaxAdmin /\ admin' = admin + 1
    /\ \E u \in Administered :
         \/ \* users remove, the grants going with the row
            /\ row[u].in
            /\ row' = [row EXCEPT ![u].in = FALSE, ![u].op = FALSE]
            /\ grants' = [grants EXCEPT ![u] = {}]
         \/ \* enrolled again, under a new id
            /\ ~row[u].in /\ row[u].id < MaxRow
            /\ row' = [row EXCEPT ![u] = [id |-> @.id + 1, in |-> TRUE, op |-> FALSE]]
            /\ UNCHANGED grants
         \/ \* users demote
            /\ row[u].op
            /\ row' = [row EXCEPT ![u].op = FALSE]
            /\ UNCHANGED grants
         \/ \* users grant, users revoke
            /\ row[u].in
            /\ \E r \in Repos : grants' = [grants EXCEPT ![u] = (@ \cup {r}) \ (@ \cap {r})]
            /\ UNCHANGED row
    /\ lawful' = IF tick.on THEN lawful \cup EntitledNow' ELSE lawful
    /\ UNCHANGED <<tableVars, now, verb, up, cursor, socketVars, tick, ghostVars, faults>>

-----------------------------------------------------------------------------
\* The SSH verb pr-opened: caller c, patch p.

verbUnchanged == UNCHANGED <<adminVars, up, cursor, socketVars, tick, ghostVars, lawful, boundVars, now>>

\* Enrolled, under its cap, well formed and signed; a known patch ends the verb.
Check(c, p) ==
    /\ verb[c] = Idle
    /\ row[c].in
    /\ p \notin DOMAIN patches
    /\ verb' = [verb EXCEPT ![c] = [at |-> "insert", patch |-> p, now |-> now]]
    /\ UNCHANGED tableVars /\ verbUnchanged

\* A slip of Insert: a patch that is there already is registered over.
InsertOver(c) ==
    /\ verb[c].at = "insert"
    /\ patches' = Put(patches, verb[c].patch, [by |-> c, at |-> verb[c].now, seats |-> {}])
    /\ verb' = [verb EXCEPT ![c].at = "append"]
    /\ UNCHANGED <<events, lastId>> /\ verbUnchanged

\* insertPatch; the primary key stops the second of two callers.
Insert(c) ==
    /\ verb[c].at = "insert"
    /\ IF verb[c].patch \in DOMAIN patches
       THEN verb' = [verb EXCEPT ![c] = Idle] /\ UNCHANGED patches
       ELSE /\ patches' = Put(patches, verb[c].patch, [by |-> c, at |-> verb[c].now, seats |-> {}])
            /\ verb' = [verb EXCEPT ![c].at = "append"]
    /\ UNCHANGED <<events, lastId>> /\ verbUnchanged

LogEvent(p, kind, by, at) ==
    /\ lastId < MaxEvents
    /\ events' = events \cup {[id |-> lastId + 1, patch |-> p, kind |-> kind, by |-> by, at |-> at]}
    /\ lastId' = lastId + 1

\* appendEvent; the fanout that follows finds an empty registry in this process.
AppendEvent(c) ==
    /\ verb[c].at = "append"
    /\ LogEvent(verb[c].patch, "pr-opened", c, verb[c].now)
    /\ verb' = [verb EXCEPT ![c] = Idle]
    /\ UNCHANGED patches /\ verbUnchanged

\* The process dies: the registered patch stays without its event.
VerbDies(c) ==
    /\ verb[c].at = "append"
    /\ verb' = [verb EXCEPT ![c] = Idle]
    /\ UNCHANGED tableVars /\ verbUnchanged

\* A seat is claimed (module Seats has the details).
ClaimSeat(u, p) ==
    /\ p \in DOMAIN patches
    /\ patches[p].by # u /\ u \notin patches[p].seats /\ Cardinality(patches[p].seats) < 2
    /\ Entitled(u, row[u].id, RepoOf[p])
    /\ patches' = [patches EXCEPT ![p].seats = @ \cup {u}]
    /\ UNCHANGED <<events, lastId, verb>> /\ verbUnchanged

\* Time passes in hours and days; a verb and a tick last seconds.
TimePasses ==
    /\ now < MaxNow /\ now' = now + 1
    /\ ~tick.on /\ \A c \in Callers : verb[c] = Idle
    /\ UNCHANGED <<adminVars, tableVars, verb, up, cursor, socketVars, tick, ghostVars, lawful, boundVars>>

\* sweepServerRetention: old events, then old patches no event refers to.
SweepRetention ==
    /\ events' = {e \in events : now - e.at <= Retention}
    /\ LET kept == {p \in DOMAIN patches : \/ now - patches[p].at <= Retention
                                           \/ \E e \in events' : e.patch = p}
       IN patches' = [p \in kept |-> patches[p]]
    /\ <<events, patches>>' # <<events, patches>>
    /\ UNCHANGED <<lastId, verb>> /\ verbUnchanged

-----------------------------------------------------------------------------
\* The HTTP server: streams.  Its thread is busy while a tick runs.

serverUnchanged == UNCHANGED <<adminVars, tableVars, now, verb, tick, lawful, admin, faults>>

\* MAX(id) of the table, 0 when it is empty.
MaxPeerReviewEventId ==
    IF events = {} THEN 0 ELSE (CHOOSE e \in events : \A f \in events : f.id <= e.id).id

\* startPeerEventsPollWorker: from the newest event on, or from 0 when it cannot be read.
Boot ==
    /\ ~up /\ up' = TRUE
    /\ cursor' \in {MaxPeerReviewEventId, 0}
    /\ UNCHANGED <<socketVars, ghostVars>> /\ serverUnchanged

\* The server is killed or redeployed, with all of its streams.
Stop ==
    /\ up /\ up' = FALSE
    /\ faults < MaxFaults /\ faults' = faults + 1
    /\ sse' = Nobody /\ listener' = Nobody /\ open' = {} /\ tick' = NoTick /\ lawful' = {}
    /\ cursor' = 0
    /\ UNCHANGED <<adminVars, tableVars, now, verb, streams, ghostVars, admin>>

\* GET /peer/events of someone with access to the org; an earlier stream of his gives way.
Connect(u) ==
    /\ up /\ ~tick.on
    /\ \E r \in Repos : Entitled(u, row[u].id, r)
    /\ Len(streams) < MaxStreams
    /\ streams' = Append(streams, [user |-> u, id |-> row[u].id])
    /\ sse' = [sse EXCEPT ![u] = Len(streams')]
    /\ listener' = [listener EXCEPT ![u] = Len(streams')]
    /\ open' = open \cup {Len(streams')}
    /\ UNCHANGED <<up, cursor, ghostVars>> /\ serverUnchanged

\* A slip of Closed: it does not ask whose stream is registered.
ClosedAny(s) ==
    /\ up /\ ~tick.on
    /\ s \in open /\ open' = open \ {s}
    /\ sse' = [sse EXCEPT ![streams[s].user] = 0]
    /\ listener' = [listener EXCEPT ![streams[s].user] = 0]
    /\ UNCHANGED <<streams, up, cursor, ghostVars>> /\ serverUnchanged

\* The close callback of a stream: soon after its end, or long after its successor came.
Closed(s) ==
    /\ up /\ ~tick.on
    /\ s \in open /\ open' = open \ {s}
    /\ IF sse[streams[s].user] = s
       THEN /\ sse' = [sse EXCEPT ![streams[s].user] = 0]
            /\ listener' = [listener EXCEPT ![streams[s].user] = 0]
       ELSE UNCHANGED <<sse, listener>>
    /\ UNCHANGED <<streams, up, cursor, ghostVars>> /\ serverUnchanged

-----------------------------------------------------------------------------
\* The HTTP server: the poll tick, which reads the tables anew at every step.

tickUnchanged == UNCHANGED <<adminVars, tableVars, now, verb, up, streams, open, asked, admin>>

Clients == {u \in KeyHolders : sse[u] # 0}

\* findPeerReviewEventsAfter: the next rows by id, of patches that are registered.
NewEvents ==
    LET after == {e \in events : e.id > cursor /\ e.patch \in DOMAIN patches}
    IN {e \in after : Cardinality({f \in after : f.id < e.id}) < PollLimit}

PollStart ==
    /\ up /\ ~tick.on
    /\ NewEvents # {}
    /\ tick' = [on |-> TRUE, rows |-> NewEvents, todo |-> Clients, who |-> Empty]
    /\ lawful' = EntitledNow
    /\ UNCHANGED <<cursor, sse, listener, told, faults>> /\ tickUnchanged

\* The row that the loop over them has come to.
AtHand(e) == e \in tick.rows /\ \A f \in tick.rows : e.id <= f.id

\* callerFor: the subscriber's row as the tick first saw it.
CallerFor(u) ==
    LET id == streams[sse[u]].id
    IN IF u \in DOMAIN tick.who THEN tick.who[u] ELSE [found |-> Enrolled(u, id), op |-> row[u].op]

\* One client of one row: closed if gone, written to if it may see the repository.
PollClient(u) ==
    LET s == sse[u]
        caller == CallerFor(u)
    IN /\ tick.on /\ u \in tick.todo
       /\ tick' = [tick EXCEPT !.todo = @ \ {u}, !.who = Put(@, u, caller)]
       /\ IF ~caller.found
          THEN /\ sse' = [sse EXCEPT ![u] = 0]
               /\ listener' = [listener EXCEPT ![u] = 0]
               /\ UNCHANGED told
          ELSE /\ \E e \in tick.rows :
                    /\ AtHand(e)
                    /\ IF MayReceiveRepoEvents(u, streams[s].id, caller.op, RepoOf[e.patch])
                       THEN told' = told \cup {<<s, e.id>>}
                       ELSE UNCHANGED told
               /\ UNCHANGED <<sse, listener>>
       /\ UNCHANGED <<cursor, lawful, faults>> /\ tickUnchanged

\* All clients of a row are done with: the cursor goes past it.
PollRow ==
    /\ tick.on /\ tick.todo = {}
    /\ \E e \in tick.rows :
         /\ AtHand(e)
         /\ cursor' = e.id
         /\ IF tick.rows = {e}
            THEN tick' = NoTick /\ lawful' = {}
            ELSE tick' = [tick EXCEPT !.rows = @ \ {e}, !.todo = Clients] /\ UNCHANGED lawful
    /\ UNCHANGED <<sse, listener, told, faults>> /\ tickUnchanged

\* A slip of PollFails: the rows that were read are taken for delivered.
PollFailsPast ==
    /\ tick.on /\ faults < MaxFaults /\ faults' = faults + 1
    /\ cursor' = (CHOOSE e \in tick.rows : \A f \in tick.rows : f.id <= e.id).id
    /\ tick' = NoTick /\ lawful' = {}
    /\ UNCHANGED <<sse, listener, told>> /\ tickUnchanged

\* A query throws (SQLITE_BUSY): the tick ends, the row at hand is polled again.
PollFails ==
    /\ tick.on /\ faults < MaxFaults /\ faults' = faults + 1
    /\ tick' = NoTick /\ lawful' = {}
    /\ UNCHANGED <<cursor, sse, listener, told>> /\ tickUnchanged

-----------------------------------------------------------------------------
\* POST /peer/re-review-request by the author.

StampKey(u) == <<"stamp", u>>
SshKey(u) == <<"ssh", u>>

\* reviewer_filter: the names that are enrolled, as the fingerprints of their SSH keys.
ResolvedFilter(names) == {SshKey(n) : n \in {m \in names : row[m].in}}

\* fanoutToSeatHoldersFiltered: the holders with a listener that the filter lets through.
SeatHoldersNotified(p, names) ==
    {h \in patches[p].seats :
        /\ names # {} => StampKey(h) \in ResolvedFilter(names)
        /\ listener[h] # 0}

\* The holders' onEvent checks their access and writes; then the request is logged.
ReReviewRequest(u, p, names) ==
    /\ up /\ ~tick.on
    /\ row[u].in
    /\ p \in DOMAIN patches /\ patches[p].by = u
    /\ names # {} => ResolvedFilter(names) # {}
    /\ LET may == {h \in KeyHolders : listener[h] # 0 /\ Entitled(h, streams[listener[h]].id, RepoOf[p])}
           notified == SeatHoldersNotified(p, names)
       IN asked' = asked \cup {<<listener[h], p>> : h \in notified \cap may}
    /\ LogEvent(p, "re-review-requested", u, now)
    /\ UNCHANGED <<adminVars, patches, now, verb, up, cursor, socketVars, tick, told, lawful, boundVars>>

-----------------------------------------------------------------------------

Poll == PollStart \/ (\E u \in KeyHolders : PollClient(u)) \/ PollRow

EventsNext ==
    \/ Administer \/ TimePasses \/ SweepRetention
    \/ \E c \in Callers : (\E p \in Patches : Check(c, p)) \/ Insert(c) \/ AppendEvent(c) \/ VerbDies(c)
    \/ \E u \in Subscribers, p \in Patches : ClaimSeat(u, p)
    \/ Boot \/ Stop
    \/ \E u \in Subscribers : Connect(u)
    \/ \E s \in open : Closed(s)
    \/ Poll \/ PollFails
    \/ \E u \in Callers, p \in Patches, names \in Filters : ReReviewRequest(u, p, names)

\* The poll timer fires again and again, and a tick runs to its end.
EventsSpec == EventsInit /\ [][EventsNext]_eventVars /\ WF_eventVars(Poll)

-----------------------------------------------------------------------------

\* A patch is announced once, and every event in the table is about a patch that is
\* registered, by the one who registered it: whatever two callers, a verb that dies and
\* the retention sweep do in between.
EventsBelongToTheirPatch ==
    /\ \A e \in events : e.patch \in DOMAIN patches /\ patches[e.patch].by = e.by
    /\ \A e, f \in events :
         (e # f /\ e.kind = "pr-opened" /\ f.kind = "pr-opened") => e.patch # f.patch

\* The newest stream of a user is the one that is served, by the poll and by the
\* requests alike, until it closes or the poll finds its user gone: the close callback
\* of a stream it replaced, whenever it runs, takes nothing away.
NewestStreamIsServed ==
    \A u \in KeyHolders :
        /\ sse[u] = listener[u]
        /\ LET own == {s \in DOMAIN streams : streams[s].user = u}
               newest == CHOOSE s \in own : \A t \in own : t <= s
           IN (own # {} /\ newest \in open)
                => (sse[u] = newest \/ (sse[u] = 0 /\ ~Enrolled(u, streams[newest].id)))

\* An event is written to a stream only if its user, as the row he connected with, may see
\* the repository of the event, at that moment or, under the poll, at one since the tick began.
OnlyTheEntitledAreTold ==
    [][/\ \A f \in told' \ told :
            \E e \in tick.rows :
               /\ e.id = f[2]
               /\ <<streams[f[1]].user, streams[f[1]].id, RepoOf[e.patch]>> \in lawful
       /\ \A f \in asked' \ asked :
            Entitled(streams[f[1]].user, streams[f[1]].id, RepoOf[f[2]])]_eventVars

\* Every event past the cursor reaches every stream that is served and whose user may see it,
\* unless the stream, the access, the event or the server goes first: no failed tick skips one.
EventsReachTheStreams ==
    \A s \in 1 .. MaxStreams, n \in 1 .. MaxEvents :
        LET Due == /\ up /\ s \in DOMAIN streams /\ sse[streams[s].user] = s
                   /\ \E e \in events :
                        /\ e.id = n
                        /\ Entitled(streams[s].user, streams[s].id, RepoOf[e.patch])
        IN (Due /\ n > cursor) ~> (<<s, n>> \in told \/ ~Due)
=============================================================================
