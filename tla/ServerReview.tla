---------------------------- MODULE ServerReview ----------------------------
(***************************************************************************)
(* The stamp-review verb of the server: one process per ssh call, which     *)
(* authorises its caller, spends a token of the caller's bucket, reads the  *)
(* prompt, asks the model or the verdict cache, and has a root helper sign  *)
(* the approval.  The processes share server.db and the prompts directory;  *)
(* the review-signing key is minted, or its public half rewritten, at every *)
(* boot.                                                                   *)
(***************************************************************************)
EXTENDS Integers, Sequences, FiniteSets

CONSTANTS
    Calls,             \* stamp-review processes
    Operators, Members,
    Diffs, Cut,        \* Cut: what is left of a diff whose upload broke off
    Prompts, NoPrompt,
    FirstFiles,        \* bound: the prompt files to start from, <<default, own>>
    Keys, NoKey, FirstKey,
    MemberCap,         \* MAX_REVIEWS_PER_HOUR
    Hour, Retention,   \* in ticks of the clock
    MaxNow,            \* bound on the clock
    MaxCalls,          \* bound on the calls started
    MaxEvents          \* bound on what operators do meanwhile

Callers == Operators \cup Members

ASSUME ServerAssumption ==
    /\ Operators \cap Members = {}
    /\ FirstFiles \subseteq Prompts \X (Prompts \cup {NoPrompt})
    /\ Cut \notin Diffs /\ NoPrompt \notin Prompts /\ NoKey \notin Keys
    /\ FirstKey \in Keys /\ Callers # {}
    /\ {MemberCap, Hour, Retention} \subseteq Nat \ {0}
    /\ {MaxNow, MaxCalls, MaxEvents} \subseteq Nat

VARIABLES
    pc, call,      \* the control point and the locals of each process
    grants,        \* the members with a grant of the repository; others have
                   \*   one of another repository ("scoped") or none
    bucket,        \* rate_limits: tokens, in parts of 1/Hour, and their time
    verdicts,      \* server_verdicts: the rows, one at most per triple
    prompt,        \* the reviewer's default prompt file
    override,      \* the repository's own prompt file
    keyFile, pubFile, boot,
    wall,          \* the wall clock, which may be set back
    spent,         \* history: when each caller's calls were admitted
    fwd,           \* history: how far the wall clock has moved forward
    said,          \* history: what the model answered about what
    signed,        \* history: the approvals signed
    used,          \* history: the keys there have been
    calls, events

vars == <<pc, call, grants, bucket, verdicts, prompt, override, keyFile, pubFile,
          boot, wall, spent, fwd, said, signed, used, calls, events>>

server == <<bucket, verdicts>>
key == <<keyFile, pubFile, boot, used>>
clock == <<wall, fwd>>
files == <<prompt, override>>

-----------------------------------------------------------------------------
Verdicts == {"approved", "changes_requested", "denied"}

\* A response with neither the tool call nor a verdict line is confused.
Answers == Verdicts \cup {"confused"}

VerdictOf(answer) == IF answer = "confused" THEN "changes_requested" ELSE answer

NoCall == [caller |-> CHOOSE c \in Callers : TRUE, access |-> "none", diff |-> Cut,
           got |-> Cut, path |-> "none", prompt |-> NoPrompt, fp |-> NoKey,
           verdict |-> "none"]

RowFor(diff, text) == {v \in verdicts : v.diff = diff /\ v.prompt = text}

Cap(c) == IF c \in Members THEN MemberCap ELSE 5 * MemberCap

\* resolveRepoAccess: no grant at all is not the same as none that matches.
Access(c) ==
    CASE c \in Operators -> "operator"
      [] c \in Members /\ grants[c] = "granted" -> "granted"
      [] c \in Members /\ grants[c] = "none" -> "unscoped"
      [] OTHER -> "denied"

MayOverride(access) == access \in {"operator", "granted"}

\* The bucket as the next call finds it: refilled since its time, up to the cap.
Refilled(c) ==
    IF bucket[c].at = "never" THEN Cap(c) * Hour
    ELSE LET elapsed == IF wall > bucket[c].time THEN wall - bucket[c].time ELSE 0
             tokens  == bucket[c].tokens + elapsed * Cap(c)
         IN  IF tokens < Cap(c) * Hour THEN tokens ELSE Cap(c) * Hour

-----------------------------------------------------------------------------
Init ==
    /\ pc = [r \in Calls |-> "idle"]
    /\ call = [r \in Calls |-> NoCall]
    /\ grants \in [Members -> {"granted", "scoped", "none"}]
    /\ bucket = [c \in Callers |-> [at |-> "never", tokens |-> 0, time |-> 0]]
    /\ verdicts = {}
    /\ \E f \in FirstFiles : prompt = f[1] /\ override = f[2]
    /\ keyFile = FirstKey /\ pubFile = keyFile /\ used = {keyFile} /\ boot = "up"
    /\ wall = 0 /\ fwd = 0 /\ calls = 0 /\ events = 0
    /\ spent = [c \in Callers |-> <<>>]
    /\ said = {} /\ signed = {}

Goto(r, from, to) == pc[r] = from /\ pc' = [pc EXCEPT ![r] = to]

\* The locals of a process after its step; one that ends forgets them.
Keep(r, locals) == call' = [call EXCEPT ![r] = IF pc'[r] = "idle" THEN NoCall ELSE locals]

\* A client asks for a review: resolveAuth finds its user, resolveRepoAccess
\* what the user is granted.  Processes are named in the order of a CHOOSE.
Start(r, c, d) ==
    /\ calls < MaxCalls /\ boot = "up"
    /\ pc[r] = "idle" /\ r = CHOOSE q \in Calls : pc[q] = "idle"
    /\ Goto(r, "idle", IF Access(c) = "denied" THEN "idle" ELSE "allowed")
    /\ Keep(r, [NoCall EXCEPT !.caller = c, !.access = Access(c), !.diff = d])
    /\ calls' = calls + 1
    /\ UNCHANGED <<grants, server, files, key, clock, spent, said, signed, events>>

\* A slip of TakeToken: a part of a token will do.
TakeTokenPart(r) ==
    LET c       == call[r].caller
        tokens  == Refilled(c)
        allowed == tokens > 0
    IN  /\ Goto(r, "allowed", IF allowed THEN "admitted" ELSE "idle")
        /\ Keep(r, call[r])
        /\ bucket' = [bucket EXCEPT ![c] = [at |-> "call", tokens |-> 0, time |-> wall]]
        /\ spent' = IF allowed THEN [spent EXCEPT ![c] = Append(@, fwd)] ELSE spent
        /\ UNCHANGED <<grants, verdicts, files, key, clock, said, signed, calls, events>>

\* checkAndConsumeToken: one BEGIN IMMEDIATE transaction.
TakeToken(r) ==
    LET c       == call[r].caller
        tokens  == Refilled(c)
        allowed == tokens >= Hour
    IN  /\ Goto(r, "allowed", IF allowed THEN "admitted" ELSE "idle")
        /\ Keep(r, call[r])
        /\ bucket' = [bucket EXCEPT ![c] =
               [at |-> "call", tokens |-> IF allowed THEN tokens - Hour ELSE tokens,
                time |-> wall]]
        /\ spent' = IF allowed THEN [spent EXCEPT ![c] = Append(@, fwd)] ELSE spent
        /\ UNCHANGED <<grants, verdicts, files, key, clock, said, signed,
                       calls, events>>

\* The diff arrives whole, or cut short, over the size or garbled.  Then the
\* path: is there a prompt of the repository's own?
ReadDiff(r) ==
    \E got \in {call[r].diff, Cut} :
        LET own == override # NoPrompt IN
        /\ Goto(r, "admitted", IF \/ got # call[r].diff
                                  \/ own /\ ~MayOverride(call[r].access)
                               THEN "idle" ELSE "picked")
        /\ Keep(r, [call[r] EXCEPT !.got = got, !.path = IF own THEN "own" ELSE "default"])
        /\ UNCHANGED <<grants, server, files, key, clock, spent, said, signed, calls, events>>

\* The path chosen is read later: the file may be another, or none, by then.
ReadPrompt(r) ==
    LET text == IF call[r].path = "own" THEN override ELSE prompt IN
    /\ Goto(r, "picked", IF text = NoPrompt THEN "idle" ELSE "prompted")
    /\ Keep(r, [call[r] EXCEPT !.prompt = text])
    /\ UNCHANGED <<grants, server, files, key, clock, spent, said, signed, calls, events>>

\* The public half of the signing key, then the cache.
LookUp(r) ==
    LET rows == RowFor(call[r].got, call[r].prompt) IN
    /\ Goto(r, "prompted", IF pubFile = NoKey THEN "idle"
                           ELSE IF rows = {} THEN "asking" ELSE "judged")
    /\ Keep(r, [call[r] EXCEPT !.fp = pubFile,
                   !.verdict = IF rows = {} THEN "none" ELSE (CHOOSE v \in rows : TRUE).verdict])
    /\ UNCHANGED <<grants, server, files, key, clock, spent, said, signed, calls, events>>

\* The model answers in time ...
Answer(r, answer) ==
    /\ Goto(r, "asking", "answered")
    /\ Keep(r, [call[r] EXCEPT !.verdict = VerdictOf(answer)])
    /\ said' = said \cup {<<call[r].got, call[r].prompt, answer>>}
    /\ UNCHANGED <<grants, server, files, key, clock, spent, signed, calls, events>>

\* A slip of NoAnswer: the failure is taken for an answer, and cached.
NoAnswerCached(r) ==
    /\ Goto(r, "asking", "answered")
    /\ Keep(r, [call[r] EXCEPT !.verdict = "changes_requested"])
    /\ UNCHANGED <<grants, server, files, key, clock, spent, said, signed, calls, events>>

\* A slip of NoAnswer: no timeout, so that nothing but an answer ends the call.
NoAnswerUntimed(r) == pc[r] = "asking" /\ FALSE /\ UNCHANGED vars

\* ... or the call fails, at REVIEW_TIMEOUT_MS at the latest: nothing is cached.
NoAnswer(r) ==
    /\ Goto(r, "asking", "judged")
    /\ Keep(r, [call[r] EXCEPT !.verdict = "changes_requested"])
    /\ UNCHANGED <<grants, server, files, key, clock, spent, said, signed, calls, events>>

\* recordServerVerdict: the latest of the evaluations that raced wins.
Record(r) ==
    /\ Goto(r, "answered", "judged")
    /\ verdicts' = (verdicts \ RowFor(call[r].got, call[r].prompt)) \cup
           {[diff |-> call[r].got, prompt |-> call[r].prompt,
             verdict |-> call[r].verdict, at |-> wall]}
    /\ UNCHANGED <<call, grants, bucket, files, key, clock, spent, said, signed,
                   calls, events>>

\* A slip of HelperSigns: it does not look at the key that the approval names.
HelperSignsAny(fp) == {keyFile} \ {NoKey}

\* stamp-sign-approval signs under the key on disk, if the approval names it.
HelperSigns(fp) == IF keyFile = fp THEN {keyFile} ELSE {}

Approval(r, k) ==
    [diff |-> call[r].got, prompt |-> call[r].prompt, verdict |-> call[r].verdict,
     server_key_id |-> call[r].fp, key |-> k]

Sign(r) ==
    LET under == HelperSigns(call[r].fp) IN
    /\ Goto(r, "judged", "idle")
    /\ signed' = signed \cup {Approval(r, k) : k \in under}
    /\ Keep(r, call[r])
    /\ UNCHANGED <<grants, server, files, key, clock, spent, said, calls, events>>

-----------------------------------------------------------------------------
(* Meanwhile *)

Running == {r \in Calls : pc[r] # "idle"}

Grant(c, g) ==
    /\ events < MaxEvents /\ events' = events + 1
    /\ grants[c] # g /\ grants' = [grants EXCEPT ![c] = g]
    /\ UNCHANGED <<pc, call, server, files, key, clock, spent, said, signed, calls>>

\* The prompts directory is refreshed: one file of it or the other is new.
EditPrompts(p, o) ==
    /\ events < MaxEvents /\ events' = events + 1
    /\ prompt' = p /\ override' = o /\ files' # files /\ (p = prompt \/ o = override)
    /\ UNCHANGED <<pc, call, grants, server, key, clock, spent, said, signed, calls>>

\* sweepServerRetention.
Sweep ==
    /\ \E v \in verdicts : v.at < wall - Retention
    /\ verdicts' = {v \in verdicts : v.at >= wall - Retention}
    /\ UNCHANGED <<pc, call, grants, bucket, files, key, clock, spent, said, signed,
                   calls, events>>

Tick ==
    /\ wall < MaxNow /\ fwd < MaxNow
    /\ wall' = wall + 1 /\ fwd' = fwd + 1
    /\ UNCHANGED <<pc, call, grants, server, files, key, spent, said, signed,
                   calls, events>>

SetBack ==
    /\ events < MaxEvents /\ events' = events + 1
    /\ wall' = wall - 1
    /\ UNCHANGED <<pc, call, grants, server, files, key, fwd, spent, said, signed, calls>>

\* An operator removes the key, for the next boot to mint another, or puts
\* one of their own in its place.
ReplaceKey(k) ==
    /\ events < MaxEvents /\ events' = events + 1
    /\ boot = "up" /\ k \notin used /\ keyFile' = k /\ used' = used \cup ({k} \ {NoKey})
    /\ UNCHANGED <<pc, call, grants, server, files, pubFile, boot, clock, spent,
                   said, signed, calls>>

\* The container stops, a boot under way or not; its processes with it.
Crash ==
    /\ events < MaxEvents /\ events' = events + 1
    /\ boot \in {"up", "keyed"} /\ boot' = "down"
    /\ pc' = [r \in Calls |-> "idle"]
    /\ call' = [r \in Calls |-> NoCall]
    /\ UNCHANGED <<grants, server, files, keyFile, pubFile, used, clock, spent,
                   said, signed, calls>>

\* ensureReviewSigningKey: the private file first, then its public half.
BootKey ==
    /\ boot = "down" /\ boot' = "keyed"
    /\ IF keyFile # NoKey THEN UNCHANGED <<keyFile, used>>
       ELSE \E k \in Keys \ used : keyFile' = k /\ used' = used \cup {k}
    /\ UNCHANGED <<pc, call, grants, server, files, pubFile, clock, spent, said,
                   signed, calls, events>>

BootPub ==
    /\ boot = "keyed" /\ boot' = "up"
    /\ pubFile' = keyFile
    /\ UNCHANGED <<pc, call, grants, server, files, keyFile, used, clock, spent, said,
                   signed, calls, events>>

Step(r) ==
    \/ TakeToken(r) \/ ReadDiff(r) \/ ReadPrompt(r) \/ LookUp(r) \/ NoAnswer(r)
    \/ Record(r) \/ Sign(r)

Next ==
    \/ \E r \in Calls, c \in Callers, d \in Diffs : Start(r, c, d)
    \/ \E r \in Calls : Step(r)
    \/ \E r \in Calls, answer \in Answers : Answer(r, answer)
    \/ \E c \in Members, g \in {"granted", "scoped", "none"} : Grant(c, g)
    \/ \E p \in Prompts, o \in Prompts \cup {NoPrompt} : EditPrompts(p, o)
    \/ Sweep \/ Tick \/ SetBack
    \/ \E k \in Keys \cup {NoKey} : ReplaceKey(k)
    \/ Crash \/ BootKey \/ BootPub

\* A process runs on; ssh sends the diff and closes; the timeouts of the model
\* call and of the helper expire.  Nothing makes the model answer.
Fairness == \A r \in Calls : WF_vars(Step(r))

Spec == Init /\ [][Next]_vars /\ Fairness
-----------------------------------------------------------------------------
\* Whatever a caller's processes do at once, and however the clock is set, no
\* stretch of time admits more of its calls than a full bucket and what the
\* clock's forward movement refilled (checkAndConsumeToken).
WithinCap ==
    \A c \in Callers : \A i, j \in DOMAIN spent[c] : i <= j =>
        (j - i + 1) * Hour <= Cap(c) * (Hour + spent[c][j] - spent[c][i])

\* A verdict is signed, from the cache or not, only about the diff and the prompt
\* that the model gave it on; a call that failed or timed out may be signed as
\* changes_requested but is never frozen into the cache, where each row is an
\* answer of the model on just that diff and that prompt.
SaidByTheModel ==
    /\ \A a \in signed : a.verdict # "changes_requested" =>
           <<a.diff, a.prompt, a.verdict>> \in said
    /\ \A v \in verdicts : \E answer \in Answers :
           /\ VerdictOf(answer) = v.verdict
           /\ <<v.diff, v.prompt, answer>> \in said

\* Nothing is ever signed under a key other than the one that the approval
\* names, with keys replaced and boots crashed in between.
SignedUnderItsKey == \A a \in signed : a.key = a.server_key_id

\* Every call ends, with a model that never answers too.
CallEnds == \A r \in Calls : r \in Running ~> r \notin Running
=============================================================================
