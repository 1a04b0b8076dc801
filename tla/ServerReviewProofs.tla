------------------------- MODULE ServerReviewProofs -------------------------
(***************************************************************************)
(* The review server, for any number of calls, callers, keys and prompts,   *)
(* any cap and any clock.                                                   *)
(*                                                                          *)
(* WithinCap is about pairs of admissions in the past; the bucket knows     *)
(* neither.  What a step can rely on is Funded: everything admitted since   *)
(* call i, what is in the bucket and what the next call will refill are     *)
(* together within what the cap allows from call i on.                      *)
(***************************************************************************)
EXTENDS ServerReview, TLAPS

PcType == {"idle", "allowed", "admitted", "picked", "prompted", "asking", "answered", "judged"}

CallType ==
    [caller : Callers, access : {"none", "operator", "granted", "unscoped"},
     diff : Diffs \cup {Cut}, got : Diffs \cup {Cut}, path : {"none", "own", "default"},
     prompt : Prompts \cup {NoPrompt}, fp : Keys \cup {NoKey},
     verdict : Verdicts \cup {"none"}]

RowType ==
    [diff : Diffs \cup {Cut}, prompt : Prompts \cup {NoPrompt}, verdict : Verdicts, at : Int]

BucketType == [at : {"never", "call"}, tokens : Nat, time : Int]

Typed ==
    /\ pc \in [Calls -> PcType]
    /\ call \in [Calls -> CallType]
    /\ bucket \in [Callers -> BucketType]
    /\ verdicts \subseteq RowType
    /\ wall \in Int /\ fwd \in Nat
    /\ spent \in [Callers -> Seq(Nat)]
    /\ prompt \in Prompts /\ override \in Prompts \cup {NoPrompt}
    /\ keyFile \in Keys \cup {NoKey} /\ pubFile \in Keys \cup {NoKey}

\* How long the bucket has not been refilled.
Elapsed(c) == IF wall > bucket[c].time THEN wall - bucket[c].time ELSE 0

\* What the calls from i on cost, and the time from which they may be paid for.
Cost(c, i) == (Len(spent[c]) - i + 1) * Hour
Since(c, i) == Hour + fwd - spent[c][i]

Funded ==
    \A c \in Callers :
        /\ bucket[c].at = "never" => spent[c] = <<>>
        /\ \A i \in DOMAIN spent[c] :
              Cost(c, i) + bucket[c].tokens + Cap(c) * Elapsed(c) <= Cap(c) * Since(c, i)

\* The model answered so, or with what counts for it.
Answered(d, p, v) ==
    \E answer \in Answers : VerdictOf(answer) = v /\ <<d, p, answer>> \in said

\* What a call holds between the answer and the signature is what was said.
CallsAreSaid ==
    \A r \in Calls :
        /\ pc[r] = "answered" => Answered(call[r].got, call[r].prompt, call[r].verdict)
        /\ pc[r] = "judged" =>
              \/ call[r].verdict = "changes_requested"
              \/ <<call[r].got, call[r].prompt, call[r].verdict>> \in said

IInv == Typed /\ Funded /\ WithinCap /\ CallsAreSaid /\ SaidByTheModel /\ SignedUnderItsKey

-----------------------------------------------------------------------------
(* Arithmetic of the bucket *)

\* Caps are positive numbers.
LEMMA CapType == \A c \in Callers : Cap(c) \in Nat \ {0}
BY ServerAssumption DEF Cap

\* Products and differences of numbers are numbers: the solver is slow with them.
LEMMA ProductIsNat == \A m, n \in Nat : m * n \in Nat
OBVIOUS

\* Likewise of a sum and a difference.
LEMMA DifferenceIsInt == \A l, m, n \in Int : l + m - n \in Int
OBVIOUS

\* One more unit of time, of a call or of the clock, in a product.
LEMMA OneMore == \A m, n \in Int : (m + 1) * n = m * n + n /\ n * (m + 1) = n * m + n
OBVIOUS

\* Refilling never exceeds the full bucket, nor what has elapsed.
LEMMA RefilledFacts ==
    ASSUME Typed, NEW c \in Callers
    PROVE  /\ Refilled(c) \in Nat
           /\ Refilled(c) <= Cap(c) * Hour
           /\ bucket[c].at # "never" =>
                 Refilled(c) <= bucket[c].tokens + Cap(c) * Elapsed(c)
<1>1. Cap(c) \in Nat /\ Hour \in Nat /\ Cap(c) * Hour \in Nat
  BY CapType, ProductIsNat, ServerAssumption
<1>2. bucket[c].tokens \in Nat /\ bucket[c].time \in Int /\ wall \in Int
  BY DEF Typed, BucketType
<1>3. Elapsed(c) \in Nat
  BY <1>2 DEF Elapsed
<1>4. Elapsed(c) * Cap(c) \in Nat /\ Elapsed(c) * Cap(c) = Cap(c) * Elapsed(c)
  BY <1>1, <1>3, ProductIsNat
<1>5. Refilled(c) =
        IF bucket[c].at = "never" THEN Cap(c) * Hour
        ELSE IF bucket[c].tokens + Elapsed(c) * Cap(c) < Cap(c) * Hour
             THEN bucket[c].tokens + Elapsed(c) * Cap(c) ELSE Cap(c) * Hour
  BY DEF Refilled, Elapsed
<1> QED BY <1>1, <1>2, <1>4, <1>5

\* A tick may refill, which it lets through as well; less time refills less.
LEMMA TickArithmetic ==
    ASSUME NEW k \in Int, NEW cap \in Nat, NEW e \in Nat, NEW f \in Int, NEW d \in Nat,
           k + cap * e <= cap * f, d = e \/ d = e + 1
    PROVE  k + cap * d <= cap * (f + 1)
<1>1. cap * (e + 1) = cap * e + cap /\ cap * (f + 1) = cap * f + cap
  BY OneMore
<1>2. cap * e \in Int /\ cap * f \in Int
  OBVIOUS
<1> QED BY <1>1, <1>2

\* A clock that is set back by one earns the bucket no more.
LEMMA SetBackArithmetic ==
    ASSUME NEW k \in Int, NEW cap \in Nat, NEW e \in Nat, NEW f \in Int, NEW d \in Nat,
           k + cap * e <= cap * f, d = e \/ e = d + 1
    PROVE  k + cap * d <= cap * f
<1>1. cap * (d + 1) = cap * d + cap
  BY OneMore
<1>2. cap * d \in Int /\ cap * f \in Int
  OBVIOUS
<1> QED BY <1>1, <1>2

\* The parts of Funded are numbers.
LEMMA FundedParts ==
    ASSUME Typed, NEW c \in Callers, NEW i \in DOMAIN spent[c]
    PROVE  /\ Cap(c) \in Nat /\ Hour \in Nat \ {0} /\ fwd \in Nat /\ wall \in Int
           /\ bucket[c].tokens \in Nat /\ bucket[c].time \in Int
           /\ Elapsed(c) \in Nat
           /\ Len(spent[c]) \in Nat /\ i \in 1..Len(spent[c]) /\ spent[c][i] \in Nat
           /\ Since(c, i) \in Int
           /\ Cost(c, i) \in Nat
<1>1. /\ Cap(c) \in Nat /\ Hour \in Nat \ {0} /\ fwd \in Nat
      /\ spent[c] \in Seq(Nat) /\ bucket[c] \in BucketType /\ wall \in Int
  BY CapType, ServerAssumption DEF Typed
<1>2. bucket[c].tokens \in Nat /\ bucket[c].time \in Int
  BY <1>1 DEF BucketType
<1>3. Elapsed(c) \in Nat
  BY <1>1, <1>2 DEF Elapsed
<1>4. Len(spent[c]) \in Nat /\ i \in 1..Len(spent[c]) /\ spent[c][i] \in Nat
  BY <1>1
<1>5. Len(spent[c]) - i + 1 \in Nat /\ Since(c, i) \in Int
  <2>1. \A n \in Nat : \A k \in 1..n : n - k + 1 \in Nat
    OBVIOUS
  <2>2. \A h \in Nat \ {0}, f, k \in Nat : h + f - k \in Int
    OBVIOUS
  <2>3. Since(c, i) \in Int
    BY <1>1, <1>4, <2>2 DEF Since
  <2> QED BY <1>4, <2>1, <2>3
<1>6. Cost(c, i) \in Nat
  BY <1>1, <1>5, ProductIsNat DEF Cost
<1> QED BY <1>1, <1>2, <1>3, <1>4, <1>5, <1>6

\* The clock: a tick refills no more than it lets through later, and setting the
\* clock back refills nothing.
LEMMA ClockKeepsFunded ==
    ASSUME IInv, UNCHANGED <<bucket, spent>>,
           \/ wall' = wall + 1 /\ fwd' = fwd + 1
           \/ wall' = wall - 1 /\ fwd' = fwd
    PROVE  Funded'
<1> SUFFICES ASSUME NEW c \in Callers, NEW i \in DOMAIN spent[c]
             PROVE  Cost(c, i) + bucket[c].tokens + Cap(c) * Elapsed(c)'
                       <= Cap(c) * Since(c, i)'
  BY DEF Funded, IInv, Cap, Cost
<1>1. /\ Cap(c) \in Nat /\ fwd \in Nat /\ wall \in Int /\ Elapsed(c) \in Nat /\ Hour \in Nat
      /\ bucket[c].time \in Int /\ spent[c][i] \in Nat /\ bucket[c].tokens \in Nat
      /\ Cost(c, i) \in Nat /\ Since(c, i) \in Int
  BY FundedParts DEF IInv
<1>2. Cost(c, i) + bucket[c].tokens + Cap(c) * Elapsed(c) <= Cap(c) * Since(c, i)
  BY DEF IInv, Funded
<1>3. CASE wall' = wall + 1 /\ fwd' = fwd + 1
  <2>1. /\ Elapsed(c)' \in Nat
        /\ Elapsed(c)' = Elapsed(c) \/ Elapsed(c)' = Elapsed(c) + 1
    BY <1>1, <1>3 DEF Elapsed
  <2>2. Since(c, i)' = Since(c, i) + 1
    BY <1>1, <1>3 DEF Since
  <2>3. Cost(c, i) + bucket[c].tokens \in Int
    BY <1>1
  <2> QED BY <1>1, <1>2, <2>1, <2>2, <2>3, TickArithmetic
<1>4. CASE wall' = wall - 1 /\ fwd' = fwd
  <2>1. /\ Elapsed(c)' \in Nat
        /\ Elapsed(c)' = Elapsed(c) \/ Elapsed(c) = Elapsed(c)' + 1
    BY <1>1, <1>4 DEF Elapsed
  <2>2. Cost(c, i) + bucket[c].tokens \in Int /\ Since(c, i)' = Since(c, i)
    BY <1>1, <1>4 DEF Since
  <2> QED BY <1>1, <1>2, <2>1, <2>2, SetBackArithmetic
<1> QED BY <1>3, <1>4
\* A bucket whose refill is put in it is funded as before.
LEMMA RefillArithmetic ==
    ASSUME NEW k \in Nat, NEW t \in Nat, NEW cap \in Nat, NEW e \in Nat, NEW f \in Int,
           NEW x \in Nat, k + t + cap * e <= cap * f, x <= t + cap * e
    PROVE  k + x <= cap * f
<1>1. cap * e \in Int /\ cap * f \in Int
  OBVIOUS
<1> QED BY <1>1

\* What the bucket holds at a call, whether it is admitted or not.
LEMMA RefilledIsFunded ==
    ASSUME IInv, NEW c \in Callers, NEW i \in DOMAIN spent[c]
    PROVE  Cost(c, i) + Refilled(c) <= Cap(c) * Since(c, i)
<1>1. /\ Cap(c) \in Nat /\ Elapsed(c) \in Nat /\ bucket[c].tokens \in Nat
      /\ Cost(c, i) \in Nat /\ Since(c, i) \in Int
  BY FundedParts DEF IInv
<1>2. Cost(c, i) + bucket[c].tokens + Cap(c) * Elapsed(c) <= Cap(c) * Since(c, i)
  BY DEF IInv, Funded
<1>3. bucket[c].at # "never"
  BY DEF IInv, Funded
<1>4. Refilled(c) \in Nat /\ Refilled(c) <= bucket[c].tokens + Cap(c) * Elapsed(c)
  BY <1>3, RefilledFacts DEF IInv
<1> QED BY <1>1, <1>2, <1>4, RefillArithmetic

\* A call that is not admitted: the refill is booked.
LEMMA DeniedKeepsFunded ==
    ASSUME IInv, NEW c \in Callers, UNCHANGED <<clock, spent>>,
           bucket' = [bucket EXCEPT ![c] =
                         [at |-> "call", tokens |-> Refilled(c), time |-> wall]]
    PROVE  Funded'
<1> SUFFICES ASSUME NEW d \in Callers
             PROVE  /\ bucket'[d].at = "never" => spent[d] = <<>>
                    /\ \A i \in DOMAIN spent[d] :
                          Cost(d, i) + bucket'[d].tokens + Cap(d) * Elapsed(d)'
                              <= Cap(d) * Since(d, i)
  BY DEF Funded, Cap, Cost, Since, clock
<1>1. bucket \in [Callers -> BucketType] /\ wall \in Int /\ wall' = wall
  BY DEF IInv, Typed, clock
<1>2. CASE d # c
  <2>1. bucket'[d] = bucket[d] /\ Elapsed(d)' = Elapsed(d)
    BY <1>1, <1>2 DEF Elapsed
  <2> QED BY <2>1 DEF IInv, Funded
<1>3. CASE d = c
  <2>1. /\ bucket'[c] = [at |-> "call", tokens |-> Refilled(c), time |-> wall]
        /\ Elapsed(c)' = 0
    BY <1>1 DEF Elapsed
  <2>2. Cap(c) * 0 = 0 /\ Refilled(c) \in Nat
    BY CapType, RefilledFacts DEF IInv
  <2>3. ASSUME NEW i \in DOMAIN spent[c]
        PROVE  Cost(c, i) + Refilled(c) + Cap(c) * 0 <= Cap(c) * Since(c, i)
    <3>1. Cost(c, i) \in Nat
      BY FundedParts DEF IInv
    <3> QED BY <2>2, <3>1, RefilledIsFunded
  <2> QED BY <1>3, <2>1, <2>3
<1> QED BY <1>2, <1>3

\* A call that is admitted: what it costs is taken out of the bucket.
LEMMA AdmittedKeepsFunded ==
    ASSUME IInv, NEW c \in Callers, UNCHANGED clock, Refilled(c) >= Hour,
           spent' = [spent EXCEPT ![c] = Append(@, fwd)],
           bucket' = [bucket EXCEPT ![c] =
                         [at |-> "call", tokens |-> Refilled(c) - Hour, time |-> wall]]
    PROVE  Funded'
<1> SUFFICES ASSUME NEW d \in Callers
             PROVE  /\ bucket'[d].at = "never" => spent'[d] = <<>>
                    /\ \A i \in DOMAIN spent'[d] :
                          Cost(d, i)' + bucket'[d].tokens + Cap(d) * Elapsed(d)'
                              <= Cap(d) * Since(d, i)'
  BY DEF Funded, Cap
<1>1. /\ bucket \in [Callers -> BucketType] /\ spent \in [Callers -> Seq(Nat)]
      /\ wall \in Int /\ wall' = wall /\ fwd' = fwd /\ fwd \in Nat
  BY DEF IInv, Typed, clock
<1>2. CASE d # c
  <2>1. spent'[d] = spent[d] /\ bucket'[d] = bucket[d] /\ Elapsed(d)' = Elapsed(d)
    BY <1>1, <1>2 DEF Elapsed
  <2>2. \A i : Cost(d, i)' = Cost(d, i) /\ Since(d, i)' = Since(d, i)
    BY <1>1, <2>1 DEF Cost, Since
  <2> QED BY <2>1, <2>2 DEF IInv, Funded
<1>3. CASE d = c
  <2>1. /\ bucket'[c] = [at |-> "call", tokens |-> Refilled(c) - Hour, time |-> wall]
        /\ Elapsed(c)' = 0
    BY <1>1 DEF Elapsed
  <2>2. /\ Cap(c) \in Nat /\ Cap(c) * 0 = 0 /\ Hour \in Nat
        /\ Refilled(c) \in Nat /\ Refilled(c) <= Cap(c) * Hour /\ Cap(c) * Hour \in Nat
    BY CapType, ProductIsNat, RefilledFacts, ServerAssumption DEF IInv
  <2>3. /\ spent'[c] = Append(spent[c], fwd)
        /\ Len(spent[c]) \in Nat /\ Len(spent'[c]) = Len(spent[c]) + 1
        /\ DOMAIN spent'[c] = 1..Len(spent[c]) + 1
        /\ DOMAIN spent[c] = 1..Len(spent[c])
        /\ spent'[c][Len(spent[c]) + 1] = fwd
        /\ \A i \in 1..Len(spent[c]) : spent'[c][i] = spent[c][i]
    BY <1>1
  <2>4. ASSUME NEW i \in DOMAIN spent'[c]
        PROVE  Cost(c, i)' + (Refilled(c) - Hour) + Cap(c) * 0 <= Cap(c) * Since(c, i)'
    <3>1. CASE i = Len(spent[c]) + 1
      <4>1. Cost(c, i)' = Hour
        <5>1. Len(spent'[c]) - i + 1 = 1
          BY <2>3, <3>1
        <5> QED BY <2>2, <5>1 DEF Cost
      <4>2. Since(c, i)' = Hour
        BY <1>1, <2>2, <2>3, <3>1 DEF Since
      <4> QED BY <2>2, <4>1, <4>2
    <3>2. CASE i \in DOMAIN spent[c]
      <4>1. Cost(c, i)' = Cost(c, i) + Hour
        <5>1. Len(spent'[c]) - i + 1 = (Len(spent[c]) - i + 1) + 1 /\ Len(spent[c]) - i + 1 \in Int
          BY <2>3, <3>2
        <5> QED BY <2>2, <5>1, OneMore DEF Cost
      <4>2. Since(c, i)' = Since(c, i)
        BY <1>1, <2>3, <3>2 DEF Since
      <4>3. Cost(c, i) \in Nat /\ Since(c, i) \in Int
        BY <3>2, FundedParts DEF IInv
      <4>4. Cost(c, i) + Refilled(c) <= Cap(c) * Since(c, i)
        BY <3>2, RefilledIsFunded
      <4>5. Cost(c, i)' + (Refilled(c) - Hour) + Cap(c) * 0 = Cost(c, i) + Refilled(c)
        BY <2>2, <4>1, <4>3
      <4> QED BY <4>2, <4>4, <4>5
    <3> QED BY <2>3, <3>1, <3>2
  <2> QED BY <1>3, <2>1, <2>4
<1> QED BY <1>2, <1>3

\* An admission is within the cap with every one before it, since it is funded.
LEMMA AdmittedIsWithinCap ==
    ASSUME IInv, Funded', NEW c \in Callers, UNCHANGED clock, Refilled(c) >= Hour,
           spent' = [spent EXCEPT ![c] = Append(@, fwd)],
           bucket' = [bucket EXCEPT ![c] =
                         [at |-> "call", tokens |-> Refilled(c) - Hour, time |-> wall]]
    PROVE  WithinCap'
<1> SUFFICES ASSUME NEW d \in Callers, NEW i \in DOMAIN spent'[d], NEW j \in DOMAIN spent'[d],
                    i <= j
             PROVE  (j - i + 1) * Hour <= Cap(d) * (Hour + spent'[d][j] - spent'[d][i])
  BY DEF WithinCap, Cap
<1>1. /\ bucket \in [Callers -> BucketType] /\ spent \in [Callers -> Seq(Nat)]
      /\ wall \in Int /\ wall' = wall /\ fwd' = fwd /\ fwd \in Nat
  BY DEF IInv, Typed, clock
<1>2. CASE d # c
  BY <1>1, <1>2 DEF IInv, WithinCap
<1>3. CASE d = c
  <2>1. /\ Len(spent[c]) \in Nat /\ Len(spent'[c]) = Len(spent[c]) + 1
        /\ DOMAIN spent'[c] = 1..Len(spent[c]) + 1
        /\ DOMAIN spent[c] = 1..Len(spent[c])
        /\ spent'[c][Len(spent[c]) + 1] = fwd
        /\ \A k \in 1..Len(spent[c]) : spent'[c][k] = spent[c][k]
    BY <1>1
  <2>2. CASE j \in DOMAIN spent[c]
    <3>1. i \in DOMAIN spent[c]
      BY <1>3, <2>1, <2>2
    <3> QED BY <1>3, <2>1, <2>2, <3>1 DEF IInv, WithinCap
  <2>3. CASE j = Len(spent'[c])
    <3>1. /\ Cost(c, i)' + bucket'[c].tokens + Cap(c)' * Elapsed(c)' <= Cap(c)' * Since(c, i)'
      BY <1>3 DEF Funded
    <3>2. bucket'[c].tokens = Refilled(c) - Hour /\ Elapsed(c)' = 0 /\ Cap(c)' = Cap(c)
      BY <1>1 DEF Elapsed, Cap
    <3>3. /\ Cap(c) \in Nat /\ Cap(c) * 0 = 0 /\ Hour \in Nat /\ Refilled(c) \in Nat
      BY CapType, RefilledFacts, ServerAssumption DEF IInv
    <3>4. Cost(c, i)' = (j - i + 1) * Hour
      BY <2>3 DEF Cost
    <3>5. Since(c, i)' = Hour + spent'[c][j] - spent'[c][i]
      BY <1>1, <2>1, <2>3 DEF Since
    <3>6. Cost(c, i)' \in Int /\ Cap(c) * Since(c, i)' \in Int
      <4>1. j - i + 1 \in Int
        BY <1>3, <2>1
      <4>2. Cost(c, i)' \in Int
        BY <3>3, <3>4, <4>1
      <4>3. spent'[c][i] \in Int
        BY <1>1, <1>3, <2>1
      <4>4. Since(c, i)' \in Int
        <5>1. Hour \in Int
          BY <3>3
        <5>2. spent'[c][j] \in Int
          BY <1>1, <1>3, <2>1, <2>3
        <5>3. Hour + spent'[c][j] - spent'[c][i] \in Int
          BY <4>3, <5>1, <5>2, DifferenceIsInt, Zenon
        <5> QED BY <3>5, <5>3, Zenon
      <4> QED BY <3>3, <4>2, <4>4
    <3>7. Cost(c, i)' <= Cap(c) * Since(c, i)'
      BY <3>1, <3>2, <3>3, <3>6
    <3> QED BY <1>3, <3>4, <3>5, <3>7
  <2> QED BY <1>3, <2>1, <2>2, <2>3
<1> QED BY <1>2, <1>3

-----------------------------------------------------------------------------
(* What was said, and what was signed *)

\* The parts of the state that a call's own step leaves to others.
LEMMA BucketAside ==
    ASSUME IInv, UNCHANGED <<bucket, clock, spent>>
    PROVE  Funded' /\ WithinCap'
BY DEF IInv, Funded, WithinCap, Cost, Since, Elapsed, Cap, clock

\* Answers are never forgotten, so that what rests on them stays.
LEMMA SaidAside ==
    ASSUME IInv, said \subseteq said', verdicts' \subseteq verdicts, UNCHANGED signed
    PROVE  SaidByTheModel' /\ SignedUnderItsKey'
BY DEF IInv, SaidByTheModel, SignedUnderItsKey

\* A step of one call: it alone has to account for what it now holds.
LEMMA OneCall ==
    ASSUME IInv, said \subseteq said', NEW r \in Calls,
           \A q \in Calls \ {r} : pc'[q] = pc[q] /\ call'[q] = call[q],
           pc'[r] = "answered" => Answered(call[r].got, call[r].prompt, call[r].verdict)',
           pc'[r] = "judged" =>
              \/ call'[r].verdict = "changes_requested"
              \/ <<call'[r].got, call'[r].prompt, call'[r].verdict>> \in said'
    PROVE  CallsAreSaid'
<1> SUFFICES ASSUME NEW q \in Calls
             PROVE  /\ pc'[q] = "answered" => Answered(call[q].got, call[q].prompt, call[q].verdict)'
                    /\ pc'[q] = "judged" =>
                         \/ call'[q].verdict = "changes_requested"
                         \/ <<call'[q].got, call'[q].prompt, call'[q].verdict>> \in said'
  BY DEF CallsAreSaid
<1>1. CASE q = r
  BY <1>1
<1>2. CASE q # r
  BY <1>2 DEF IInv, CallsAreSaid, Answered
<1> QED BY <1>1, <1>2
-----------------------------------------------------------------------------
(* Types, one lemma for the steps of a call and one for what happens meanwhile *)

\* The absent call has the type of a call.
LEMMA NoCallType == NoCall \in CallType
<1>1. (CHOOSE c \in Callers : TRUE) \in Callers
  BY ServerAssumption
<1> QED BY <1>1 DEF NoCall, CallType

\* A step of one call, of which its locals are all that has to be typed.
LEMMA LocalsTyped ==
    ASSUME Typed, NEW r \in Calls, NEW s, NEW t \in PcType, NEW x \in CallType,
           Goto(r, s, t), Keep(r, x)
    PROVE  /\ pc' \in [Calls -> PcType] /\ call' \in [Calls -> CallType]
           /\ pc'[r] = t /\ (t # "idle" => call'[r] = x)
           /\ \A q \in Calls \ {r} : pc'[q] = pc[q] /\ call'[q] = call[q]
BY NoCallType DEF Typed, Goto, Keep

-----------------------------------------------------------------------------
(* One lemma for each step of a call *)

\* A call arrives, and is let in or not.
LEMMA StartStep ==
    ASSUME IInv, NEW r \in Calls, NEW c \in Callers, NEW d \in Diffs, Start(r, c, d)
    PROVE  IInv'
<1> DEFINE x == [NoCall EXCEPT !.caller = c, !.access = Access(c), !.diff = d]
<1>1. Access(c) # "denied" => x \in CallType
  BY NoCallType DEF CallType, NoCall, Access
<1> HIDE DEF x
<1>2. PICK t \in {"idle", "allowed"}, y \in CallType : Goto(r, "idle", t) /\ Keep(r, y)
  <2>1. CASE Access(c) = "denied"
    BY <2>1, NoCallType DEF Start, Goto, Keep, IInv, Typed
  <2>2. CASE Access(c) # "denied"
    BY <1>1, <2>2 DEF Start, Keep, x
  <2> QED BY <2>1, <2>2
<1>3. /\ pc' \in [Calls -> PcType] /\ call' \in [Calls -> CallType]
      /\ pc'[r] = t /\ \A q \in Calls \ {r} : pc'[q] = pc[q] /\ call'[q] = call[q]
  BY <1>2, LocalsTyped DEF IInv, PcType
<1>4. UNCHANGED <<server, files, key, clock, spent, said, signed>>
  BY DEF Start
<1>5. Typed'
  BY <1>3, <1>4 DEF IInv, Typed, server, files, key, clock
<1>6. CallsAreSaid'
  BY <1>2, <1>3, <1>4, OneCall
<1> QED BY <1>4, <1>5, <1>6, BucketAside, SaidAside DEF IInv, server

\* The bucket lets a call pass, or not.
LEMMA TakeTokenStep ==
    ASSUME IInv, NEW r \in Calls, TakeToken(r)
    PROVE  IInv'
<1> DEFINE c == call[r].caller
<1>1. c \in Callers /\ call[r] \in CallType
  BY DEF IInv, Typed, CallType
<1>2. PICK t \in {"idle", "admitted"} : Goto(r, "allowed", t) /\ Keep(r, call[r])
  BY DEF TakeToken
<1>3. /\ pc' \in [Calls -> PcType] /\ call' \in [Calls -> CallType]
      /\ pc'[r] = t /\ \A q \in Calls \ {r} : pc'[q] = pc[q] /\ call'[q] = call[q]
  BY <1>1, <1>2, LocalsTyped DEF IInv, PcType
<1>4. UNCHANGED <<verdicts, files, key, clock, said, signed>>
  BY DEF TakeToken
<1>5. CallsAreSaid' /\ SaidByTheModel' /\ SignedUnderItsKey'
  BY <1>2, <1>3, <1>4, OneCall, SaidAside
<1>6. Refilled(c) \in Nat /\ Hour \in Nat /\ wall \in Int /\ fwd \in Nat
  BY <1>1, RefilledFacts, ServerAssumption DEF IInv, Typed
<1>7. CASE Refilled(c) >= Hour
  <2>1. /\ bucket' = [bucket EXCEPT ![c] =
                         [at |-> "call", tokens |-> Refilled(c) - Hour, time |-> wall]]
        /\ spent' = [spent EXCEPT ![c] = Append(@, fwd)]
    BY <1>7 DEF TakeToken
  <2>2. Refilled(c) - Hour \in Nat
    BY <1>6, <1>7
  <2> HIDE DEF c
  <2>3. [at |-> "call", tokens |-> Refilled(c) - Hour, time |-> wall] \in BucketType
    BY <1>6, <2>2 DEF BucketType
  <2>4. bucket' \in [Callers -> BucketType]
    BY <1>1, <2>1, <2>3 DEF IInv, Typed
  <2>5. spent' \in [Callers -> Seq(Nat)]
    <3>1. spent \in [Callers -> Seq(Nat)]
      BY DEF IInv, Typed
    <3>2. Append(spent[c], fwd) \in Seq(Nat)
      BY <1>1, <1>6, <3>1
    <3> QED BY <2>1, <3>1, <3>2
  <2>6. Typed'
    BY <1>3, <1>4, <2>4, <2>5 DEF IInv, Typed, files, key, clock
  <2>7. Funded'
    BY <1>1, <1>4, <1>7, <2>1, AdmittedKeepsFunded
  <2>8. WithinCap'
    BY <1>1, <1>4, <1>7, <2>1, <2>7, AdmittedIsWithinCap
  <2> QED BY <1>5, <2>6, <2>7, <2>8 DEF IInv
<1>8. CASE ~(Refilled(c) >= Hour)
  <2>1. /\ bucket' = [bucket EXCEPT ![c] =
                         [at |-> "call", tokens |-> Refilled(c), time |-> wall]]
        /\ spent' = spent
    BY <1>8 DEF TakeToken
  <2> HIDE DEF c
  <2>2. bucket' \in [Callers -> BucketType]
    BY <1>1, <1>6, <2>1 DEF IInv, Typed, BucketType
  <2>3. Typed'
    BY <1>3, <1>4, <2>1, <2>2 DEF IInv, Typed, files, key, clock
  <2>4. Funded'
    BY <1>1, <1>4, <2>1, DeniedKeepsFunded
  <2>5. WithinCap'
    BY <2>1 DEF IInv, WithinCap, Cap
  <2> QED BY <1>5, <2>3, <2>4, <2>5 DEF IInv
<1> QED BY <1>7, <1>8

\* The steps up to the question, which say nothing yet.
LEMMA ReadStep ==
    ASSUME IInv, NEW r \in Calls, ReadDiff(r) \/ ReadPrompt(r)
    PROVE  IInv'
<1>1. PICK s \in PcType, t \in {"idle", "picked", "prompted"}, x \in CallType :
          Goto(r, s, t) /\ Keep(r, x)
  <2>1. CASE ReadDiff(r)
    <3> DEFINE x(got) == [call[r] EXCEPT !.got = got,
                            !.path = IF override # NoPrompt THEN "own" ELSE "default"]
    <3>1. PICK got \in {call[r].diff, Cut}, t \in {"idle", "picked"} :
            Goto(r, "admitted", t) /\ Keep(r, x(got))
      BY <2>1 DEF ReadDiff
    <3>2. got \in Diffs \cup {Cut} /\ call[r] \in CallType
      BY DEF IInv, Typed, CallType
    <3>3. x(got) \in CallType
      BY <3>2, ZenonT(40) DEF CallType
    <3> HIDE DEF x
    <3> QED BY <3>1, <3>3 DEF PcType
  <2>2. CASE ReadPrompt(r)
    <3> DEFINE text == IF call[r].path = "own" THEN override ELSE prompt
               x == [call[r] EXCEPT !.prompt = text]
    <3>1. text \in Prompts \cup {NoPrompt} /\ call[r] \in CallType
      BY DEF IInv, Typed
    <3>2. x \in CallType
      BY <3>1 DEF CallType
    <3>3. PICK t \in {"idle", "prompted"} : Goto(r, "picked", t) /\ Keep(r, x)
      BY <2>2 DEF ReadPrompt
    <3> HIDE DEF x
    <3> QED BY <3>2, <3>3 DEF PcType
  <2> QED BY <2>1, <2>2
<1>2. /\ pc' \in [Calls -> PcType] /\ call' \in [Calls -> CallType]
      /\ pc'[r] = t /\ \A q \in Calls \ {r} : pc'[q] = pc[q] /\ call'[q] = call[q]
  BY <1>1, LocalsTyped DEF IInv, PcType
<1>3. UNCHANGED <<server, files, key, clock, spent, said, signed>>
  BY DEF ReadDiff, ReadPrompt
<1>4. Typed'
  BY <1>2, <1>3 DEF IInv, Typed, server, files, key, clock
<1>5. CallsAreSaid'
  BY <1>1, <1>2, <1>3, OneCall
<1> QED BY <1>3, <1>4, <1>5, BucketAside, SaidAside DEF IInv, server

\* A row of the cache is as good as an answer.
LEMMA LookUpStep ==
    ASSUME IInv, NEW r \in Calls, LookUp(r)
    PROVE  IInv'
<1> DEFINE rows == RowFor(call[r].got, call[r].prompt)
           v == IF rows = {} THEN "none" ELSE (CHOOSE w \in rows : TRUE).verdict
           x == [call[r] EXCEPT !.fp = pubFile, !.verdict = v]
           t == IF pubFile = NoKey THEN "idle" ELSE IF rows = {} THEN "asking" ELSE "judged"
<1>1. Goto(r, "prompted", t) /\ Keep(r, x)
  BY DEF LookUp
<1>2. rows # {} => /\ v \in Verdicts
                   /\ Answered(call[r].got, call[r].prompt, v)
  <2> SUFFICES ASSUME rows # {} PROVE v \in Verdicts /\ Answered(call[r].got, call[r].prompt, v)
    OBVIOUS
  <2>1. PICK w \in rows : v = w.verdict
    OBVIOUS
  <2>2. w \in verdicts /\ w.diff = call[r].got /\ w.prompt = call[r].prompt
    BY <2>1 DEF RowFor
  <2> QED BY <2>1, <2>2 DEF IInv, Typed, RowType, SaidByTheModel, Answered
<1> HIDE DEF rows, v
<1>3. v \in Verdicts \cup {"none"} /\ (rows = {} => v = "none")
  BY <1>2 DEF v
<1>4. x \in CallType /\ x.got = call[r].got /\ x.prompt = call[r].prompt /\ x.verdict = v
  BY <1>3 DEF IInv, Typed, CallType
<1> HIDE DEF x
<1>5. t \in PcType
  BY DEF PcType
<1>6. /\ pc' \in [Calls -> PcType] /\ call' \in [Calls -> CallType]
      /\ pc'[r] = t /\ (t # "idle" => call'[r] = x)
      /\ \A q \in Calls \ {r} : pc'[q] = pc[q] /\ call'[q] = call[q]
  BY <1>1, <1>4, <1>5, LocalsTyped DEF IInv
<1>7. UNCHANGED <<server, files, key, clock, spent, said, signed>>
  BY DEF LookUp
<1>8. Typed'
  BY <1>6, <1>7 DEF IInv, Typed, server, files, key, clock
<1>9. pc'[r] = "judged" => \/ call'[r].verdict = "changes_requested"
                           \/ <<call'[r].got, call'[r].prompt, call'[r].verdict>> \in said'
  <2> SUFFICES ASSUME pc'[r] = "judged"
               PROVE  x.verdict = "changes_requested" \/ <<x.got, x.prompt, x.verdict>> \in said
    BY <1>6, <1>7
  <2>1. Answered(x.got, x.prompt, x.verdict)
    BY <1>2, <1>4, <1>6
  <2> QED BY <2>1 DEF Answered, VerdictOf
<1>10. CallsAreSaid'
  BY <1>6, <1>7, <1>9, OneCall
<1> QED BY <1>7, <1>8, <1>10, BucketAside, SaidAside DEF IInv, server

\* The model answers, which is history from now on, or does not.
LEMMA AnswerStep ==
    ASSUME IInv, NEW r \in Calls, NEW answer \in Answers, Answer(r, answer)
    PROVE  IInv'
<1> DEFINE x == [call[r] EXCEPT !.verdict = VerdictOf(answer)]
<1>1. /\ x \in CallType
      /\ x.got = call[r].got /\ x.prompt = call[r].prompt /\ x.verdict = VerdictOf(answer)
  BY DEF IInv, Typed, CallType, VerdictOf, Verdicts, Answers
<1>2. Goto(r, "asking", "answered") /\ Keep(r, x)
  BY DEF Answer
<1> HIDE DEF x
<1>3. /\ pc' \in [Calls -> PcType] /\ call' \in [Calls -> CallType]
      /\ pc'[r] = "answered" /\ call'[r] = x
      /\ \A q \in Calls \ {r} : pc'[q] = pc[q] /\ call'[q] = call[q]
  BY <1>1, <1>2, LocalsTyped DEF IInv, PcType
<1>4. /\ UNCHANGED <<server, files, key, clock, spent, signed>>
      /\ said \subseteq said' /\ <<x.got, x.prompt, answer>> \in said'
  BY <1>1 DEF Answer
<1>5. Typed'
  BY <1>3, <1>4 DEF IInv, Typed, server, files, key, clock
<1>6. Answered(call[r].got, call[r].prompt, call[r].verdict)'
  BY <1>1, <1>3, <1>4 DEF Answered
<1>7. CallsAreSaid'
  BY <1>3, <1>4, <1>6, OneCall
<1> QED BY <1>4, <1>5, <1>7, BucketAside, SaidAside DEF IInv, server

\* Without an answer of the model the verdict is changes_requested.
LEMMA NoAnswerStep ==
    ASSUME IInv, NEW r \in Calls, NoAnswer(r)
    PROVE  IInv'
<1> DEFINE x == [call[r] EXCEPT !.verdict = "changes_requested"]
<1>1. x \in CallType /\ x.verdict = "changes_requested"
  BY DEF IInv, Typed, CallType, Verdicts
<1>2. Goto(r, "asking", "judged") /\ Keep(r, x)
  BY DEF NoAnswer
<1> HIDE DEF x
<1>3. /\ pc' \in [Calls -> PcType] /\ call' \in [Calls -> CallType]
      /\ pc'[r] = "judged" /\ call'[r] = x
      /\ \A q \in Calls \ {r} : pc'[q] = pc[q] /\ call'[q] = call[q]
  BY <1>1, <1>2, LocalsTyped DEF IInv, PcType
<1>4. UNCHANGED <<server, files, key, clock, spent, said, signed>>
  BY DEF NoAnswer
<1>5. Typed'
  BY <1>3, <1>4 DEF IInv, Typed, server, files, key, clock
<1>6. CallsAreSaid'
  BY <1>1, <1>3, <1>4, OneCall
<1> QED BY <1>4, <1>5, <1>6, BucketAside, SaidAside DEF IInv, server
\* The row that is written is an answer.
LEMMA RecordStep ==
    ASSUME IInv, NEW r \in Calls, Record(r)
    PROVE  IInv'
<1> DEFINE row == [diff |-> call[r].got, prompt |-> call[r].prompt,
                   verdict |-> call[r].verdict, at |-> wall]
<1>1. /\ pc[r] = "answered" /\ pc' = [pc EXCEPT ![r] = "judged"] /\ UNCHANGED call
      /\ verdicts' = (verdicts \ RowFor(call[r].got, call[r].prompt)) \cup {row}
      /\ UNCHANGED <<bucket, files, key, clock, spent, said, signed>>
  BY DEF Record, Goto
<1>2. PICK answer \in Answers : /\ VerdictOf(answer) = call[r].verdict
                                /\ <<call[r].got, call[r].prompt, answer>> \in said
  BY <1>1 DEF IInv, CallsAreSaid, Answered
<1>3. call[r].verdict \in Verdicts
  BY <1>2 DEF Answers, VerdictOf, Verdicts
<1>4. row \in RowType
  BY <1>3 DEF IInv, Typed, CallType, RowType
<1>5. Typed'
  BY <1>1, <1>4 DEF IInv, Typed, PcType, files, key, clock
<1>6. CallsAreSaid'
  <2>1. /\ pc'[r] = "judged" /\ call'[r] = call[r]
        /\ \A q \in Calls \ {r} : pc'[q] = pc[q] /\ call'[q] = call[q]
    BY <1>1 DEF IInv, Typed
  <2>2. \/ call[r].verdict = "changes_requested"
        \/ <<call[r].got, call[r].prompt, call[r].verdict>> \in said
    BY <1>2 DEF VerdictOf
  <2> QED BY <1>1, <2>1, <2>2, OneCall
<1>7. SaidByTheModel' /\ SignedUnderItsKey'
  <2>1. \A v \in verdicts' : v \in verdicts \/ v = row
    BY <1>1
  <2>2. /\ row.diff = call[r].got /\ row.prompt = call[r].prompt
        /\ row.verdict = call[r].verdict
    OBVIOUS
  <2> HIDE DEF row
  <2> QED BY <1>1, <1>2, <2>1, <2>2 DEF IInv, SaidByTheModel, SignedUnderItsKey
<1> QED BY <1>1, <1>5, <1>6, <1>7, BucketAside DEF IInv

\* What is signed is what was said, under the key on disk that the approval names.
LEMMA SignStep ==
    ASSUME IInv, NEW r \in Calls, Sign(r)
    PROVE  IInv'
<1>1. /\ pc[r] = "judged" /\ call[r] \in CallType
      /\ Goto(r, "judged", "idle") /\ Keep(r, call[r])
      /\ signed' = signed \cup {Approval(r, k) : k \in HelperSigns(call[r].fp)}
      /\ UNCHANGED <<server, files, key, clock, spent, said>>
  BY DEF Sign, Goto, IInv, Typed
<1>2. /\ pc' \in [Calls -> PcType] /\ call' \in [Calls -> CallType]
      /\ pc'[r] = "idle"
      /\ \A q \in Calls \ {r} : pc'[q] = pc[q] /\ call'[q] = call[q]
  BY <1>1, LocalsTyped DEF IInv, PcType
<1>3. Typed'
  BY <1>1, <1>2 DEF IInv, Typed, server, files, key, clock
<1>4. CallsAreSaid'
  BY <1>1, <1>2, OneCall
<1>5. ASSUME NEW a \in signed'
      PROVE  /\ a.verdict # "changes_requested" => <<a.diff, a.prompt, a.verdict>> \in said
             /\ a.key = a.server_key_id
  <2>1. CASE a \in signed
    BY <2>1 DEF IInv, SaidByTheModel, SignedUnderItsKey
  <2>2. CASE \E k \in HelperSigns(call[r].fp) : a = Approval(r, k)
    <3>1. a = Approval(r, call[r].fp)
      BY <2>2 DEF HelperSigns
    <3>2. /\ a.diff = call[r].got /\ a.prompt = call[r].prompt /\ a.verdict = call[r].verdict
          /\ a.server_key_id = call[r].fp /\ a.key = call[r].fp
      BY <3>1 DEF Approval
    <3> QED BY <1>1, <3>2 DEF IInv, CallsAreSaid
  <2> QED BY <1>1, <2>1, <2>2
<1>6. SaidByTheModel' /\ SignedUnderItsKey'
  BY <1>1, <1>5 DEF IInv, SaidByTheModel, SignedUnderItsKey, server
<1> QED BY <1>1, <1>3, <1>4, <1>6, BucketAside DEF IInv, server

-----------------------------------------------------------------------------
(* What happens meanwhile *)

\* The calls are as they were, or all ended.
LEMMA CallsAside ==
    ASSUME IInv, UNCHANGED said,
           UNCHANGED <<pc, call>> \/ pc' = [r \in Calls |-> "idle"]
    PROVE  CallsAreSaid'
BY DEF IInv, CallsAreSaid, Answered

\* Administrators, the clock, the sweep and restarts touch no call but to end it.
LEMMA MeanwhileStep ==
    ASSUME IInv,
           \/ \E c \in Members, g \in {"granted", "scoped", "none"} : Grant(c, g)
           \/ \E p \in Prompts, o \in Prompts \cup {NoPrompt} : EditPrompts(p, o)
           \/ Sweep \/ Tick \/ SetBack
           \/ \E k \in Keys \cup {NoKey} : ReplaceKey(k)
           \/ Crash \/ BootKey \/ BootPub
    PROVE  IInv'
<1> USE DEF server, files, key, clock
<1>1. ASSUME NEW c \in Members, NEW g, Grant(c, g) PROVE IInv'
  BY <1>1, BucketAside, SaidAside, CallsAside DEF Grant, IInv, Typed
<1>2. ASSUME NEW p \in Prompts, NEW o \in Prompts \cup {NoPrompt}, EditPrompts(p, o) PROVE IInv'
  BY <1>2, BucketAside, SaidAside, CallsAside DEF EditPrompts, IInv, Typed
<1>3. CASE Sweep
  BY <1>3, BucketAside, SaidAside, CallsAside DEF Sweep, IInv, Typed
<1>4. CASE Tick \/ SetBack
  <2>1. Typed'
    BY <1>4 DEF Tick, SetBack, IInv, Typed
  <2>2. Funded'
    BY <1>4, ClockKeepsFunded DEF Tick, SetBack
  <2>3. WithinCap'
    BY <1>4 DEF Tick, SetBack, IInv, WithinCap, Cap
  <2>4. CallsAreSaid' /\ SaidByTheModel' /\ SignedUnderItsKey'
    BY <1>4, SaidAside, CallsAside DEF Tick, SetBack
  <2> QED BY <2>1, <2>2, <2>3, <2>4 DEF IInv
<1>5. ASSUME NEW k \in Keys \cup {NoKey}, ReplaceKey(k) PROVE IInv'
  BY <1>5, BucketAside, SaidAside, CallsAside DEF ReplaceKey, IInv, Typed
<1>6. CASE Crash
  <2>1. Typed'
    BY <1>6, NoCallType DEF Crash, IInv, Typed, PcType
  <2> QED BY <1>6, <2>1, BucketAside, SaidAside, CallsAside DEF Crash, IInv
<1>7. CASE BootKey \/ BootPub
  BY <1>7, BucketAside, SaidAside, CallsAside DEF BootKey, BootPub, IInv, Typed
<1> QED BY <1>1, <1>2, <1>3, <1>4, <1>5, <1>6, <1>7

-----------------------------------------------------------------------------

\* At first nobody has called.
LEMMA InitHolds == Init => IInv
<1> SUFFICES ASSUME Init PROVE IInv
  OBVIOUS
<1>1. Typed
  <2>1. \A c \in Callers : [at |-> "never", tokens |-> 0, time |-> 0] \in BucketType
    BY DEF BucketType
  <2>2. prompt \in Prompts /\ override \in Prompts \cup {NoPrompt}
    BY ServerAssumption DEF Init
  <2>3. spent \in [Callers -> Seq(Nat)]
    BY DEF Init
  <2> QED BY <2>1, <2>2, <2>3, NoCallType, ServerAssumption DEF Init, Typed, PcType
<1>2. Funded /\ WithinCap
  <2>1. \A c \in Callers : spent[c] = <<>> /\ DOMAIN spent[c] = {}
    BY DEF Init
  <2> QED BY <2>1 DEF Funded, WithinCap
<1>3. CallsAreSaid /\ SaidByTheModel /\ SignedUnderItsKey
  BY DEF Init, CallsAreSaid, SaidByTheModel, SignedUnderItsKey
<1> QED BY <1>1, <1>2, <1>3 DEF IInv

\* Every step keeps the inductive invariant.
LEMMA NextKeepsIInv == IInv /\ [Next]_vars => IInv'
<1> SUFFICES ASSUME IInv, [Next]_vars PROVE IInv'
  OBVIOUS
<1>1. CASE UNCHANGED vars
  <2>1. Typed'
    BY <1>1 DEF vars, IInv, Typed
  <2> QED BY <1>1, <2>1, BucketAside, SaidAside, CallsAside DEF vars, clock, IInv
<1>2. ASSUME NEW r \in Calls, Step(r) PROVE IInv'
  BY <1>2, TakeTokenStep, ReadStep, LookUpStep, NoAnswerStep, RecordStep, SignStep DEF Step
<1> QED BY <1>1, <1>2, StartStep, AnswerStep, MeanwhileStep DEF Next

\* The inductive invariant holds throughout.
LEMMA InvariantHolds == Spec => []IInv
BY InitHolds, NextKeepsIInv, PTL DEF Spec

\* checkAndConsumeToken, for any cap, any number of processes and any settings of
\* the clock: no stretch of time admits more calls than the cap allows for it.
THEOREM CapIsKept == Spec => []WithinCap
<1>1. IInv => WithinCap
  BY DEF IInv
<1> QED BY <1>1, InvariantHolds, PTL

\* Every verdict but changes_requested that is signed is one that the model gave on
\* the diff and the prompt it is signed for, and every row of the cache is an answer.
THEOREM VerdictsAreTheModels == Spec => []SaidByTheModel
<1>1. IInv => SaidByTheModel
  BY DEF IInv
<1> QED BY <1>1, InvariantHolds, PTL

\* An approval is signed under the key it names, or not at all, whatever keys and
\* boots come between the reading of the public half and the signature.
THEOREM ApprovalsNameTheirKey == Spec => []SignedUnderItsKey
<1>1. IInv => SignedUnderItsKey
  BY DEF IInv
<1> QED BY <1>1, InvariantHolds, PTL
=============================================================================
