------------------------- MODULE PrAttestationProofs -------------------------
(***************************************************************************)
(* What a green pull request stands for, for any repository, any number of *)
(* clones and any order of commits, rebases, fetches, reviews and          *)
(* signatures.  The argument: an envelope lies under the patch-id of the   *)
(* span that it names; its rows and signatures are what the server said    *)
(* and what admins agreed to, of exactly that span; and the verifier looks *)
(* it up under the patch-id of the pull request, so that the edits are the *)
(* same even when the commits are not.                                     *)
(***************************************************************************)
EXTENDS PrAttestation, FiniteSetTheorems, TLAPS

Typed ==
    /\ config \in Configs
    /\ main \in Targets /\ seen \in [Clones -> Targets]
    /\ head \in Heads /\ prHead \in Heads \cup {NoHead}
    /\ DOMAIN rows = Clones
    /\ DOMAIN notes = Clones /\ \A c \in Clones : DOMAIN notes[c] = Heads
    /\ DOMAIN shared = Heads
    /\ DOMAIN refs = PatchIds /\ DOMAIN published = PatchIds
    /\ \A x \in agreed : x[1] \in Clones

\* The server said what a row has.
IsSaid(row) == <<row.by, Edits(row.base, row.head), row.verdict>> \in said

\* The admin agreed to what a signature is over; the one that an operator makes
\* for an activation, or over nothing, is its own.
IsAgreed(s) ==
    s.over.marker = {} /\ Edits(s.over.base, s.over.head) # {} =>
        <<s.by, Edits(s.over.base, s.over.head)>> \in agreed

RowsAreSaid == \A c \in Clones : \A row \in rows[c] : IsSaid(row)

NotesAreAgreed ==
    /\ \A c \in Clones, h \in Heads : \A s \in notes[c][h].sigs : IsAgreed(s)
    /\ \A h \in Heads : \A s \in shared[h].sigs : IsAgreed(s)

\* What attest has resolved: the rule of the checkout, for a span of commits.
MintIsResolved ==
    mint.at # "idle" =>
        /\ mint.base \in Targets /\ mint.head \in Heads
        /\ mint.required = config[Fork[mint.head]].required
        /\ mint.admins = config[Fork[mint.head]].admins

\* An envelope under patch-id p.
InOrder(p, e) ==
    /\ e.payload.base \in Targets /\ e.payload.head \in Heads
    /\ p = PatchId(e.payload.base, e.payload.head)
    /\ \A row \in ToSet(e.payload.approvals) : IsSaid(row)
    /\ \A s \in e.sigs : IsAgreed(s)
    /\ SameRule(e.payload.base, e.payload.head) => Phases(e)

EnvelopesInOrder ==
    \A p \in PatchIds :
        /\ refs[p] # NoEnvelope => InOrder(p, refs[p])
        /\ published[p] # NoEnvelope => InOrder(p, published[p])

\* The inductive invariant.
AttestInv ==
    Typed /\ RowsAreSaid /\ NotesAreAgreed /\ MintIsResolved /\ EnvelopesInOrder

-----------------------------------------------------------------------------
(* Spans of commits *)

\* The merge base of a tip of the target and a head is a commit of the target.
LEMMA BaseIsATarget ==
    ASSUME NEW t \in Targets, NEW h \in Heads
    PROVE  Base(t, h) \in Targets /\ Base(t, h) \notin Heads
BY HistoryAssumption, PrAssumption DEF Base, Targets

\* A head makes at least one edit after a commit of the target.
LEMMA EditsAreThere ==
    ASSUME NEW b \in Targets, NEW h \in Heads
    PROVE  Edits(b, h) # {} /\ Edits(b, h) \in PatchIds
<1>1. b \notin Heads
  BY PrAssumption DEF Targets
<1>2. HeadEdit[h] \in Edits(b, h)
  BY <1>1, HistoryAssumption DEF Edits
<1> QED BY <1>2 DEF PatchIds, PatchId

\* The rule at a commit of the target.
LEMMA ConfigIsThere ==
    ASSUME Typed, NEW b \in Targets
    PROVE  /\ ConfigAt(b) = config[b]
           /\ config[b].required \in Seq(Reviewers) /\ config[b].rules \in Seq(RuleType)
           /\ ToSet(config[b].rules) \subseteq RuleType
<1>1. b \notin Heads
  BY PrAssumption DEF Targets
<1>2. config[b].required \in Seq(Reviewers) /\ config[b].rules \in Seq(RuleType)
  BY ConfigAssumption DEF Typed
<1>3. ToSet(config[b].rules) \subseteq RuleType
  BY <1>2 DEF ToSet
<1> QED BY <1>1, <1>2, <1>3 DEF ConfigAt

-----------------------------------------------------------------------------
(* The steps *)

\* What was said and agreed stays so, and the history of the rules is fixed.
LEMMA HistoryGrows ==
    ASSUME [Next]_vars
    PROVE  said \subseteq said' /\ agreed \subseteq agreed' /\ config' = config
BY DEF vars, Next, Review, AdminSign, Resolve, ReadTip, MintServer, MintBootstrap, Write, PushBoth,
       Advance, Fetch, MoveBranch, PushBranch, RotateServerKey, PushNotes, FetchNotes, Aside

\* So what holds of a row, a signature or an envelope goes on to hold.
LEMMA StaysInOrder ==
    ASSUME [Next]_vars
    PROVE  /\ \A row : IsSaid(row) => IsSaid(row)'
           /\ \A s : IsAgreed(s) => IsAgreed(s)'
           /\ \A p, e : InOrder(p, e) => InOrder(p, e)'
<1>1. said \subseteq said' /\ agreed \subseteq agreed' /\ config' = config
  BY HistoryGrows
<1>2. \A row : IsSaid(row) => IsSaid(row)'
  BY <1>1 DEF IsSaid
<1>3. \A s : IsAgreed(s) => IsAgreed(s)'
  BY <1>1 DEF IsAgreed
<1>4. \A e : Phases(e) => Phases(e)'
  BY <1>1, SMTT(30) DEF Phases, ServerPhases, BootstrapPhases, BootstrapSigned, BootstrapCovered,
              Signers, RulesFor, ConfigAt
<1>5. \A b, h : SameRule(b, h)' => SameRule(b, h)
  BY <1>1 DEF SameRule
<1>6. \A p, e : InOrder(p, e) => InOrder(p, e)'
  BY <1>2, <1>3, <1>4, <1>5 DEF InOrder
<1> QED BY <1>2, <1>3, <1>6

\* The row that is found is a row.
LEMMA RowIsFound ==
    ASSUME NEW c, NEW r, NEW b, NEW h, RowOf(c, r, b, h) # NoRow
    PROVE  /\ RowOf(c, r, b, h) \in rows[c]
           /\ RowOf(c, r, b, h).by = r
           /\ RowOf(c, r, b, h).base = b /\ RowOf(c, r, b, h).head = h
<1> DEFINE mine == {row \in rows[c] : row.by = r /\ row.base = b /\ row.head = h}
<1>1. mine # {} /\ RowOf(c, r, b, h) = CHOOSE row \in mine : TRUE
  BY DEF RowOf
<1>2. RowOf(c, r, b, h) \in mine
  BY <1>1
<1> QED BY <1>2

\* Types, and where the branch and the target are.
LEMMA TypedStays == AttestInv /\ Next => Typed'
<1> SUFFICES ASSUME AttestInv, Next PROVE Typed'
  OBVIOUS
<1> USE DEF AttestInv, Typed
<1>1. ASSUME NEW c \in Clones, NEW r \in Reviewers, NEW v, Review(c, r, v) PROVE Typed'
  BY <1>1 DEF Review
<1>2. ASSUME NEW a \in Clones, NEW target, NEW s, AdminSign(a, target, s) PROVE Typed'
  BY <1>2 DEF AdminSign
<1>3. ASSUME NEW migrate, NEW requireMet, Resolve(migrate, requireMet) PROVE Typed'
  BY <1>3 DEF Resolve
<1>4. CASE ReadTip
  BY <1>4 DEF ReadTip
<1>5. CASE MintServer \/ MintBootstrap
  BY <1>5 DEF MintServer, MintBootstrap, Write
<1>6. ASSUME NEW p \in PatchIds, PushBoth(p) PROVE Typed'
  BY <1>6 DEF PushBoth
<1>7. CASE Advance \/ PushBranch \/ (\E c \in Clones : Fetch(c)) \/ (\E h \in Heads : MoveBranch(h))
           \/ (\E k \in ServerKeys : RotateServerKey(k))
  <2>1. CASE Advance
    BY <2>1, PrAssumption DEF Advance, Aside, Targets
  <2>2. CASE ~Advance
    BY <1>7, <2>2 DEF PushBranch, Fetch, MoveBranch, RotateServerKey, Aside
  <2> QED BY <2>1, <2>2
<1>8. ASSUME NEW c \in Clones, PushNotes(c) \/ FetchNotes(c) PROVE Typed'
  <2>1. CASE PushNotes(c)
    BY <1>8, <2>1 DEF PushNotes, Aside
  <2>2. CASE FetchNotes(c)
    BY <1>8, <2>2 DEF FetchNotes, Aside
  <2> QED BY <1>8, <2>1, <2>2
<1> QED BY <1>1, <1>2, <1>3, <1>4, <1>5, <1>6, <1>7, <1>8 DEF Next

\* A row comes from a review, which the server has given.
LEMMA RowsStaySaid == AttestInv /\ Next => RowsAreSaid'
<1> SUFFICES ASSUME AttestInv, Next, NEW d \in Clones, NEW row \in rows'[d]
             PROVE  IsSaid(row)'
  BY DEF RowsAreSaid
<1>0. DOMAIN rows = Clones
  BY DEF AttestInv, Typed
<1>1. CASE row \in rows[d]
  BY <1>1, StaysInOrder DEF AttestInv, RowsAreSaid
<1>2. ASSUME NEW c \in Clones, NEW r \in Reviewers, NEW v, Review(c, r, v), row \notin rows[d]
      PROVE  IsSaid(row)'
  <2> DEFINE b == Base(seen[c], head)
             new == [by |-> r, base |-> b, head |-> head, verdict |-> v,
                     key |-> serverKey, at |-> reviews]
  <2>1. /\ rows' = [rows EXCEPT ![c] = (@ \ {RowOf(c, r, b, head)}) \cup {new}]
        /\ said' = said \cup {<<r, Edits(b, head), v>>}
    BY <1>2 DEF Review
  <2> HIDE DEF b
  <2>2. row = new
    BY <1>0, <1>2, <2>1
  <2> QED BY <2>1, <2>2 DEF IsSaid
<1>3. CASE UNCHANGED rows
  BY <1>1, <1>3
<1> QED BY <1>1, <1>2, <1>3
    DEF Next, AdminSign, Resolve, ReadTip, MintServer, MintBootstrap, Write, PushBoth,
        Advance, Fetch, MoveBranch, PushBranch, RotateServerKey, PushNotes, FetchNotes, Aside

\* A signature in a note comes from admin sign, over the span it is for.
LEMMA NotesStayAgreed == AttestInv /\ Next => NotesAreAgreed'
<1> SUFFICES ASSUME AttestInv, Next PROVE NotesAreAgreed'
  OBVIOUS
<1>0. /\ DOMAIN notes = Clones /\ \A c \in Clones : DOMAIN notes[c] = Heads
      /\ NotesAreAgreed /\ \A s : IsAgreed(s) => IsAgreed(s)'
  BY StaysInOrder DEF AttestInv, Typed
<1>1. ASSUME NEW a \in Clones, NEW target, NEW signer, AdminSign(a, target, signer)
      PROVE  NotesAreAgreed'
  <2>0. PICK mine : mine = SignedBy(a, target, signer)
    OBVIOUS
  <2> DEFINE note == [target |-> target, sigs |-> notes[a][head].sigs \cup {mine}]
  <2>1. /\ notes' = [notes EXCEPT ![a][head] = note]
        /\ agreed' = agreed \cup {<<a, Edits(Parent[head], head)>>}
        /\ shared' = shared
    BY <1>1, <2>0 DEF AdminSign
  <2>2. mine.by = a /\ mine.over.base = Parent[head] /\ mine.over.head = head
    BY <2>0 DEF SignedBy, Payload
  <2>3. IsAgreed(mine)'
    BY <2>1, <2>2 DEF IsAgreed
  <2>4. ASSUME NEW c \in Clones, NEW h \in Heads, NEW s \in notes'[c][h].sigs
        PROVE  IsAgreed(s)'
    <3>1. s \in notes[c][h].sigs \/ s = mine
      BY <1>0, <2>1
    <3> QED BY <1>0, <2>3, <3>1 DEF NotesAreAgreed
  <2> QED BY <1>0, <2>1, <2>4 DEF NotesAreAgreed
<1>2. ASSUME NEW c \in Clones, PushNotes(c) \/ FetchNotes(c) PROVE NotesAreAgreed'
  <2>1. \/ shared' = notes[c] /\ notes' = notes
        \/ shared' = shared /\ notes' = [notes EXCEPT ![c] = shared]
    BY <1>2 DEF PushNotes, FetchNotes, Aside
  <2> QED BY <1>0, <2>1 DEF NotesAreAgreed
<1>3. CASE UNCHANGED <<notes, shared>>
  BY <1>0, <1>3 DEF NotesAreAgreed
<1> QED BY <1>1, <1>2, <1>3
    DEF Next, Review, Resolve, ReadTip, MintServer, MintBootstrap, Write, PushBoth,
        Advance, Fetch, MoveBranch, PushBranch, RotateServerKey, Aside

\* What attest has resolved stays so until it writes.
LEMMA MintStaysResolved == AttestInv /\ Next => MintIsResolved'
<1> SUFFICES ASSUME AttestInv, Next PROVE MintIsResolved'
  OBVIOUS
<1>0. config' = config
  BY HistoryGrows
<1>1. ASSUME NEW migrate \in BOOLEAN, NEW requireMet \in BOOLEAN, Resolve(migrate, requireMet)
      PROVE  MintIsResolved'
  <2>1. /\ mint'.base = Base(seen[Operator], head) /\ mint'.head = head
        /\ mint'.required = config[Fork[head]].required
        /\ mint'.admins = config[Fork[head]].admins
    BY <1>1 DEF Resolve
  <2>2. Operator \in Clones /\ head \in Heads /\ seen[Operator] \in Targets
    BY PrAssumption DEF AttestInv, Typed
  <2> QED BY <1>0, <2>1, <2>2, BaseIsATarget DEF MintIsResolved
<1>2. CASE ReadTip
  <2>1. /\ mint.at # "idle"
        /\ mint' = [mint EXCEPT !.at = IF @ = "migrate" THEN "bootstrap" ELSE "server",
                                !.tip = seen[Operator]]
    BY <1>2 DEF ReadTip
  <2>2. /\ mint'.base = mint.base /\ mint'.head = mint.head
        /\ mint'.required = mint.required /\ mint'.admins = mint.admins
    BY <2>1
  <2> QED BY <1>0, <2>1, <2>2 DEF AttestInv, MintIsResolved
<1>3. CASE MintServer \/ MintBootstrap
  BY <1>3 DEF MintServer, MintBootstrap, Write, NoMint, MintIsResolved
<1>4. CASE UNCHANGED mint
  BY <1>0, <1>4 DEF AttestInv, MintIsResolved
<1> QED BY <1>1, <1>2, <1>3, <1>4
    DEF Next, Review, AdminSign, PushBoth, Advance, Fetch, MoveBranch, PushBranch,
        RotateServerKey, PushNotes, FetchNotes, Aside

-----------------------------------------------------------------------------
(* Envelopes *)

\* The rule of mint is that of the base, when the two rules are the same.
LEMMA MintReadsTheRule ==
    ASSUME AttestInv, mint.at # "idle", SameRule(mint.base, mint.head)
    PROVE  LET rule == config[mint.base] IN
           /\ ConfigAt(mint.base) = rule
           /\ mint.required = rule.required /\ mint.admins = rule.admins
           /\ rule.checks = {} /\ Operator \in rule.admins \cup rule.operators
           /\ rule.required # <<>> \/ \A r \in ToSet(rule.rules) : r.bypass
           /\ Len(rule.rules) = 1
<1>1. mint.base \in Targets /\ mint.head \in Heads
  BY DEF AttestInv, MintIsResolved
<1>2. ConfigAt(mint.base) = config[mint.base]
  BY <1>1, ConfigIsThere DEF AttestInv
<1> QED BY <1>2 DEF AttestInv, MintIsResolved, SameRule

\* What buildV3Envelope writes is in order, under the id of its own span.
LEMMA ServerEnvelope ==
    ASSUME AttestInv, NEW p, mint.at = "server", NEW approvals, NEW sigs, NEW e,
           p = PatchId(mint.base, mint.head),
           approvals = ApprovalsToAttest(mint.required, mint.base, mint.head),
           e.payload = Payload(mint.base, mint.head, "into", approvals, Operator),
           e.sigs = IF RulesFor(mint.base, mint.head) = {} THEN {}
                    ELSE Collected(mint.base, mint.head, e.payload),
           Attestable(approvals), Enough(RulesFor(mint.base, mint.head), e.sigs)
    PROVE  InOrder(p, e)
<1> DEFINE b == mint.base
           h == mint.head
<1>0. /\ b \in Targets /\ h \in Heads /\ Operator \in Clones
      /\ e.payload.base = b /\ e.payload.head = h /\ e.payload.target = "into"
      /\ e.payload.approvals = approvals /\ e.payload.signer = Operator
      /\ e.payload.marker = {}
  BY PrAssumption DEF AttestInv, MintIsResolved, Payload
<1>1. DOMAIN approvals = DOMAIN mint.required
  BY DEF ApprovalsToAttest
<1>2. ASSUME NEW i \in DOMAIN mint.required
      PROVE  /\ approvals[i] \in rows[Operator] /\ approvals[i].by = mint.required[i]
             /\ approvals[i].base = b /\ approvals[i].head = h
             /\ approvals[i].verdict = "approved" /\ Verifies(approvals[i])
  <2>1. approvals[i] = RowOf(Operator, mint.required[i], b, h)
    BY <1>2 DEF ApprovalsToAttest
  <2>2. /\ approvals[i] # NoRow /\ approvals[i].verdict = "approved"
        /\ Verifies(approvals[i])
    BY <1>1, <1>2 DEF Attestable, ToSet
  <2> QED BY <2>1, <2>2, RowIsFound
<1>3. \A row \in ToSet(approvals) : IsSaid(row)
  BY <1>0, <1>1, <1>2 DEF ToSet, AttestInv, RowsAreSaid
<1>4. /\ \A s \in e.sigs : IsAgreed(s)
      /\ \A s \in e.sigs : s.by \in ConfigAt(b).admins /\ s.over = e.payload
  BY <1>0 DEF Collected, AttestInv, NotesAreAgreed
<1>5. ASSUME SameRule(b, h) PROVE Phases(e)
  <2> DEFINE rule == config[b]
  <2>1. /\ ConfigAt(b) = rule /\ mint.required = rule.required
        /\ rule.checks = {} /\ Operator \in rule.admins \cup rule.operators
        /\ rule.required # <<>> \/ \A r \in ToSet(rule.rules) : r.bypass
    BY <1>5, MintReadsTheRule
  <2>2. \A r \in ToSet(rule.required) :
           \E row \in ToSet(approvals) : row.by = r /\ row.verdict = "approved"
    <3>1. TAKE r \in ToSet(rule.required)
    <3>2. PICK i \in DOMAIN mint.required : mint.required[i] = r
      BY <2>1 DEF ToSet
    <3>3. approvals[i] \in ToSet(approvals)
      BY <1>1 DEF ToSet
    <3> QED BY <1>2, <3>2, <3>3
  <2>3. \A row \in ToSet(approvals) :
           row.base = b /\ row.head = h /\ row.key \in ConfigAt(b).servers
    BY <1>1, <1>2 DEF ToSet, Verifies
  <2>4. {s.by : s \in e.sigs} = Signers(e)
    BY <1>0, <1>4 DEF Signers
  <2>5. rule.required # <<>> => approvals # <<>>
    <3>1. rule.required \in Seq(Reviewers)
      BY <1>0, ConfigIsThere DEF AttestInv
    <3>2. rule.required # <<>> => 1 \in DOMAIN rule.required
      BY <3>1
    <3> QED BY <1>1, <2>1, <3>2
  <2>6. \A r \in RulesFor(b, h) :
           Cardinality(Signers(e)) >= r.min /\ (r.bypass \/ approvals # <<>>)
    BY <2>1, <2>4, <2>5 DEF Enough, RulesFor
  <2>7. ServerPhases(e)
    <3>1. Operator \in ConfigAt(b).admins \cup ConfigAt(b).operators /\ ConfigAt(b).checks = {}
      BY <2>1
    <3>2. \A r \in ToSet(ConfigAt(b).required) :
             \E row \in ToSet(approvals) : row.by = r /\ row.verdict = "approved"
      BY <2>1, <2>2
    <3> HIDE DEF b, h, rule
    <3> QED BY <1>0, <3>1, <3>2, <2>3, <2>4, <2>6 DEF ServerPhases
  <2> QED BY <1>0, <2>7 DEF Phases
<1> QED BY <1>0, <1>3, <1>4, <1>5 DEF InOrder

\* And so is what buildBootstrapEnvelope writes.
LEMMA BootstrapEnvelope ==
    ASSUME AttestInv, NEW p, mint.at = "bootstrap", NEW e, NEW i,
           p = PatchId(mint.base, mint.head),
           e.payload = BootstrapPayload(mint.base, mint.head, Operator),
           e.sigs = {[by |-> Operator, over |-> e.payload]},
           Edits(mint.base, mint.head) \subseteq Activation,
           i \in FirstCovering(config[mint.base].rules, Edits(mint.base, mint.head)),
           config[mint.base].rules[i].bypass,
           Operator \in mint.admins
    PROVE  InOrder(p, e)
<1> DEFINE b == mint.base
           h == mint.head
<1>0. /\ b \in Targets /\ h \in Heads
      /\ e.payload.base = b /\ e.payload.head = h /\ e.payload.target = "into"
      /\ e.payload.approvals = <<>> /\ e.payload.signer = Operator
      /\ e.payload.marker = Edits(b, h) /\ Edits(b, h) # {}
  BY EditsAreThere DEF AttestInv, MintIsResolved, Payload, BootstrapPayload
<1>1. \A row \in ToSet(e.payload.approvals) : IsSaid(row)
  BY <1>0 DEF ToSet
<1>2. \A s \in e.sigs : IsAgreed(s)
  BY <1>0 DEF IsAgreed
<1>3. ASSUME SameRule(b, h) PROVE Phases(e)
  <2> DEFINE rule == config[b]
  <2>1. /\ ConfigAt(b) = rule /\ mint.admins = rule.admins
        /\ Operator \in rule.admins \cup rule.operators /\ Len(rule.rules) = 1
    BY <1>3, MintReadsTheRule
  <2>2. {s.by : s \in e.sigs} = Signers(e) /\ Cardinality(e.sigs) = 1
    <3>1. {t \in e.sigs : t.over = e.payload} = e.sigs /\ {s.by : s \in e.sigs} = {Operator}
      OBVIOUS
    <3>2. Operator \in ConfigAt(e.payload.base).admins
      BY <1>0, <2>1
    <3>3. Signers(e) = {Operator}
      BY <3>1, <3>2 DEF Signers
    <3> QED BY <3>1, <3>3, FS_Singleton
  <2>3. BootstrapSigned(e)
    BY <1>0, <2>1, <2>2 DEF BootstrapSigned
  <2>4. BootstrapCovered(e)
    <3>1. rule.rules \in Seq(RuleType) /\ DOMAIN rule.rules = {1}
      BY <1>0, <2>1, ConfigIsThere DEF AttestInv
    <3>2. Edits(b, h) \subseteq rule.rules[1].covers /\ rule.rules[1].bypass
      BY <3>1 DEF FirstCovering
    <3>3. \A x \in Edits(b, h) : 1 \in FirstCovering(rule.rules, {x})
      BY <3>1, <3>2 DEF FirstCovering
    <3> QED BY <1>0, <3>2, <3>3 DEF BootstrapCovered
  <2>5. BootstrapPhases(e)
    BY <1>0, <2>3, <2>4 DEF BootstrapPhases
  <2> QED BY <1>0, <2>5 DEF Phases
<1> QED BY <1>0, <1>1, <1>2, <1>3 DEF InOrder

\* Every envelope that is written, or published, is in order.
LEMMA EnvelopesStayInOrder == AttestInv /\ [Next]_vars => EnvelopesInOrder'
<1> SUFFICES ASSUME AttestInv, [Next]_vars PROVE EnvelopesInOrder'
  OBVIOUS
<1>0. /\ DOMAIN refs = PatchIds /\ DOMAIN published = PatchIds /\ EnvelopesInOrder
      /\ \A p, e : InOrder(p, e) => InOrder(p, e)'
  BY StaysInOrder DEF AttestInv, Typed
<1>1. CASE UNCHANGED <<refs, published>>
  <2>1. PICK r, k : r = refs' /\ k = published'
    OBVIOUS
  <2>2. ASSUME NEW p \in PatchIds
        PROVE  /\ r[p] # NoEnvelope => InOrder(p, r[p])'
               /\ k[p] # NoEnvelope => InOrder(p, k[p])'
    BY <1>0, <1>1, <2>1 DEF EnvelopesInOrder
  <2> QED BY <2>1, <2>2 DEF EnvelopesInOrder
<1>2. ASSUME NEW q, NEW e, InOrder(q, e), refs' = [refs EXCEPT ![q] = e], UNCHANGED published
      PROVE  EnvelopesInOrder'
  <2>1. PICK r, k : r = refs' /\ k = published
    OBVIOUS
  <2>2. ASSUME NEW p \in PatchIds
        PROVE  /\ r[p] # NoEnvelope => InOrder(p, r[p])'
               /\ k[p] # NoEnvelope => InOrder(p, k[p])'
    <3>1. r[p] = refs[p] \/ (p = q /\ r[p] = e)
      BY <1>0, <1>2, <2>1
    <3> QED BY <1>0, <1>2, <2>1, <3>1 DEF EnvelopesInOrder
  <2>3. k = published'
    BY <1>2, <2>1
  <2> QED BY <2>1, <2>2, <2>3 DEF EnvelopesInOrder
<1>3. CASE MintServer
  <2> DEFINE rules == RulesFor(mint.base, mint.head)
  <2>1. PICK approvals : approvals = ApprovalsToAttest(mint.required, mint.base, mint.head)
    OBVIOUS
  <2>2. PICK payload : payload = Payload(mint.base, mint.head, "into", approvals, Operator)
    OBVIOUS
  <2>3. PICK sigs : sigs = IF rules = {} THEN {} ELSE Collected(mint.base, mint.head, payload)
    OBVIOUS
  <2>4. PICK e : e = [payload |-> payload, sigs |-> sigs, tip |-> mint.tip]
    OBVIOUS
  <2>5. mint.at = "server" /\ published' = published
    BY <1>3 DEF MintServer, Write
  <2>6. \/ refs' = refs
        \/ /\ Attestable(approvals) /\ Enough(rules, sigs)
           /\ refs' = [refs EXCEPT ![PatchId(mint.base, mint.head)] = e]
    BY <1>3, <2>1, <2>2, <2>3, <2>4 DEF MintServer, Write
  <2>7. ASSUME Attestable(approvals), Enough(rules, sigs)
        PROVE  InOrder(PatchId(mint.base, mint.head), e)
    <3>1. e.payload = payload /\ e.sigs = sigs
      BY <2>4
    <3> QED BY <2>1, <2>2, <2>3, <2>5, <2>7, <3>1, ServerEnvelope
  <2> QED BY <1>1, <1>2, <2>5, <2>6, <2>7
<1>4. CASE MintBootstrap
  <2> DEFINE rules == config[mint.base].rules
             edits == Edits(mint.base, mint.head)
  <2>1. PICK payload : payload = BootstrapPayload(mint.base, mint.head, Operator)
    OBVIOUS
  <2>2. PICK e : e = [payload |-> payload, sigs |-> {[by |-> Operator, over |-> payload]},
                      tip |-> mint.tip]
    OBVIOUS
  <2>3. mint.at = "bootstrap" /\ published' = published
    BY <1>4 DEF MintBootstrap, Write
  <2>4. \/ refs' = refs
        \/ /\ edits \subseteq Activation /\ Operator \in mint.admins
           /\ \E i \in FirstCovering(rules, edits) : rules[i].bypass
           /\ refs' = [refs EXCEPT ![PatchId(mint.base, mint.head)] = e]
    BY <1>4, <2>1, <2>2 DEF MintBootstrap, Write
  <2>5. ASSUME edits \subseteq Activation, Operator \in mint.admins,
               NEW i \in FirstCovering(rules, edits), rules[i].bypass
        PROVE  InOrder(PatchId(mint.base, mint.head), e)
    <3>1. e.payload = payload /\ e.sigs = {[by |-> Operator, over |-> payload]}
      BY <2>2
    <3> QED BY <2>1, <2>3, <2>5, <3>1, BootstrapEnvelope
  <2> QED BY <1>1, <1>2, <2>3, <2>4, <2>5
<1>5. ASSUME NEW q \in PatchIds, PushBoth(q) PROVE EnvelopesInOrder'
  <2>1. published' = [published EXCEPT ![q] = refs[q]] /\ refs' = refs
    BY <1>5 DEF PushBoth
  <2>2. PICK r, k : r = refs /\ k = published'
    OBVIOUS
  <2>3. ASSUME NEW p \in PatchIds
        PROVE  /\ r[p] # NoEnvelope => InOrder(p, r[p])'
               /\ k[p] # NoEnvelope => InOrder(p, k[p])'
    <3>1. k[p] = published[p] \/ k[p] = refs[p]
      BY <1>0, <2>1, <2>2
    <3> QED BY <1>0, <2>2, <3>1 DEF EnvelopesInOrder
  <2>4. r = refs'
    BY <2>1, <2>2
  <2> QED BY <2>2, <2>3, <2>4 DEF EnvelopesInOrder
<1> QED BY <1>1, <1>3, <1>4, <1>5
    DEF vars, Next, Review, AdminSign, Resolve, ReadTip, Advance, Fetch, MoveBranch, PushBranch,
        RotateServerKey, PushNotes, FetchNotes, Aside

\* At first there is no envelope, no row and no signature.
LEMMA AttestAtFirst == Init => AttestInv
<1> SUFFICES ASSUME Init PROVE AttestInv
  OBVIOUS
<1> USE DEF Init
<1>1. Typed
  BY PrAssumption DEF Typed, Targets
<1>2. RowsAreSaid
  BY DEF RowsAreSaid
<1>3. NotesAreAgreed
  BY DEF NotesAreAgreed, NoNote
<1>4. MintIsResolved
  BY DEF MintIsResolved, NoMint
<1>5. EnvelopesInOrder
  BY DEF EnvelopesInOrder
<1> QED BY <1>1, <1>2, <1>3, <1>4, <1>5 DEF AttestInv

\* Every step keeps the rows, the signatures and the envelopes in order.
LEMMA AttestInvStays == AttestInv /\ [Next]_vars => AttestInv'
<1> SUFFICES ASSUME AttestInv, [Next]_vars PROVE AttestInv'
  OBVIOUS
<1>1. CASE Next
  BY <1>1, TypedStays, RowsStaySaid, NotesStayAgreed, MintStaysResolved, EnvelopesStayInOrder
     DEF AttestInv
<1>2. CASE UNCHANGED vars
  BY <1>2, EnvelopesStayInOrder
     DEF vars, AttestInv, Typed, RowsAreSaid, IsSaid, NotesAreAgreed, IsAgreed, MintIsResolved
<1> QED BY <1>1, <1>2

-----------------------------------------------------------------------------
(* Green pull requests *)

\* The envelope that the verifier finds is of the edits that the request makes.
LEMMA GreenIsInOrder ==
    ASSUME AttestInv, Green
    PROVE  /\ Phases(GreenEnvelope)
           /\ \A row \in ToSet(GreenEnvelope.payload.approvals) : IsSaid(row)
           /\ \A s \in GreenEnvelope.sigs : IsAgreed(s)
           /\ GreenEnvelope.payload.base \in Targets
           /\ Edits(GreenEnvelope.payload.base, GreenEnvelope.payload.head) = PrEdits
           /\ PrEdits # {}
<1>1. prHead \in Heads /\ main \in Targets /\ Base(main, prHead) \in Targets
  BY BaseIsATarget DEF AttestInv, Typed, Green
<1>2. PatchId(Base(main, prHead), prHead) \in PatchIds /\ PrEdits # {}
  BY <1>1, EditsAreThere DEF PatchId, PrEdits
<1>3. InOrder(PatchId(Base(main, prHead), prHead), GreenEnvelope)
  BY <1>2 DEF Green, GreenEnvelope, AttestInv, EnvelopesInOrder
<1>4. Phases(GreenEnvelope)
  BY DEF Green, GreenEnvelope
<1> QED BY <1>2, <1>3, <1>4 DEF InOrder, PatchId, PrEdits

\* A green pull request had all its edits approved by the server, for every
\* reviewer that the base requires, or is an activation: for any history of
\* commits, amendments, rebases and stale clones, since the envelope is found
\* by the edits themselves.
THEOREM GreenWasReviewed == Spec => []GreenIsReviewed
<1>1. AttestInv => GreenIsReviewed
  <2> SUFFICES ASSUME AttestInv, Green PROVE GreenIsReviewed
    BY DEF GreenIsReviewed
  <2> DEFINE e == GreenEnvelope
  <2>1. CASE e.payload.marker = {}
    <3>1. ServerPhases(e)
      BY <2>1, GreenIsInOrder DEF Phases
    <3>2. ASSUME NEW r \in ToSet(ConfigAt(e.payload.base).required)
          PROVE  <<r, PrEdits, "approved">> \in said
      <4>1. PICK row \in ToSet(e.payload.approvals) : row.by = r /\ row.verdict = "approved"
        BY <3>1, <3>2 DEF ServerPhases
      <4>2. row.base = e.payload.base /\ row.head = e.payload.head
        BY <3>1, <4>1 DEF ServerPhases
      <4> QED BY <4>1, <4>2, GreenIsInOrder DEF IsSaid
    <3> QED BY <3>2 DEF GreenIsReviewed
  <2>2. CASE e.payload.marker # {}
    <3>1. BootstrapPhases(e)
      BY <2>2, GreenIsInOrder DEF Phases
    <3> QED BY <3>1, GreenIsInOrder DEF BootstrapPhases, GreenIsReviewed
  <2> QED BY <2>1, <2>2
<1> QED BY AttestAtFirst, AttestInvStays, <1>1, PTL DEF Spec

\* Under a path rule, a green pull request has as many admins as the rule wants
\* who each signed exactly the edits that it makes.
THEOREM GreenWasCounterSigned == Spec => []GreenIsCounterSigned
<1>1. AttestInv => GreenIsCounterSigned
  <2> SUFFICES ASSUME AttestInv, Green,
                      NEW rule \in ToSet(ConfigAt(GreenEnvelope.payload.base).rules),
                      rule.covers \cap PrEdits # {}, GreenEnvelope.payload.marker = {}
               PROVE  Cardinality({a \in ConfigAt(GreenEnvelope.payload.base).admins :
                                      <<a, PrEdits>> \in agreed}) >= rule.min
    BY DEF GreenIsCounterSigned
  <2> DEFINE e == GreenEnvelope
             agreeing == {a \in ConfigAt(e.payload.base).admins : <<a, PrEdits>> \in agreed}
  <2>1. rule \in RulesFor(e.payload.base, e.payload.head) /\ rule.min \in Nat
    <3>1. ConfigAt(e.payload.base) = config[e.payload.base]
          /\ ToSet(config[e.payload.base].rules) \subseteq RuleType
      BY GreenIsInOrder, ConfigIsThere DEF AttestInv
    <3>2. rule \in RuleType
      BY <3>1
    <3> QED BY <3>2, GreenIsInOrder DEF RulesFor, RuleType
  <2>2. Cardinality(Signers(e)) >= rule.min
    <3>1. ServerPhases(e)
      BY GreenIsInOrder DEF Phases
    <3> QED BY <2>1, <3>1 DEF ServerPhases
  <2>3. Signers(e) \subseteq agreeing
    BY GreenIsInOrder DEF Signers, IsAgreed
  <2>4. agreeing \subseteq Clones
    BY DEF AttestInv, Typed
  <2>5. IsFiniteSet(agreeing)
    BY <2>4, PrAssumption, FS_Subset
  <2>6. Cardinality(Signers(e)) <= Cardinality(agreeing) /\ Cardinality(agreeing) \in Nat
        /\ Cardinality(Signers(e)) \in Nat
    BY <2>3, <2>5, FS_Subset, FS_CardinalityType
  <2> QED BY <2>1, <2>2, <2>6
<1> QED BY AttestAtFirst, AttestInvStays, <1>1, PTL DEF Spec

\* What stamp attest writes, stamp verify-pr accepts, wherever the checkout's
\* rule is the base's: the two commands compute the same from the same commits,
\* whenever the target, the branch or the server's key moved in between.
THEOREM MintedEnvelopesAreAccepted == Spec => []MintedIsAccepted
<1>1. AttestInv => MintedIsAccepted
  BY DEF AttestInv, EnvelopesInOrder, InOrder, MintedIsAccepted
<1> QED BY AttestAtFirst, AttestInvStays, <1>1, PTL DEF Spec
=============================================================================
