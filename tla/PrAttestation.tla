---------------------------- MODULE PrAttestation ----------------------------
(***************************************************************************)
(* PR mode: an operator's `stamp attest` folds the server's approvals and   *)
(* the admins' counter-signatures into an envelope kept under the patch-id  *)
(* of the branch, which `stamp verify-pr` looks up from the pull request's  *)
(* own diff.  The admins sign beforehand, each in a clone of their own, with *)
(* `stamp admin sign`, and share their signatures through a notes ref.  The *)
(* target moves meanwhile, the branch is amended and rebased, and clones    *)
(* are behind.  A span of commits is the set of the edits it makes: rebased *)
(* and squashed, the edits, and so the patch-id, stay.                      *)
(***************************************************************************)
EXTENDS Integers, Sequences, FiniteSets, SequencesExt

CONSTANTS
    Clones, Operator,       \* one clone per person; a person's key is its clone
    Heads, Parent,          \* commits of the branch; 0 .. MaxMain are the target's
    MaxMain,
    HeadEdit, MainEdit,     \* the edit that each commit makes
    Activation,             \* edits that the whitelist of --migrate-existing accepts
    Reviewers, Names,       \* Names: the reviewers in alphabetical order
    ServerKeys, FirstKey,
    Configs,                \* what .stamp/ may say, commit by commit of the target
    NoHead, NoEnvelope, NoRow,
    FirstHeads,             \* bound: the branch to start from
    Guesses,                \* bound: the targets that admins name or guess
    MaxReviews, MaxEvents   \* bounds on reviews, and on signatures, moves and pushes

Targets == 0 .. MaxMain

ASSUME PrAssumption ==
    /\ Operator \in Clones /\ FirstKey \in ServerKeys
    /\ {MaxMain, MaxReviews, MaxEvents} \subseteq Nat
    /\ NoHead \notin Heads /\ Heads \cap Int = {}
    /\ Parent \in [Heads -> Heads \cup Targets]
    /\ IsFiniteSet(Clones) /\ FirstHeads \subseteq Heads

\* What the rule of a branch and a path rule consist of.
RuleType ==
    [covers : SUBSET ({HeadEdit[h] : h \in Heads} \cup {MainEdit[t] : t \in 1 .. MaxMain}),
     min : Nat, bypass : BOOLEAN]

ASSUME ConfigAssumption ==
    \A cfg \in Configs :
        /\ DOMAIN cfg = Targets
        /\ \A t \in Targets : cfg[t].required \in Seq(Reviewers) /\ cfg[t].rules \in Seq(RuleType)

VARIABLES
    config,      \* the rules and keys at each commit of the target
    main, seen,  \* the target's tip, and as each clone last fetched it
    head, prHead,    \* the branch in the operator's checkout, and on the remote
    rows,        \* server approvals in each clone's state.db
    notes, shared,   \* refs/notes/stamp-trust-anchor-sigs, in the clones and remotely
    refs, published, \* refs/stamp/attestations/<patch-id>, locally and remotely
    mint,        \* the attest under way
    serverKey,
    said,        \* history: what the server said of which edits
    agreed,      \* history: which edits each admin signed
    reviews, events

vars == <<config, main, seen, head, prHead, rows, notes, shared, refs, published,
          mint, serverKey, said, agreed, reviews, events>>

-----------------------------------------------------------------------------
(* Commits and what they change *)

\* The commits of the branch up to h, and where they leave the target.
Own[h \in Heads] == {h} \cup IF Parent[h] \in Heads THEN Own[Parent[h]] ELSE {}

Fork[h \in Heads] == IF Parent[h] \in Heads THEN Fork[Parent[h]] ELSE Parent[h]

\* Histories have no cycle: a branch leaves the target somewhere.
ASSUME HistoryAssumption == \A h \in Heads : h \in Own[h] /\ Fork[h] \in Targets

\* resolveDiff: the merge base of a tip of the target and a head.
Base(tip, h) == IF tip < Fork[h] THEN tip ELSE Fork[h]

\* git diff b...h.
Edits(b, h) ==
    IF b \in Heads THEN {HeadEdit[k] : k \in Own[h] \ Own[b]}
    ELSE {HeadEdit[k] : k \in Own[h]} \cup {MainEdit[t] : t \in b + 1 .. Fork[h]}

\* A slip of PatchId: the patch-id of the last commit.
PatchIdOfHead(b, h) == {HeadEdit[h]}

\* patchIdForSpan.
PatchId(b, h) == Edits(b, h)

PatchIds == {PatchId(b, h) : b \in Targets, h \in Heads}

ConfigAt(b) == config[IF b \in Heads THEN Fork[b] ELSE b]

\* The path rules that a span of commits is subject to.
RulesFor(b, h) ==
    {rule \in ToSet(ConfigAt(b).rules) : rule.covers \cap Edits(b, h) # {}}

\* Which is the first rule to cover these edits, if any does.
FirstCovering(rules, edits) ==
    {i \in DOMAIN rules :
        /\ edits \subseteq rules[i].covers
        /\ \A j \in 1 .. i - 1 : ~(edits \subseteq rules[j].covers)}

RowOf(c, r, b, h) ==
    LET mine == {row \in rows[c] : row.by = r /\ row.base = b /\ row.head = h}
    IN  IF mine = {} THEN NoRow ELSE CHOOSE row \in mine : TRUE

\* verifyServerSignature: by a server key that the manifest of the base lists.
Verifies(row) == row.key \in ConfigAt(row.base).servers

-----------------------------------------------------------------------------
(* What is signed *)

\* A slip of Payload: neither the base nor the diff is in what admins sign.
PayloadOfHead(b, h, target, approvals, signer) ==
    [base |-> 0, head |-> h, target |-> target, approvals |-> approvals,
     signer |-> signer, marker |-> {}]

\* trustAnchorSigningBytes: the payload without its counter-signatures.  The
\* diff, the manifest's snapshot and the schema follow from the base, the head
\* and the target.
Payload(b, h, target, approvals, signer) ==
    [base |-> b, head |-> h, target |-> target, approvals |-> approvals,
     signer |-> signer, marker |-> {}]

\* bootstrapAdminSigningBytes: the same, with the activated paths.
BootstrapPayload(b, h, signer) ==
    [Payload(b, h, "into", <<>>, signer) EXCEPT !.marker = Edits(b, h)]

\* loadServerApprovals: every row that verifies, in the order of the names.
ApprovalsToSign(c, b, h) ==
    LET found == SelectSeq(Names, LAMBDA r : RowOf(c, r, b, h) # NoRow /\ Verifies(RowOf(c, r, b, h)))
    IN  [i \in DOMAIN found |-> RowOf(c, found[i], b, h)]

\* buildV3Envelope: a row for each required reviewer, in the order required.
ApprovalsToAttest(required, b, h) ==
    [i \in DOMAIN required |-> RowOf(Operator, required[i], b, h)]

Attestable(approvals) ==
    \A row \in ToSet(approvals) : row # NoRow /\ row.verdict = "approved" /\ Verifies(row)

\* collectTrustAnchorSignatures: the note's signatures by admins over the
\* payload as it is now; one per key, whichever comes first.
Collected(b, h, payload) ==
    {s \in notes[Operator][h].sigs : s.by \in ConfigAt(b).admins /\ s.over = payload}

\* detectAdminSigShortage: what is in the note is counted, verified or not.
Shortage(b, h) ==
    \E rule \in RulesFor(b, h) : Cardinality(notes[Operator][h].sigs) < rule.min

Enough(rules, sigs) ==
    \A rule \in rules : Cardinality({s.by : s \in sigs}) >= rule.min

NoNote == [target |-> "none", sigs |-> {}]

NoMint == [at |-> "idle", base |-> 0, head |-> NoHead, required |-> <<>>, tip |-> 0,
           admins |-> {}]

Init ==
    /\ config \in Configs
    /\ main = 0 /\ seen = [c \in Clones |-> 0]
    /\ head \in FirstHeads /\ Fork[head] = 0 /\ prHead = NoHead
    /\ rows = [c \in Clones |-> {}]
    /\ notes = [c \in Clones |-> [h \in Heads |-> NoNote]]
    /\ shared = [h \in Heads |-> NoNote]
    /\ refs = [p \in PatchIds |-> NoEnvelope] /\ published = refs
    /\ mint = NoMint /\ serverKey = FirstKey
    /\ said = {} /\ agreed = {} /\ reviews = 0 /\ events = 0

-----------------------------------------------------------------------------
(* Reviews and counter-signatures *)

\* stamp review --diff into..branch against the review server, in a clone: the
\* approval verifies against the keys at the base, or is not recorded.
Review(c, r, verdict) ==
    LET b == Base(seen[c], head)
        row == [by |-> r, base |-> b, head |-> head, verdict |-> verdict,
                key |-> serverKey, at |-> reviews]
    IN  /\ reviews < MaxReviews /\ reviews' = reviews + 1
        /\ Verifies(row)
        /\ rows' = [rows EXCEPT ![c] = (@ \ {RowOf(c, r, b, head)}) \cup {row}]
        /\ said' = said \cup {<<r, Edits(b, head), verdict>>}
        /\ UNCHANGED <<config, main, seen, head, prHead, notes, shared, refs,
                       published, mint, serverKey, agreed, events>>

Signed(note, a) == \E s \in note.sigs : s.by = a

\* The commit is under a rule, the caller an admin at its first parent, without
\* a signature in a note that is, if there is one, about the same target.
MaySign(a, target) ==
    LET note == notes[a][head] IN
    /\ RulesFor(Parent[head], head) # {}
    /\ a \in ConfigAt(Parent[head]).admins
    /\ ~Signed(note, a) /\ note.target \in {"none", target}

SignedBy(a, target, signer) ==
    [by |-> a, over |-> Payload(Parent[head], head, target,
                                ApprovalsToSign(a, Parent[head], head), signer)]

\* stamp admin sign --pending: over the commit's first parent, for the target
\* that is named or guessed and the operator that is named or taken to be the
\* signer.  Who has signed before is left alone.
AdminSign(a, target, signer) ==
    /\ events < MaxEvents /\ events' = events + 1
    /\ MaySign(a, target)
    /\ notes' = [notes EXCEPT ![a][head] =
           [target |-> target, sigs |-> @.sigs \cup {SignedBy(a, target, signer)}]]
    /\ agreed' = agreed \cup {<<a, Edits(Parent[head], head)>>}
    /\ UNCHANGED <<config, main, seen, head, prHead, rows, shared, refs, published,
                   mint, serverKey, said, reviews>>

-----------------------------------------------------------------------------
(* stamp attest, in the operator's clone *)

\* The rule is that of the checkout; the span is resolved against the target as
\* the clone knows it.  --require-admin-sigs-met stops here if the note is short.
Resolve(migrate, requireMet) ==
    LET rule == config[Fork[head]] IN
    /\ mint.at = "idle"
    /\ (requireMet /\ ~migrate) => ~Shortage(Base(seen[Operator], head), head)
    /\ mint' = [at |-> IF migrate THEN "migrate" ELSE "resolved",
                base |-> Base(seen[Operator], head), head |-> head,
                required |-> rule.required, admins |-> rule.admins, tip |-> 0]
    /\ UNCHANGED <<config, main, seen, head, prHead, rows, notes, shared, refs,
                   published, serverKey, said, agreed, reviews, events>>

\* The tip of the target is read later.
ReadTip ==
    /\ mint.at \in {"resolved", "migrate"}
    /\ mint' = [mint EXCEPT !.at = IF @ = "migrate" THEN "bootstrap" ELSE "server",
                            !.tip = seen[Operator]]
    /\ UNCHANGED <<config, main, seen, head, prHead, rows, notes, shared, refs,
                   published, serverKey, said, agreed, reviews, events>>

\* writeAttestationRef, if there is an envelope to write.
Write(ok, payload, sigs) ==
    /\ refs' = IF ~ok THEN refs
               ELSE [refs EXCEPT ![PatchId(mint.base, mint.head)] =
                         [payload |-> payload, sigs |-> sigs, tip |-> mint.tip]]
    /\ mint' = NoMint
    /\ UNCHANGED <<config, main, seen, head, prHead, rows, notes, shared, published,
                   serverKey, said, agreed, reviews, events>>

\* A slip of MintServer: the signatures are counted, not verified.
MintServerRaw ==
    LET b == mint.base
        h == mint.head
        approvals == ApprovalsToAttest(mint.required, b, h)
        sigs == IF RulesFor(b, h) = {} THEN {} ELSE notes[Operator][h].sigs
    IN  /\ mint.at = "server"
        /\ Write(Attestable(approvals) /\ Enough(RulesFor(b, h), sigs),
                 Payload(b, h, "into", approvals, Operator), sigs)

\* buildV3Envelope.
MintServer ==
    LET b == mint.base
        h == mint.head
        approvals == ApprovalsToAttest(mint.required, b, h)
        payload == Payload(b, h, "into", approvals, Operator)
        rules == RulesFor(b, h)
        sigs == IF rules = {} THEN {} ELSE Collected(b, h, payload)
    IN  /\ mint.at = "server"
        /\ Write(/\ Attestable(approvals) /\ Enough(rules, sigs)
                 /\ rules = {} \/ notes[Operator][h].sigs # {},
                 payload, sigs)

\* buildBootstrapEnvelope: the first rule that covers the whole span decides.
MintBootstrap ==
    LET b == mint.base
        h == mint.head
        rules == config[b].rules
        payload == BootstrapPayload(b, h, Operator)
    IN  /\ mint.at = "bootstrap"
        /\ Write(/\ Edits(b, h) \subseteq Activation
                 /\ \E i \in FirstCovering(rules, Edits(b, h)) : rules[i].bypass /\ rules[i].min <= 1
                 /\ Operator \in mint.admins,
                 payload, {[by |-> Operator, over |-> payload]})

\* pushBranchAndAttestation: HEAD as it is now and the ref, or neither.
PushBoth(p) ==
    /\ events < MaxEvents /\ events' = events + 1
    /\ refs[p] # NoEnvelope /\ prHead \in {NoHead} \cup Own[head]
    /\ prHead' = head /\ published' = [published EXCEPT ![p] = refs[p]]
    /\ UNCHANGED <<config, main, seen, head, rows, notes, shared, refs, mint,
                   serverKey, said, agreed, reviews>>

-----------------------------------------------------------------------------
(* Meanwhile *)

Aside == <<config, rows, refs, published, mint, said, agreed, reviews>>

Advance ==
    /\ events < MaxEvents /\ events' = events + 1
    /\ main < MaxMain /\ main' = main + 1
    /\ UNCHANGED <<Aside, seen, head, prHead, notes, shared, serverKey>>

Fetch(c) ==
    /\ seen[c] # main /\ seen' = [seen EXCEPT ![c] = main]
    /\ UNCHANGED <<Aside, main, head, prHead, notes, shared, serverKey, events>>

\* The branch gets a commit, is amended, or is rebased.
MoveBranch(h) ==
    /\ events < MaxEvents /\ events' = events + 1
    /\ h # head /\ Fork[h] <= main /\ head' = h
    /\ UNCHANGED <<Aside, main, seen, prHead, notes, shared, serverKey>>

\* The branch alone is pushed, by force if it must.
PushBranch ==
    /\ events < MaxEvents /\ events' = events + 1
    /\ prHead # head /\ prHead' = head
    /\ UNCHANGED <<Aside, main, seen, head, notes, shared, serverKey>>

RotateServerKey(k) ==
    /\ events < MaxEvents /\ events' = events + 1
    /\ k # serverKey /\ serverKey' = k
    /\ UNCHANGED <<Aside, main, seen, head, prHead, notes, shared>>

\* A clone's notes ref and the remote's: only a fast-forward goes through.
Within(older, newer) == \A h \in Heads : older[h].sigs \subseteq newer[h].sigs

PushNotes(c) ==
    /\ notes[c] # shared /\ Within(shared, notes[c]) /\ shared' = notes[c]
    /\ UNCHANGED <<Aside, main, seen, head, prHead, notes, serverKey, events>>

FetchNotes(c) ==
    /\ notes[c] # shared /\ Within(notes[c], shared) /\ notes' = [notes EXCEPT ![c] = shared]
    /\ UNCHANGED <<Aside, main, seen, head, prHead, shared, serverKey, events>>

Next ==
    \/ \E c \in Clones, r \in Reviewers, v \in {"approved", "changes_requested"} : Review(c, r, v)
    \/ \E a \in Clones, target \in Guesses, s \in Clones :
           s \in {a, Operator} /\ AdminSign(a, target, s)
    \/ \E migrate, requireMet \in BOOLEAN : Resolve(migrate, requireMet)
    \/ ReadTip \/ MintServer \/ MintBootstrap
    \/ \E p \in PatchIds : PushBoth(p)
    \/ Advance \/ PushBranch
    \/ \E c \in Clones : Fetch(c) \/ PushNotes(c) \/ FetchNotes(c)
    \/ \E h \in Heads : MoveBranch(h)
    \/ \E k \in ServerKeys : RotateServerKey(k)

Spec == Init /\ [][Next]_vars
-----------------------------------------------------------------------------
(* stamp verify-pr, a reading of the remote's refs *)

\* The rule of the base counts admins that its manifest names.
Signers(e) == {s.by : s \in {t \in e.sigs : t.over = e.payload}} \cap ConfigAt(e.payload.base).admins

\* verifyV3Envelope: the phases of the pre-receive hook, but for the merge's
\* structure, against the base that the envelope names.
ServerPhases(e) ==
    LET b == e.payload.base
        h == e.payload.head
        approvals == e.payload.approvals
        rules == RulesFor(b, h)
    IN  /\ e.payload.target = "into"
        /\ e.payload.signer \in ConfigAt(b).admins \cup ConfigAt(b).operators
        /\ \A r \in ToSet(ConfigAt(b).required) :
               \E row \in ToSet(approvals) : row.by = r /\ row.verdict = "approved"
        /\ \A row \in ToSet(approvals) :
               row.base = b /\ row.head = h /\ row.key \in ConfigAt(b).servers
        /\ ConfigAt(b).checks = {}
        /\ {s.by : s \in e.sigs} = Signers(e)
        /\ \A rule \in rules :
               /\ Cardinality(Signers(e)) >= rule.min
               /\ rule.bypass \/ approvals # <<>>

\* verifyBootstrapEnvelope: the operator's signature, and one admin's ...
BootstrapSigned(e) ==
    LET b == e.payload.base IN
    /\ e.payload.signer \in config[b].admins \cup config[b].operators
    /\ Cardinality(e.sigs) = 1 /\ {s.by : s \in e.sigs} = Signers(e)

\* ... and here the first rule of each path decides.
BootstrapCovered(e) ==
    LET rules == config[e.payload.base].rules IN
    \A x \in e.payload.marker : \E i \in FirstCovering(rules, {x}) : rules[i].bypass

BootstrapPhases(e) ==
    /\ e.payload.approvals = <<>> /\ e.payload.target = "into"
    /\ e.payload.marker = Edits(e.payload.base, e.payload.head)
    /\ e.payload.marker \subseteq Activation
    /\ BootstrapSigned(e) /\ BootstrapCovered(e)

Phases(e) == IF e.payload.marker = {} THEN ServerPhases(e) ELSE BootstrapPhases(e)

StrictBase(e) == ConfigAt(e.payload.base).strict => e.tip = main

\* runVerifyPr: the check of the pull request is green.
Green ==
    /\ prHead # NoHead
    /\ LET e == published[PatchId(Base(main, prHead), prHead)] IN
       e # NoEnvelope /\ Phases(e) /\ StrictBase(e)

PrEdits == Edits(Base(main, prHead), prHead)

GreenEnvelope == published[PatchId(Base(main, prHead), prHead)]
-----------------------------------------------------------------------------
\* A pull request is green only if the server approved all the edits it makes,
\* for each reviewer that the envelope's base requires, or if all it makes is
\* an activation: rebases, amendments and a stale clone notwithstanding.
GreenIsReviewed ==
    Green => \/ PrEdits \subseteq Activation
             \/ \A r \in ToSet(ConfigAt(GreenEnvelope.payload.base).required) :
                    <<r, PrEdits, "approved">> \in said

\* A green pull request under a path rule was signed by as many admins as the
\* rule wants, and what each of them signed is all that the pull request does.
GreenIsCounterSigned ==
    Green => \A rule \in ToSet(ConfigAt(GreenEnvelope.payload.base).rules) :
        (rule.covers \cap PrEdits # {} /\ GreenEnvelope.payload.marker = {}) =>
            Cardinality({a \in ConfigAt(GreenEnvelope.payload.base).admins :
                             <<a, PrEdits>> \in agreed}) >= rule.min

\* What attest writes the verifier takes, where the two read the same rule: the
\* checkout's is the base's, it wants no checks, the operator is listed, and
\* a rule that wants reviews has reviewers.
SameRule(b, h) ==
    LET rule == config[b] IN
    /\ rule = config[Fork[h]] /\ rule.checks = {}
    /\ Operator \in rule.admins \cup rule.operators
    /\ rule.required # <<>> \/ \A r \in ToSet(rule.rules) : r.bypass
    /\ Len(rule.rules) = 1

MintedIsAccepted ==
    \A p \in PatchIds :
        LET e == refs[p] IN
        (e # NoEnvelope /\ SameRule(e.payload.base, e.payload.head)) => Phases(e)
=============================================================================
