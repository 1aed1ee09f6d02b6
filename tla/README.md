# BitPilot, verified parts

TLA+ modules, TLC runs and TLAPS proofs about the BitPilot repository: a Rust
backend (axum, sqlx, SQLite) that teaches Bitcoin in small lessons and keeps
every learner's progress, and a React front end that walks a learner through
them. Paths below are relative to the repository (`src/` is its root).

## 1. The system

| Component | State it keeps | Operations | Talks to |
|---|---|---|---|
| Mission progress (`backend/src/routes/missions.rs`, `models/{mission,journey,participant}.rs`) | `mission_completions` (the ledger: one row per learner and lesson), `participants.current_per_tree` (a cache of the next lesson per skill tree), `streak_count`, `streak_day`, `journey_id` | complete a lesson, load a participant, change the profile | proof ledgers, outside explorers, the front end |
| Proof verification (`routes/missions.rs` from 188) | none | compare a proof with a ledger row, a block explorer or GitHub | `lightning_log`, `ecash_log`, `nostr_log`, HTTP |
| Lightning (`routes/lightning.rs`, `services/ldk_service.rs`) | `lightning_log`, `lightning_payment_audit` | create an invoice, pay one under two caps | LNbits |
| Nostr (`routes/lightning.rs`, `services/nostr_service.rs`) | `participants.nostr_pubkey`, `nostr_log` | register a key, broadcast a signed event, simulate a zap | relays |
| eCash (`routes/lightning.rs`, `services/ecash_service.rs`) | `ecash_log` | mint, redeem | a Cashu mint |
| Pairing and authentication (`auth.rs`, `routes/participants.rs`) | `participants.auth_token_hash`, `pairing_codes` | issue a code, redeem it on another device, authenticate a request | both devices of a learner |
| Sessions and workshops (`routes/participants.rs`) | `sessions`, `participants` | create, join, list, analytics, feedback | the facilitator's dashboard |
| Challenges (`routes/challenges.rs`) | `challenges` | create, list, rank | the ledger |
| Certificates (`routes/certificates.rs`, `models/badge.rs`) | `badge_certificates`, the signing key | issue once per learner and tree, verify | the ledger |
| Pruner (`services/prune.rs`) | none | delete old empty sessions | joins, challenges |
| Start-up (`state.rs`, `main.rs`) | migrations, token hashes, certificate key | migrate, back-fill, create the key | everything |
| App shell (`frontend/src/App.tsx`, `lib/auth.ts`, `lib/api.ts`) | the stored credentials, the screen | start, continue, pair, exit | the API |
| Learner view (`frontend/src/views/LearnerView.tsx`) | optimistic copies of pointers and completions; the seed phrase and secret key in localStorage | enter a tree, answer a quiz, act, submit a lesson, move on | the API |
| Catalogue (`frontend/src/lib/types.ts`, `models/mission.rs`), ranks and goals (`lib/rank.ts`, `lib/goals.ts`) | none | shuffle a quiz, derive a rank, recommend a path | learner view, gate, badges |
| Dashboards, badge cards, landing page | rendering only | | |

What is hard in it. Every handler is a sequence of separate database
statements and network calls; `main.rs` puts a timeout around each that drops
the handler at whichever `await` it has reached; a learner has several tabs and
devices; SQLite gives one writer at a time, with readers on the last commit;
the front end retries by hand and keeps optimistic state; and the catalogue of
lessons grows with every deploy while cached pointers stay in the database.
`PROJECT.json` lists each hazard with its line.

What makes each component correct:

* Progress: lessons are recorded in order, once, for ever; the pointer shown to
  a learner never locks a lesson away; answers agree with the ledger; the streak
  counts days; whoever keeps trying finishes.
* Lightning: what LNbits is told to pay was counted first, and the caps bound the count.
* Pairing: a code works once, only while it is fresh, and moves the learner to
  exactly one device.
* Nostr: what is published and logged belongs to the learner's key.
* Sessions, pruner, challenges: nobody joins a session that is gone, no joined
  session is deleted, a final ranking stays final.
* Certificates: at most one per learner and tree, all callers receive it, it
  does not change.
* Start-up: a crash at any step leaves a database the next start completes.
* App shell: no order of late answers, exits and reloads leaves a screen without
  what it shows, or a page acting as a learner it does not show.
* Learner view: one action at a time; badges are backed by the ledger, and every
  proof on record is its own lesson's; nothing is published on another lesson's
  confirmation.
* Catalogue: the two copies agree, no lesson needs what no earlier one made, a
  quiz can be answered, a rank keeps its promise.

## 2. Plan

In this order, each with its proofs when it has any:

1. `Progress`, `Course`, `ProgressProofs`: the core; an abstract course in which
   a completion is atomic; all safety properties and the refinement proved. Done.
2. `Payouts`, `PayoutBudget`, `PayoutsProofs`: the two caps, audit and retries;
   an abstract budget; the bound and the refinement proved. Done.
3. `Pairing`, `PairingProofs`: devices, tokens, codes and expiry. Done.
4. `Shell`, `ShellProofs`: the browser's screens, storage and late answers. Done.
5. `LearnerFlow`, `LearnerProofs`: the lesson screen. Done.
6. `Catalogue`, `Curriculum`, `CurriculumProofs`: the real lessons, quizzes,
   ranks and goals. Done.
7. `Workshop`, `WorkshopProofs`: sessions, joins, the pruner, challenges and
   their leaderboard, certificates. Done.

What is proved. Every invariant and every action or refinement property of a
passing run is a theorem of its module, for all values of the constants. Two
properties are only model-checked, `TreesFinished` (section 3) and `FinalShown`
(section 9): they are liveness under fairness, which needs `ENABLED` and is out
of the prover's reach. The three runs that expect a violation
(`payouts_ceiling`, `learner_credit`, `learner_key`) show disagreements
between the code and what is written about it; there is nothing to prove there.

Left: the proof ledgers (`nostr_log`, `ecash_log` and the lessons that look them
up), the analytics as a pure module, the start-up sequence. Section 10 says why
they come last.

How the modules relate. `Progress` is the whole truth about completing a lesson;
`Workshop` and `LearnerFlow` use of it only that a lesson is recorded once, and
`LearnerFlow` in its path's order. `Pairing` is the server's and the devices' side of a
hand-off; `Shell` uses of it that a code is redeemed once. `Curriculum` runs over
`Catalogue`, the real data whose shapes the small instances of the others have.

## 3. Progress

`Progress.tla` models `complete_mission` (`routes/missions.rs` 65-186) with all
it calls, for any number of learners and in-flight requests, plus whatever else
changes the same state: the journey update, the clock, dropped handlers,
crashes and deploys.

State. `ledger` is `mission_completions` (the day of `completed_at`, `NotYet`
without a row); `row` holds the columns of `participants` a completion reads or
writes; `req[r]` is what request `r` holds in local variables, `pc` being the
`await` it has reached; `writer` is the request whose transaction has SQLite's
write lock; `release` and `day` are the running build and the clock. `credited`
and `faults` are history variables.

Actions, in the order of the handler:

| Action | Code |
|---|---|
| `Submit` | a request that passed authentication, range and emptiness checks (70-82) |
| `LoadRow` | first query of `load_participant` (participants.rs 797-805) |
| `RefuseCompleted`, `RefuseGate`, `PassGate` | second query, `hydrate_per_tree`, and the checks up to the next await (86-109) |
| `AcceptProof`, `RejectProof` | `verify_proof`; the identity lesson writes `nostr_pubkey` in a statement of its own (246) |
| `BindStamp` | `completed_at` is evaluated (147) before the INSERT is awaited |
| `InsertCompletion`, `InsertConflict`, `InsertBusy` | the INSERT gets the write lock and `today` is read (158), or meets the primary key, or waits longer than `busy_timeout` |
| `CommitCompletion` | the UPDATE with the map loaded at the beginning, and the commit (159-179) |
| `ReloadRow`, `ReloadLedger`, `Deliver` | `load_participant` again and the answer (181-186) |
| `Drop` | the timeout layer or a closed connection; an open transaction rolls back |
| `UpdateProfile`, `NextDay`, `Crash`, `Deploy` | `update_profile`, the clock, a restart on the same or the next build |

The rows an open transaction has written are not in `ledger` and `row` until
it commits, which is what other connections see. The catalogue is a constant:
`TreeMissions[k]` is the catalogue of build `k`, so a deploy is a step that
changes every list at once and keeps the database.

Left out: `current_mission` and `last_active`, which nothing reads before
writing; guidance, minutes and practice mode; the content of proofs (any proof
may be valid); a clock that moves backwards.

### The abstract specification

`Course.tla` says what the record promises: its one completing action,
`Complete(l, m, today)`, puts a lesson on the record and extends the streak in
one step, and only if the lesson is not there yet, some list or journey leads to
it, an identity lesson finds an identity, and `today` is neither in the future
nor before the streak's last day. Besides it there are new identities, new
builds and midnights; nothing is ever taken back.

`Progress` implements it (`ImplementsCourse`): `done` is the set of lessons with
a row, `streak` the two columns, `identified` the learners with a key. `CommitCompletion`
is `Complete`, `AcceptProof` of the identity lesson is `Identify`, `Deploy` is
`Publish`, and every other step, faults included, changes nothing there. The
handler reads its gate, its proof and its clock at different moments before the
commit, so the refinement says that all three still hold at the commit.

### Runs

All instantiate `MCProgress`, whose catalogues have the shapes of the real one:
a journey that skips a lesson of its tree, a journey that crosses trees, a
later build that inserts a lesson (which the journey skips) into the middle of a
tree and appends one to another.

| Run | Instance | Shows |
|---|---|---|
| `progress_races` | 1 learner, 5 lessons on 2 trees, 2 builds, a journey, 2 requests, 1 fault | `TypeOK`, `GateOrder`, `PointersSound`, `AnswersTrue`, `IdentityBound` in every interleaving, also when the catalogue changes under cached pointers |
| `progress_streak` | 1 learner, 3 lessons on 2 trees, one of them the identity lesson, 2 builds, 4 days, 2 requests, 1 fault | `StreakExact` and the refinement `ImplementsCourse` when requests overlap midnight and a deploy |
| `progress_live` | 3 lessons, 2 builds, 2 requests, 1 fault, fairness | `TreesFinished` |

Why the bounds are enough. Learners share nothing but the write lock, so one
learner with two requests has every conflict over a learner's rows, and the
second request can hold the lock the first one waits for. Two requests are what
a lost update needs. Four days hold a run, a gap and a new run, and two
midnights during one request. One fault lets a handler die at each point and
its retry follow. `MaxFaults` and `LastDay` only bound the run: the theorems
hold for all values.

Fairness (`FairSpec`): the runtime polls every handler (weak fairness of
`Handle`), a proof is judged sooner or later, the learner submits the next
lesson of each unfinished tree again and again, and a correct proof is accepted
at least now and then (strong fairness, because a journey update, another
request or a deploy may make the step impossible for a while). Nothing is
assumed of faults, deploys or the clock.

`completed_at` is bound before the INSERT waits for the write lock and the
streak's day is read after it, so a completion that waits across midnight is
recorded on one day and credits the next (the comment in `models/participant.rs`
speaks of days with a completion). That order has a good side: `today`
is read under the lock, and that is why `StreakKept` and `StreakExact` (which
counts credited days) hold; the mutant that reads both before the lock takes a
step `Course` does not allow.

### Proofs

`ProgressProofs.tla` proves, for every value of the constants:

* `TypeCorrect`: `Spec => []TypeOK`. `TypeOK` contains `OneWriter`, the
  lock discipline everything else rests on.
* `CompletionsPermanent`: `Spec => LedgerPermanent` (no recorded completion
  changes; proved, no run checks it), from `LedgerInv`: a
  request between INSERT and commit is inserting a row that is not there.
* `LessonsInOrder`: `Spec => []GateOrder`. The invariant `OrderInv` adds that
  stored pointers and what each request carries were reached when they were
  read. `ReachedMonotone` (a larger ledger reaches no less) carries this
  over the steps of other requests, which is the argument why a stale pointer
  map does no harm.
* `StreakIsExact` and `StreakIsKept`, from `StreakInv`: the streak is a maximal
  run of credited days, and a request that holds the lock carries a day
  not before the last credited one. `CreditDay` is the arithmetic of the
  UPDATE's CASE.

Assumed is only `ConstantsAssumption`. The proofs first give each handler step
an effect lemma (which fields it changes, from which `pc` to which), so the
inductive steps do not expand the actions again.

The last part of the module goes on with what learners are told:

* `PointersAreSound`: `Spec => []PointersSound`, from `OrderInv`. That an
  unfinished list has a first outstanding lesson is the least-number principle,
  which `LeastNumber.tla` takes from the library's facts on well-founded sets
  (`WFMin`), with no induction of its own.
* `AnswersAreTrue`: `Spec => []AnswersTrue`. `AnswerInv` says that from the commit
  on the lesson is on record, and that the reload's pointers avoid it.
* `IdentityIsBound`: `Spec => []IdentityBound`. `IdentityInv` adds that a request
  whose proof was accepted finds a key until it has committed; keys are replaced
  and never removed.

* `ProgressImplementsCourse`: `Spec => ImplementsCourse`, from all the invariants
  above together. `CommitCompletes` is its core: `LedgerInv` gives that the lesson
  is new, `OrderInv` that it was led to, `IdentityInv` that the identity is in
  place, `StreakInv` that the day is in order, each of them at the moment of the
  commit. `LedgerPermanent` (for the dates) is the only action property it
  does not contain.

Only model-checked: the liveness property, which is out of the prover's reach.

## 4. Payouts

`Payouts.tla` models `routes/lightning.rs` 28-339 and the calls of
`services/ldk_service.rs` under it: `POST /api/invoice` and `POST /api/pay` in
the three configurations (nothing configured; real invoices with simulated
payments; real payments). A request is split where the handler awaits: decode,
the sum of the learner's rows with the decision on it, the audit row, the order
to LNbits, its answer, the row in `lightning_log`.

LNbits is external and modelled by what the code relies on: it decodes, it
accepts an order (`orders`), and it settles each invoice at most once at any
later time (`settled`, `paid`), also when the handler has already failed, timed
out or died. Invoices ask for millisats (`MsatOf`). `decode_invoice` counts whole
sats (`SatsOf`, the floor of `ldk_service.rs` 167), but what is forwarded is the
invoice itself (196), so LNbits moves all its millisats. The comment at 148-149,
"any sub-sat residue can't be paid on Lightning anyway", is therefore not what
happens: a residue is paid and not counted, and an invoice of 999 millisats
counts as nothing and passes both caps any number of times.

| Definitions | Code |
|---|---|
| `config` | which of LNbits and the payout opt-in are configured; read at start and never changed |
| `audit` | the allowed rows of `lightning_payment_audit`: their sum and their invoices (and, as history no row has, the millisats those ask for). Other decisions are written and never read |
| `lost` | history: allowed rows whose INSERT failed (`write_audit` logs and returns) |
| `log` | `lightning_log`, keyed like its primary key by kind and artifact |
| `SubmitReal`, `DecodeOk`, `DecodeFails`, `ReadSpent`, `WriteAudit`, `AuditLost`, `Forward`, `PaidAnswer`, `ErrorAnswer` | `pay_invoice`, real path |
| `SubmitSimulated`, `SubmitSimulatedInvoice`, `Tick` | the simulated paths: hashes and invoices made of the unix second |
| `LogArtifact`, `LogConflict`, `DatabaseFails`, `Deliver`, `Drop` | the proof row, failed statements, the answer, the timeout layer or a crash |

`PayoutBudget.tla` is the promise: payments are counted in whole sats within a
ceiling, and then their millisats may move, never more than the counted payments
ask for. `ImplementsBudget` checks that the handler with all its steps implements
it, with `counted` and `asked` the sats and the millisats of the rows written or
lost, and `moved` what LNbits moved. The abstract specification has the rounding
in its `Count`, because the code has it: the ceiling bounds `counted`, and `moved`
may exceed it by less than a sat for each payment. Nor is the ceiling that is
implemented the documented one: it is larger by one payment for each further
concurrent request and each lost row.

### Runs

| Run | Instance | Shows |
|---|---|---|
| `payouts_races` | all three configurations, 2 learners who may order the same invoice, 2 invoices (one above the per-call ceiling, one of 2999 millisats), 2 seconds, 2 requests, 1 fault, 1 lost row | `TypeOK`, `AuditBound`, `CountedFirst`, `LogMeansPaid`, `AnswerProvable` (hashes collide within a second), `ImplementsBudget` |
| `payouts_ceiling` | 1 learner, 2 invoices of whole sats, 2 requests, no faults | a violation: the documented ceiling |

Two requests are what a stale sum needs, and the bound is attained by them:
`AuditBound` with one sat less fails. One fault and one lost row let each step
be the last of its handler. Slots are reused, so a learner pays any number of
times, until the ceiling: one that fits, then two at once that overrun it by one
payment. Sums of unequal amounts are left to `CeilingOverrunBounded`. Only the
simulated strings read the clock, so it stands still in the configuration that
has none.

The finding. `.env.example` 127-130 and `lightning.rs` 28 call
`MAX_PARTICIPANT_PAYOUT_SATS` a cumulative ceiling; the sum and the row are
separate statements, and two concurrent payments are both allowed
(`payouts_ceiling`, with whole sats, so that the residues have no part in it). A row may also be missing: `write_audit` swallows its error
and the payment goes on, which `lost` records and `AuditBound` allows for.

### Proofs (`PayoutsProofs`)

For every configuration, every ceiling and any finite number of requests:

* `TypeCorrect`.
* `CountedBeforeMoved`: `CountedInv` adds to the property what must hold before
  a payment exists: an accepted order is covered by a row, and so is a request
  about to send one.
* `LoggedMeansPaid`, `AnswersProvable`: `LedgerInv` adds that a handler about to
  log a payment has seen it settled, and that a simulated hash is not the hash
  of an invoice (assumed in `ConstantsAssumption`: the latter is a hash, the
  former a unix time padded with zeros).
* `CeilingOverrunBounded`: the sum alone is not inductive. `AuditInv` says that
  among the requests that were allowed and have not written their row (n of
  them) there is one, the last to read the sum, with `sats + its amount + (n -
  1) * MaxPaymentSats` within the bound. Writing a row, losing it and dropping a
  handler shrink that set (`WithinShrinks`), a new decision starts the argument
  again (`WithinGrows`).

* `PayoutsImplementBudget`: `Spec => ImplementsBudget`. The millisats LNbits moved
  are those of invoices counted and settled, so `paid` within `AskedFor` compares a
  sum over a growing set with another, and no induction over sets is at hand.
  `BudgetInv` says it without a sum: the invoices that are counted for a learner
  and not settled *fit* into `AskedFor - paid`, which is, each can be laid into an
  interval of its own of that room (`Laid`, `Fits`). Counting an invoice adds its
  interval at the end (`FitsAdd`), settling one takes its interval out and moves
  down what lies above it (`FitsRemove`). Counting an invoice once more, as a retry
  does, only widens the room (`FitsWider`). `BudgetInv` was checked by TLC over the
  instance of `payouts_races` before it was proved. `BudgetRefined` then maps
  each step: writing or losing an audit row is `Count`, a settlement `Move`, the
  rest stutters, and `CeilingOverrunBounded` is what keeps `Count` within the
  abstract ceiling.
* `CeilingExactAlone`: with one request at a time, no lost row and invoices of
  whole sats (`WholeSats`), `CeilingKept`, the documented ceiling, holds of the
  millisats LNbits moved. So there are three ways past the documented ceiling, and
  no fourth: concurrent requests (`payouts_ceiling`), lost rows, and residues below
  a sat.

## 5. Pairing

`Pairing.tla` models who is signed in as a learner: the bearer lookup
(`auth.rs` 44-75), `create_pairing_code` and `redeem_pairing_code`
(`routes/participants.rs` 612-725) on the server, and the credentials in each
device's localStorage (`lib/auth.ts`, `redeemPairingCode` in `lib/api.ts`,
`onExitToLanding` in `App.tsx`).

State. `token[l]` is the generation of the token whose hash is in
`participants`; a device or an answer that holds the pair of a learner and that
generation can act as the learner, an older one is refused. `codes` are the rows of
`pairing_codes`. `device` is the localStorage of each
browser. `req[r]` are the local variables of a request. `redeemed`, `lost`,
`wiped` and `faults` are history. Tokens (256 random bits) and codes (40) are
fresh values: that nobody guesses them is assumed, not shown.

| Actions | Code |
|---|---|
| `AskCode`, `Authenticate`, `Unauthorized` | the modal on device A and the middleware's lookup. The handler that runs after it does not look again |
| `Create`, `ShowCode` | one transaction: DELETE the learner's codes, INSERT the new one; the answer |
| `TypeCode`, `Redeem`, `Refuse` | device B; the clock is read, then one transaction sweeps, looks up, consumes and rotates. A refusal drops the transaction and with it the sweep |
| `Load`, `SignIn` | `load_participant` after the commit; the answer overwrites what the device had |
| `DatabaseFails`, `ShowError`, `Drop` | a statement fails; the timeout layer, a crash or a broken connection |
| `Exit`, `Tick` | the device forgets its credentials (Exit, Start fresh, a new start); the clock |

A device whose token stopped working keeps it: no code removes it. A start that
joins as somebody else is `Exit` here, because learners who join later are
independent of those already there. Pruning deletes only sessions without
participants, so no learner disappears.

### Runs

| Run | Instance | Shows |
|---|---|---|
| `pairing_races` | 2 learners who can take over each other's devices, 2 requests, 2 codes that live one second of three, 1 fault | `TypeOK`, `SingleUse`, `OneDevice`, `SignedInSomewhere` |

Two requests are what two redemptions of a code, or a redemption that overtakes
an authenticated request, need; two codes let one be superseded or redeemed while
the other lives or expires; a lifetime of one second in three has a stamp before, on and
after the expiry, and requests that wait across it. A third device would only
repeat the second one: nothing compares devices.

A learner can be lost: the commit of a redemption is on line 716, the answer
needs another query and the way back, and if either fails no device can act as
the learner. `SignedInSomewhere` says that this is the only way. A request that
passed the middleware before a hand-off is still served after it, so a late code
may move the learner back; `OneDevice` says that it never makes two devices.

### Proofs (`PairingProofs`)

For any number of learners, devices, requests, codes and faults and every
lifetime, from `ConstantsAssumption` (each learner joined on a device of its
own):

* `TypeCorrect`. `TypeOK` contains the ordering the others need: no
  device or answer holds a generation newer than the one that resolves.
* `NeverOnTwoDevices` and `NeverSignedOutUnseen`. Both are inductive given
  `TypeOK`. `RedeemMoves` says that a redemption makes a token nobody can hold
  and puts it on the way of one request; `SignInMoves` that an answer moves it
  to one device; `QuietSteps` that every other request step leaves the devices
  alone and gives up a token only into `lost`.
* `CodeUsedOnce` and `OneCodePerLearner`. Neither is inductive: a request
  that has drawn a code but not stored it could have that of a redeemed row.
  `CodesApart` adds that codes drawn, stored and redeemed are apart. (No run
  checks `OneActiveCode`, at most one working code per learner: it is proved.)

## 6. Shell

`Shell.tla` models `App.tsx` with `lib/auth.ts`, `lib/api.ts` and the four views
whose requests change what it holds (`FacilitatorAccessView`,
`ChallengeCreateView`, `ChallengeView`, the pairing dialogue).

State. `tab[t]` is the App component of a tab: its screen, the ids it holds, the
session a link named, the challenge on show. `stored` is the one localStorage
record all tabs share. `calls[c]` is a request in flight with what its
continuation closes over; `session`, `member` and `codes` are the server as the
page can tell. `submits` only bounds the run.

Actions. `Load` is a page load from any address the app understands, over
whatever the tab showed; the requests of the page that was there are abandoned.
Every screen's controls are one action (`Landing`, `ChooseMode`, `ChooseGoal`,
`LeaveSetup`, `Challenge`, `AppShell`, ...). `Start`, `SubmitCode` and
`SubmitToken` send; `CreateAnswered`, `JoinAnswered`, `StartFailed`, `Paired`,
`CodeFailed`, `Probed`, `Opened`, `Refused` are the continuations after each
`await`; the `Serve` actions and `Lose` are the server and the network. A
form can be submitted by Enter while its request runs, and a continuation
acts even when the visitor has left the screen: no code cancels it.

The run `shell` has one tab, two requests, a workshop run by others, a pruned one,
an id for a session of our own, and a learner who may move here: enough for an
answer to meet a page that exited, started again, paired or reloaded. Two tabs
exceed what TLC can enumerate; the theorems cover any number.

`ShellProofs` proves `TypeCorrect`, `ScreensFilled` (`NeverBlank`), `StoredOfOne`
(`StoredTogether`) and `NeverAsAnother` (`ActsAsShown`) for any number of tabs
and requests. `TypeOK` is not inductive: `CallsTrue` says that an answered call
carries what its continuation stores (a joined participant with the session they
joined), `CodesJoined` that a learner with a code has a session. `StoredInv` adds
that whoever's token is stored has joined, so that no later join can be given
their id. Steps that bring no participant are treated at once (`Plain`).

## 7. LearnerFlow

`LearnerFlow.tla` models `views/LearnerView.tsx`: the picker, the three steps of
a lesson, the navigation between lessons, every kind of Do step with its one or
two requests, the badges, and the rehydration from the server.

State. `view` is the component's state (which lesson, which step, the quiz, the
half-open confirmation, whether there is an outcome, what it believes completed,
the pointers, the badge on show, the rehydration); `acts[s]` is a run of `handleDo`
with the values it closed over; `news` are badge refreshes in flight; `nsec` and
`seed` are the secrets in localStorage; `ledger`, `npub` and `posted` are the
server's and the relays'. Three values are history that no guard tells apart: a
proof is written as the lesson whose action made it, the confirmation as the
lesson it asks about, and an event remembers both its lesson and that question.
The outcome is, as in the code, without a lesson: whatever screen it meets takes
it for its own.

| Actions | Code |
|---|---|
| `Mount`, `Leave`, `HydrateRead`, `Hydrated`, `HydrateFailed` | opening; leaving by the logo, by Exit (which takes the secrets out of the browser) or by a reload; the reads and their late answer |
| `EnterTree`, `ExitToTreePicker`, `GoPrev`, `GoNextReview`, `ContinueAfterBadge`, `GoNextMission` | the navigation; each resets the step, the quiz and the outcome |
| `Advance`, `HandleQuizSubmit`, `OpenDo`, `OnRetry`, `PhaseTabs` | read and quiz; the 700 ms timer opens the Do step of whatever is shown by then |
| `AskConfirm`, `GoBackAndEdit`, `HandleDo` | the Do step, by kind: generated secrets, stored or pasted keys, services |
| `Serve`, `Complete`, `Lose` | the service, then the completion, on the server; a lost request or answer |
| `Continue`, `Succeeded`, `Failed` | the continuations. A screen that was left still runs them; a reloaded one does not, but its request may still arrive |
| `BadgesRead`, `BadgesShown`, `BadgesLost` | the refresh after a lesson, read and answered apart |

Runs. `learner` is a learner who registered a key on another device and pastes it
here: one path with the identity lesson, already on record, and one that publishes a
note and a follow list; two Do steps and two badge refreshes at once, one loss. Two
slots let an action of a screen that was left overlap one of the screen shown; two
lessons that publish let a confirmation meet another lesson; two refreshes let the
later one be answered first. The kinds that generate a secret or call no service,
and a learner who starts here, are in the instance of `learner_credit` and in the
theorems, not in this run.

| Property | Says |
|---|---|
| `OneAtATime` | the button is disabled exactly while this screen's one action runs |
| `BadgesEarned` | a badge shown or celebrated is backed by the ledger, although the screen credits lessons by itself and answers come in any order |
| `OwnProof` | what is on record for a lesson was made by that lesson's own action |
| `AskedFirst` | what left for the relays was asked about on its own lesson, never on a confirmation carried over from another |

`learner_credit` is a finding. Line 788 says "Only credit the mission after the
action succeeded", but the outcome does not say of which lesson it is. When lesson
A is answered while lesson B is on the screen, A's result stands over B, and its
Next button (`goNextMission`, 231-250) marks B completed and moves on, with nothing
on the server. `CreditEarned` says that what the screen believes completed is on
record, and is violated.

`learner_key` is another: the comment at 116-119 says the recovery field exists so
that learners "aren't dead-ended", but a valid key that is not the registered one is
stored by the first attempt, the field is then hidden, and every further attempt
signs with it, also after a reload: localStorage keeps it until Exit or Start fresh.

One divergence has no run of its own. The comments at 2210-2213 and 2455-2458 say
that an event is confirmed before it goes out, and that an empty text falls through
to a validation error. A follow list has none: with an empty text it is published
unasked (602, `fiatjaf`). The model takes that step, and `AskedFirst` says no more
than that such a list goes out on no question, rather than on another lesson's.

After a lost answer of a completion the lesson is on record and the screen does not
know: every retry is refused until the view is opened again. The code promises
nothing else, and no property is stated.

Proofs. `LearnerProofs` proves all five invariants of `learner` for every curriculum,
every set of keys, new learners and old, and any number of actions and losses. Their
conjunction is almost inductive; `Inv` adds `ActsOK` (an action in flight carries its
own lesson's proof and, if it publishes, its own lesson's question, and a completion
answered "ok" is on record), that the confirmation on the screen is of the lesson
shown, and `NewsEarned` (a badge answer holds only trees the ledger has finished).
`Keeps` is what navigation has in common: it neither starts nor ends an action, so
that one lemma (`ScreenStep`) serves all of it; `BehindStep` does the same for what
happens behind the screen. The assumptions are the three of the module: lessons have
a kind, paths are not empty, `None` is nothing else.

## 8. Catalogue and Curriculum

`Catalogue.tla` is the data: the lessons of `types.ts` with their Do kinds and right
answers, the paths, goals and recommendations, and the server's own lists
(`mission.rs`, `badge.rs`). `Curriculum.tla` flies them: paths in any order, the
quiz shuffled by the page's generator step by step, a Do step that needs what an
earlier one made. `made` is what lessons on record have made, `held` what the browser
at hand keeps of it: `ChangeBrowser` is Exit, Start fresh or another device. The
map gives the catalogue's definitions the whole entries of the lessons, of which
they keep the number, the kind and the right answer, and abstract the texts. The generator's state is kept as a high part of 15 bits and a
low one of 16, because TLC's integers end at 31 bits and the code's product is a
double that is then masked.

The run `curriculum` needs no bound: it is the whole catalogue. It checks that
the two copies agree (`MirrorsAgree`), that in no order of paths a lesson needs a
seed phrase or key that no lesson on record made (`GivenBefore`), that a shuffle is a permutation
under which no position is right too often (`PositionUseless`), and the ranks and
recommendations (`RankPromise`, `AlwaysAWayIn`). Lesson 106 is left unjudged by the server's verifier on purpose
(`mission.rs` 464-467), and excepted.

`GivenBefore` does not say that the browser still has the secret. A learner who
cleared it, or came from another device, is asked for the key (2219-2229) but cannot
enter a seed phrase: lessons 41 and 92 then show "Generate your seed phrase first
(mission 11)." (632, 658), and lesson 11 is on record and only reviewed. In the model
`DoStep` is disabled there until a browser that has the phrase is back; that the
code offers no other way is a divergence between its message and what it does.

`CurriculumProofs` proves all five. The module has no constants, so that the run is
exhaustive already; what the proofs add is on which facts about the catalogue each
promise rests, and that nothing else matters, in particular not the order of the
paths. Whoever edits the catalogue sees which lemma must still hold:

* `TheMirrorsAgree` rests on `TablesAgree` (both lists of the paths), `HomeOf` (no
  lesson stands in two paths) and `LessonsAre` (the kinds, chunk by chunk, glued by
  `Glue`).
* `SecretsGivenBefore` rests on `MadeEarlier`: 41 and 92 stand after 11 in their
  path, 17, 26, 27 and 30 after 14 in theirs. `Kept`, the inductive invariant,
  says that what the path's earlier lessons gave has been made.
* `PositionIsUseless`. The loop's invariant `Turns` gives the order at every value of
  the counter, whence `QuizShowsEachAnswerOnce`. For the count, `Places` tables
  where each right answer ends up, each entry computed by the prover, and
  `Partners` pairs each lesson with one whose answer stands elsewhere, so that
  `HalfAtMost` needs no counting. `SecondDraw` shows on the way that the second
  draw of the shuffle is the parity of the lesson's number: the generator's low
  bit alternates, so that only the first draw tells two lessons of equal parity apart.
* `RanksKeepTheirPromise` rests on every path having one of three difficulties,
  `RecommendationsLeadOn` on `AfterEarlier` (a recommended path comes earlier in
  the catalogue, whence the earliest unfinished one is free) and on each goal
  listing every path.

## 9. Workshop

`Workshop.tla` models what a group shares: `create_session` and `join_session`
(`routes/participants.rs`), `prune_empty_sessions` (`services/prune.rs`),
`create_challenge` and `challenge_results` (`routes/challenges.rs`) with the page
that polls it (`ChallengeView.tsx`), `issue_certificate` (`routes/certificates.rs`)
and the badge it judges (`models/badge.rs`).

State. `sessions`, `contest` (the challenge behind a session), `member`, `ledger`
(with `completed_at`) and `certs` are the tables; `req[r]` a request between two
statements; `view` a page's poll between its reads, `shown` the leaderboard on
its screen; `release` the running build, `clock` the server's time.

| Actions | Code |
|---|---|
| `CreateSession`, `CreateChallenge`, `PruneEmptySessions` | one statement or transaction each |
| `JoinCheck`, `JoinInsert` | the existence check, and the INSERT, where the foreign key judges again |
| `CompleteStamp`, `CompleteWrite` | `completed_at` is bound before the write lock is had; a second row meets the primary key. The order of lessons is `Progress`'s subject |
| `CertLook`, `CertBadge`, `CertInsert`, `CertRead` | an existing certificate is returned before anything is judged; else judge, sign, insert unless there is one, and answer with the row that is there |
| `OpenBoard`, `SeePeople`, `SeeLedger`, `ShowBoard` | one poll; the status is taken after the rows were read |
| `Drop`, `PollFails`, `Forget`, `Deploy`, `Tick` | failed statements, the timeout layer, a restart on the next build, time. No stamp older than the request timeout is written: that is what the layer is for |

The run `workshop` has one session, one learner, two requests, a challenge that is
open when the clock starts and ends halfway through four instants, or one that is
still upcoming then, a tree that a deploy lengthens and one
fault. Learners share only the session; two requests are a join against its
retry, two completions of one lesson, two issues of one certificate; a deploy
between them makes a certificate older than its tree. Deadlock is not checked
because session ids and clock are bounded, so the instance may stop.

| Property | Says |
|---|---|
| `NobodyOrphaned` | whoever joined has a session that is there |
| `OneCertificate`, `CertificateTrue`, `CertificateHonoured` | all callers get the same one; it was earned, at the time it says, under the build that signed it; once there it is honoured whatever is deployed |
| `BoardOnlyGrows` | nobody vanishes from a leaderboard on screen and no score on it shrinks |
| `ScoresSettle` | a score changes only within the window and one request timeout after it |
| `FinalShown` | an open page ends with the final scores |

Fairness (`LiveSpec`): the page polls every 15 seconds whatever it was last told,
also after the end, and the server answers what it is asked. A page that stopped
at "ended" could keep a board that misses a stamped completion still waiting
for the lock: the mutant of `FinalShown`.

`WorkshopProofs` proves all of these but `FinalShown`, for any number of sessions,
learners, lessons, trees, builds and requests. `TypeInv` adds to `TypeOK` what
each `pc` implies of what a request holds, and that no row is stamped in the
future. `NobodyOrphaned` needs that the participant ids of joins in flight are
apart (`JoinsApart`). `CertInv` says that every request that signed, read or
answered knows a true certificate, the stored one if it has seen one. `BoardInv`
says that what a page shows or has read is part of what it would read now;
that rows stay (`Permanent`) carries it over every other step. `ScoresAreSettled`
is where the timeout enters: a request about to write holds a stamp no older.

## 10. Not modelled

The components of `PROJECT.json` with status `not_modelled` or `partly` say what is
left out of each. In short:

* The answers of block explorers, GitHub, relays, the Cashu mint: verdicts
  of other systems, read within one request, here a nondeterministic choice.
* `nostr_log` and `ecash_log`: rows inserted once and looked up by lessons; no
  statement of the code depends on the order of two of them. The proof ledger
  with a race, `lightning_log`, is in `Payouts`.
* The analytics and the dashboard that polls them: reads and arithmetic.
* The start-up: it runs alone, and what it leaves is every module's `Init`.
* The service worker, which never touches the API; rendering and copy; key
  generation, which is a library's.
